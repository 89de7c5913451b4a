------------------------- MODULE OtaProvider_proofs -------------------------
(***************************************************************************)
(* Proofs about OtaProvider, for all nodes, products, ledgers, queries and *)
(* lengths of cache and queue.  The invariant says where the one query     *)
(* that is in progress can be: with the Matter task that is about to queue *)
(* it, once in the queue, or with the candidate task, and never in two of  *)
(* these places; and that what was found for it fits it.                   *)
(***************************************************************************)
EXTENDS OtaProvider, TLAPS

\* The leaves are for Zenon; those that need arithmetic cite SMT.
USE Zenon

\* The places of the queue that hold a fetch.
Fetches == {i \in 1 .. Len(queue) : queue[i] # UpdateAll}

\* A record says what the ledger says of a version of its product.
Sound(c) ==
    /\ c \in Candidate
    /\ \E r \in Dcl[c.product] : r.ver = c.ver /\ r.min = c.min /\ r.max = c.max

GoodCache(c) ==
    /\ c \in [Slots -> Candidate \cup {None}]
    /\ \A i \in Slots : c[i] # None => Sound(c[i])
    /\ \A i, j \in Slots : c[i] # None /\ c[j] # None /\ c[i].product = c[j].product => i = j

CacheInv == GoodCache(cache)

\* The query in progress is in one place.
CallInv ==
    /\ sending \in BOOLEAN /\ orphaned \in BOOLEAN
    /\ handle \in Query \cup {None} /\ peer \in Node \cup {None}
    /\ queue \in Seq(Action \cup {UpdateAll})
    /\ handle # None => peer = handle.node
    /\ handle = None => ~ sending /\ task = None
    /\ handle = None \/ sending \/ task # None => Fetches = {}
    /\ \A i \in Fetches : queue[i] = [product |-> handle.product, ver |-> handle.ver]
    /\ \A i, j \in Fetches : i = j
    /\ NeverBothWait

\* What the candidate task has found fits the query in progress.
FoundInv ==
    task # None =>
        /\ task = [step |-> task.step, found |-> task.found]
        /\ task.found # None =>
              /\ Sound(task.found)
              /\ task.found.product = handle.product
              /\ IsCandidateValid(task.found, handle.ver)

EntryInv ==
    /\ entries \in [DOMAIN entries -> Entry] /\ DOMAIN entries \subseteq Node
    /\ handle # None /\ ~ orphaned => peer \in DOMAIN entries
    /\ task # None /\ task.step = "write" => peer \in DOMAIN entries /\ task.found # None
    /\ task # None /\ task.step = "stray" =>
           /\ orphaned /\ task.found # None
           /\ peer \in DOMAIN entries => entries[peer].img = NoUrl
    /\ task # None /\ task.step = "send" /\ task.found # None /\ peer \in DOMAIN entries =>
           \/ entries[peer].img = <<task.found.product, task.found.ver>>
           \/ entries[peer].img = NoUrl /\ orphaned

SlotInv ==
    /\ initialized \in BOOLEAN
    /\ bdxNode \in Node \cup {NoNode}
    /\ held \in [Node -> Url \cup {NoUrl}]
    /\ SlotConsistent
    /\ DownloadIsOffer

IInv == CacheInv /\ CallInv /\ FoundInv /\ EntryInv /\ SlotInv /\ OfferFits

-----------------------------------------------------------------------------
(* The cache *)

\* The record made from a version of the ledger is sound.
LEMMA AsCandidateSound ==
    ASSUME NEW p \in Product, NEW r \in Dcl[p], NEW life \in Nat
    PROVE  /\ Sound(AsCandidate(p, r, life))
           /\ AsCandidate(p, r, life).product = p
           /\ AsCandidate(p, r, life).ver = r.ver
           /\ AsCandidate(p, r, life).min = r.min
           /\ AsCandidate(p, r, life).max = r.max
<1>1. r \in ModelVersion
  BY CandidatesAssumption
<1>2. AsCandidate(p, r, life) \in Candidate
  BY <1>1 DEF AsCandidate, Candidate, ModelVersion
<1>. QED
  BY <1>2 DEF Sound, AsCandidate

\* After a search that found no record to use, the cache has none of the
\* product left: the one record it can hold was expired.
LEMMA SearchedClean ==
    ASSUME CacheInv, NEW p \in Product, NEW cur \in Nat,
           \A i \in Hits(p) : ~ IsCandidateValid(cache[i], cur)
    PROVE  /\ GoodCache(Searched(p, cur))
           /\ \A i \in Slots : Searched(p, cur)[i] # None => Searched(p, cur)[i].product # p
<1>. DEFINE c == Searched(p, cur)
<1>1. c \in [Slots -> Candidate \cup {None}]
  BY DEF Searched, CacheInv, GoodCache
<1>2. \A i \in Slots : c[i] # None => c[i] = cache[i]
  BY DEF Searched
<1>3. ASSUME NEW i \in Slots, c[i] # None, c[i].product = p
      PROVE  FALSE
  <2>1. i \in Filled /\ cache[i].product = p
    BY <1>2, <1>3 DEF Filled
  <2>2. \A j \in Filled : cache[j].product = p => i <= j
    BY SMT, <2>1 DEF Filled, CacheInv, GoodCache, Slots
  <2>3. i \in Hits(p)
    BY <2>1, <2>2 DEF Hits
  <2>. QED
    BY <1>3, <2>3 DEF Searched
<1>. HIDE DEF c
<1>4. GoodCache(c)
  BY <1>1, <1>2 DEF CacheInv, GoodCache
<1>. QED
  BY <1>3, <1>4 DEF c

\* A record of a product the cache has none of may be put into any slot.
LEMMA InsertedGood ==
    ASSUME NEW c, GoodCache(c), NEW p \in Product, NEW r \in Dcl[p],
           \A i \in Slots : c[i] # None => c[i].product # p
    PROVE  GoodCache(Inserted(c, p, r))
<1>. DEFINE d == Inserted(c, p, r)
            slot == FindEmpty(c)
<1>0. d = [i \in Slots |-> CASE i = slot -> AsCandidate(p, r, 0)
                              [] i # slot /\ c[i] = None -> None
                              [] OTHER -> [c[i] EXCEPT !.life = @ + 1]]
  BY DEF Inserted
<1>. HIDE DEF d, slot
<1>1. ASSUME NEW i \in Slots, i = slot
      PROVE  Sound(d[i]) /\ d[i].product = p
  BY SMT, <1>0, <1>1, AsCandidateSound
<1>2. ASSUME NEW i \in Slots, i # slot, c[i] = None
      PROVE  d[i] = None
  BY <1>0, <1>2
<1>3. ASSUME NEW i \in Slots, i # slot, c[i] # None
      PROVE  Sound(d[i]) /\ d[i].product = c[i].product
  <2>1. d[i] = [c[i] EXCEPT !.life = @ + 1]
    BY <1>0, <1>3
  <2>2. c[i] \in Candidate /\ Sound(c[i])
    BY <1>3 DEF GoodCache
  <2>. QED
    BY SMT, <2>1, <2>2 DEF Sound, Candidate
<1>4. d \in [Slots -> Candidate \cup {None}]
  <2>1. \A i \in Slots : d[i] \in Candidate \cup {None}
    BY <1>1, <1>2, <1>3 DEF Sound
  <2>. QED
    BY <2>1, <1>0
<1>5. \A i \in Slots : d[i] # None => Sound(d[i])
  BY <1>1, <1>2, <1>3
<1>6. ASSUME NEW i \in Slots, NEW j \in Slots, d[i] # None, d[j] # None, d[i].product = d[j].product
      PROVE  i = j
  BY <1>1, <1>2, <1>3, <1>6 DEF GoodCache
<1>. QED
  BY <1>4, <1>5, <1>6 DEF GoodCache, d

-----------------------------------------------------------------------------
(* One lemma per conjunct of the invariant *)

\* Only the candidate task writes the cache.
LEMMA CachePreserved == IInv /\ [Next]_vars => CacheInv'
<1>. SUFFICES ASSUME IInv, [Next]_vars PROVE CacheInv'
  OBVIOUS
<1>1. CASE cache' = cache
  BY <1>1 DEF IInv, CacheInv, GoodCache, Sound
<1>2. CASE Crash
  BY <1>2 DEF Crash, CacheInv, GoodCache
<1>3. CASE CandidateTask /\ Head(queue) = UpdateAll
  <2>1. PICK newer \in [Slots -> UNION {Dcl[p] : p \in Product} \cup {None}] :
          /\ \A i \in Slots : newer[i] # None => i \in Filled /\ newer[i] \in Dcl[cache[i].product]
                                                 /\ IsCandidateValid(newer[i], cache[i].ver)
          /\ cache' = [i \in Slots |-> IF newer[i] = None THEN cache[i]
                                       ELSE AsCandidate(cache[i].product, newer[i], cache[i].life)]
    BY <1>3 DEF CandidateTask, QueueReceive, UpdateCache
  <2>2. ASSUME NEW i \in Slots, newer[i] # None
        PROVE  /\ Sound(cache'[i]) /\ cache'[i].product = cache[i].product
               /\ cache[i] # None
    <3>1. i \in Filled /\ newer[i] \in Dcl[cache[i].product]
      BY <2>1, <2>2
    <3>2. cache[i] # None /\ cache[i] \in Candidate
      BY <3>1 DEF Filled, IInv, CacheInv, GoodCache, Sound
    <3>3. cache[i].product \in Product /\ cache[i].life \in Nat
      BY <3>2 DEF Candidate
    <3>4. cache'[i] = AsCandidate(cache[i].product, newer[i], cache[i].life)
      BY <2>1, <2>2
    <3>. QED
      BY SMT, <3>1, <3>2, <3>3, <3>4, AsCandidateSound
  <2>3. \A i \in Slots : newer[i] = None => cache'[i] = cache[i]
    BY <2>1
  <2>4. cache' \in [Slots -> Candidate \cup {None}]
    <3>1. \A i \in Slots : cache'[i] \in Candidate \cup {None}
      BY <2>2, <2>3 DEF IInv, CacheInv, GoodCache, Sound
    <3>. QED
      BY <2>1, <3>1
  <2>. QED
    BY SMT, <2>2, <2>3, <2>4 DEF IInv, CacheInv, GoodCache
<1>4. CASE CandidateTask /\ Head(queue) # UpdateAll
  <2>. DEFINE a == Head(queue)
  <2>1. a \in Action
    BY SMT, <1>4 DEF CandidateTask, QueueReceive, IInv, CallInv
  <2>2. a.product \in Product /\ a.ver \in Nat
    BY <2>1 DEF Action
  <2>3. Fetch(a)
    BY <1>4 DEF CandidateTask, QueueReceive
  <2>. HIDE DEF a
  <2>4. CASE \A i \in Hits(a.product) : ~ IsCandidateValid(cache[i], a.ver)
    <3>. DEFINE e == Searched(a.product, a.ver)
    <3>1. GoodCache(e) /\ \A i \in Slots : e[i] # None => e[i].product # a.product
      BY <2>2, <2>4, SearchedClean DEF IInv
    <3>2. \/ cache' = e
          \/ \E r \in Dcl[a.product] : cache' = Inserted(e, a.product, r)
      BY <2>3, <2>4 DEF Fetch
    <3>. HIDE DEF e
    <3>3. GoodCache(cache')
      BY <2>2, <3>1, <3>2, InsertedGood
    <3>. QED
      BY <3>3 DEF CacheInv, GoodCache, Sound
  <2>5. CASE \E i \in Hits(a.product) : IsCandidateValid(cache[i], a.ver)
    BY <1>1, <2>3, <2>5 DEF Fetch
  <2>. QED
    BY <2>4, <2>5
<1>5. CASE UNCHANGED vars
  BY <1>1, <1>5 DEF vars, candVars
<1>6. CASE Next /\ ~ CandidateTask /\ ~ Crash
  BY <1>1, <1>6 DEF Next, Send, HandleQueryImage, FetchOtaCandidate, UpdateTimer, PeriodicUpdate,
     FindEntry, WriteEntry, SendNotAvailable, SendBusy, SendUpdateAvailable, SendFailure, Transfer,
     HandleNotifyUpdateApplied, RemoveOtaRequestorEntry, EnableOtaForNode, DisableOtaForNode, candVars
<1>. QED
  BY <1>2, <1>3, <1>4, <1>5, <1>6

\* What an Append and a Tail do to the fetches in the queue.
LEMMA FetchesAppend ==
    ASSUME queue \in Seq(Action \cup {UpdateAll}), NEW a \in Action \cup {UpdateAll},
           queue' = Append(queue, a)
    PROVE  /\ queue' \in Seq(Action \cup {UpdateAll})
           /\ a = UpdateAll => Fetches' = Fetches
           /\ a # UpdateAll => Fetches' = Fetches \cup {Len(queue) + 1}
           /\ \A i \in Fetches : queue'[i] = queue[i]
           /\ queue'[Len(queue) + 1] = a
<1>1. /\ Len(queue') = Len(queue) + 1 /\ Len(queue) \in Nat
      /\ \A i \in 1 .. Len(queue) : queue'[i] = queue[i]
      /\ queue'[Len(queue) + 1] = a
      /\ queue' \in Seq(Action \cup {UpdateAll})
  BY SMT
<1>2. a = UpdateAll => Fetches' = Fetches
  BY SMT, <1>1 DEF Fetches
<1>3. a # UpdateAll => Fetches' = Fetches \cup {Len(queue) + 1}
  BY SMT, <1>1 DEF Fetches
<1>. QED
  BY <1>1, <1>2, <1>3 DEF Fetches

LEMMA FetchesTail ==
    ASSUME queue \in Seq(Action \cup {UpdateAll}), queue # <<>>, queue' = Tail(queue)
    PROVE  /\ queue' \in Seq(Action \cup {UpdateAll})
           /\ \A i \in Fetches' : i \in Nat /\ i > 0 /\ i + 1 \in Fetches /\ queue'[i] = queue[i + 1]
           /\ Head(queue) = queue[1]
           /\ Head(queue) # UpdateAll => 1 \in Fetches
<1>1. /\ Len(queue') = Len(queue) - 1 /\ Len(queue) \in Nat /\ Len(queue) > 0
      /\ \A i \in 1 .. Len(queue) - 1 : queue'[i] = queue[i + 1]
      /\ queue' \in Seq(Action \cup {UpdateAll})
      /\ Head(queue) = queue[1]
  BY SMT
<1>. QED
  BY SMT, <1>1 DEF Fetches

\* The candidate task takes an update, or the fetch of the query in progress.
LEMMA Taken ==
    ASSUME IInv, CandidateTask
    PROVE  \/ Head(queue) = UpdateAll /\ UpdateCache
           \/ /\ Head(queue) = [product |-> handle.product, ver |-> handle.ver]
              /\ Fetch(Head(queue))
              /\ 1 \in Fetches /\ handle # None /\ ~ sending
<1>1. queue \in Seq(Action \cup {UpdateAll}) /\ queue # <<>> /\ queue' = Tail(queue)
  BY DEF IInv, CallInv, CandidateTask, QueueReceive
<1>2. Head(queue) = UpdateAll \/ (1 \in Fetches /\ Head(queue) = queue[1])
  BY <1>1, FetchesTail
<1>. QED
  BY <1>2 DEF IInv, CallInv, CandidateTask, QueueReceive

\* The query in progress is passed on from place to place.
LEMMA CallPreserved == IInv /\ [Next]_vars => CallInv'
<1>. SUFFICES ASSUME IInv, [Next]_vars PROVE CallInv'
  OBVIOUS
<1>0. CallInv
  BY DEF IInv
<1>1. ASSUME UNCHANGED <<queue, handle, peer, sending>>, orphaned' \in BOOLEAN,
             task' = None \/ task # None
      PROVE  CallInv'
  BY <1>0, <1>1 DEF CallInv, NeverBothWait, Fetches
<1>2. ASSUME NEW q \in Query, HandleQueryImage(q)
      PROVE  CallInv'
  <2>1. CASE handle # None \/ backend = "noqueue"
    <3>1. CASE handle # None
      BY <1>0, <1>1, <1>2, <3>1 DEF HandleQueryImage, candVars, CallInv
    <3>2. CASE handle = None /\ backend = "noqueue"
      <4>1. q.node \in Node
        BY ProviderAssumption
      <4>2. UNCHANGED <<queue, task, handle, sending>> /\ peer' = q.node /\ orphaned' = FALSE
        BY <1>2, <3>2 DEF HandleQueryImage, candVars
      <4>3. Fetches' = Fetches
        BY <4>2 DEF Fetches
      <4>. QED
        BY <1>0, <3>2, <4>1, <4>2, <4>3 DEF CallInv, NeverBothWait
    <3>. QED
      BY <2>1, <3>1, <3>2
  <2>2. CASE handle = None /\ backend = "ok"
    <3>1. q.node \in Node
      BY ProviderAssumption
    <3>2. /\ UNCHANGED <<queue, task>> /\ handle' = q /\ peer' = q.node
          /\ sending' = TRUE /\ orphaned' = FALSE
      BY <1>2, <2>2 DEF HandleQueryImage, candVars
    <3>3. Fetches' = Fetches /\ q # None
      BY <3>2, ProviderAssumption DEF Fetches
    <3>. QED
      BY <1>0, <2>2, <3>1, <3>2, <3>3 DEF CallInv, NeverBothWait
  <2>. QED
    BY <1>2, <2>1, <2>2 DEF HandleQueryImage
<1>3. CASE FetchOtaCandidate
  <2>. DEFINE a == [product |-> handle.product, ver |-> handle.ver]
  <2>1. handle \in Query /\ handle # None /\ task = None /\ Fetches = {}
    BY <1>0, <1>3 DEF FetchOtaCandidate, CallInv, NeverBothWait
  <2>2. a \in Action /\ a # UpdateAll
    <3>1. handle.product \in Product /\ handle.ver \in Nat
      BY <2>1, ProviderAssumption
    <3>. QED
      BY SMT, <3>1, CandidatesAssumption DEF Action
  <2>3. queue' = Append(queue, a) /\ UNCHANGED <<task, handle, peer, orphaned>> /\ sending' = FALSE
    BY <1>3 DEF FetchOtaCandidate, QueueSend
  <2>. HIDE DEF a
  <2>4. /\ queue' \in Seq(Action \cup {UpdateAll})
        /\ Fetches' = {Len(queue) + 1} /\ queue'[Len(queue) + 1] = a
    BY <1>0, <2>1, <2>2, <2>3, FetchesAppend DEF CallInv
  <2>. QED
    BY <1>0, <2>1, <2>3, <2>4 DEF CallInv, NeverBothWait, a
<1>4. CASE CandidateTask
  <2>1. /\ task = None /\ queue \in Seq(Action \cup {UpdateAll})
        /\ queue # <<>> /\ queue' = Tail(queue)
        /\ UNCHANGED <<handle, peer, sending, orphaned>>
    BY <1>0, <1>4 DEF CandidateTask, QueueReceive, provVars, CallInv
  <2>2. /\ queue' \in Seq(Action \cup {UpdateAll})
        /\ \A i \in Fetches' : i \in Nat /\ i > 0 /\ i + 1 \in Fetches /\ queue'[i] = queue[i + 1]
    BY <2>1, FetchesTail
  <2>3. CASE UpdateCache
    <3>1. task' = None
      BY <2>3 DEF UpdateCache
    <3>2. \A i, j \in Fetches' : i = j
      <4>. SUFFICES ASSUME NEW i \in Fetches', NEW j \in Fetches' PROVE i = j
        OBVIOUS
      <4>1. i \in Nat /\ j \in Nat /\ i + 1 = j + 1
        BY <1>0, <2>2 DEF CallInv
      <4>. QED
        BY SMT, <4>1
    <3>. QED
      BY <1>0, <2>1, <2>2, <3>1, <3>2 DEF CallInv, NeverBothWait
  <2>4. CASE 1 \in Fetches /\ handle # None /\ ~ sending
    <3>1. Fetches' = {}
      <4>. SUFFICES ASSUME NEW i \in Fetches' PROVE FALSE
        OBVIOUS
      <4>1. i \in Nat /\ i > 0 /\ i + 1 = 1
        BY <1>0, <2>2, <2>4 DEF CallInv
      <4>. QED
        BY SMT, <4>1
    <3>. QED
      BY <1>0, <2>1, <2>2, <2>4, <3>1 DEF CallInv, NeverBothWait
  <2>. QED
    BY <1>4, <2>3, <2>4, Taken
<1>5. CASE UpdateTimer
  <2>1. queue' = Append(queue, UpdateAll) /\ UNCHANGED <<task, handle, peer, sending, orphaned>>
    BY <1>5 DEF UpdateTimer, PeriodicUpdate, QueueSend, provVars
  <2>2. /\ queue' \in Seq(Action \cup {UpdateAll})
        /\ Fetches' = Fetches /\ \A i \in Fetches : queue'[i] = queue[i]
    BY <1>0, <2>1, FetchesAppend DEF CallInv
  <2>. QED
    BY <1>0, <2>1, <2>2 DEF CallInv, NeverBothWait
<1>6. CASE SendNotAvailable \/ SendBusy \/ SendUpdateAvailable \/ SendFailure
  <2>1. /\ task # None /\ ~ sending /\ handle' = None /\ task' = None
        /\ UNCHANGED <<queue, peer, sending, orphaned>>
    BY <1>6 DEF SendNotAvailable, SendBusy, SendUpdateAvailable, SendFailure, MaySend
  <2>. QED
    BY <1>0, <2>1 DEF CallInv, NeverBothWait, Fetches
<1>7. CASE Crash
  <2>1. /\ queue' = <<>> /\ task' = None /\ handle' = None /\ peer' = None
        /\ sending' = FALSE /\ orphaned' = FALSE
    BY <1>7 DEF Crash
  <2>2. queue' \in Seq(Action \cup {UpdateAll}) /\ Fetches' = {}
    BY SMT, <2>1 DEF Fetches
  <2>. QED
    BY <2>1, <2>2 DEF CallInv, NeverBothWait
<1>8. CASE FindEntry \/ WriteEntry
  BY <1>0, <1>1, <1>8 DEF FindEntry, WriteEntry, provVars, CallInv
<1>9. CASE Transfer
  BY <1>0, <1>1, <1>9 DEF Transfer, candVars, provVars, CallInv
<1>10. ASSUME NEW n \in Node, HandleNotifyUpdateApplied(n)
       PROVE  CallInv'
  BY <1>0, <1>1, <1>10 DEF HandleNotifyUpdateApplied, candVars, CallInv
<1>11. ASSUME NEW n \in Managed, RemoveOtaRequestorEntry(n)
       PROVE  CallInv'
  BY <1>0, <1>1, <1>11 DEF RemoveOtaRequestorEntry, candVars, CallInv
<1>12. ASSUME NEW scope, NEW once \in BOOLEAN, EnableOtaForNode(scope, once) \/ DisableOtaForNode(scope)
       PROVE  CallInv'
  BY <1>0, <1>1, <1>12 DEF EnableOtaForNode, DisableOtaForNode, candVars, CallInv
<1>13. CASE UNCHANGED vars
  BY <1>0, <1>1, <1>13 DEF vars, candVars, provVars, CallInv
<1>. QED
  BY <1>2, <1>3, <1>4, <1>5, <1>6, <1>7, <1>8, <1>9, <1>10, <1>11, <1>12, <1>13 DEF Next, Send

\* What is found fits the query, which stays the same until it is answered.
LEMMA FoundPreserved == IInv /\ [Next]_vars => FoundInv'
<1>. SUFFICES ASSUME IInv, [Next]_vars PROVE FoundInv'
  OBVIOUS
<1>0. FoundInv /\ (handle = None => task = None)
  BY DEF IInv, CallInv
<1>1. ASSUME task' = task, handle' = handle \/ task = None
      PROVE  FoundInv'
  BY <1>0, <1>1 DEF FoundInv, Sound, IsCandidateValid
<1>2. CASE task' = None
  BY <1>2 DEF FoundInv
<1>3. CASE CandidateTask
  <2>1. CASE UpdateCache
    BY <1>2, <2>1 DEF UpdateCache
  <2>2. CASE /\ Head(queue) = [product |-> handle.product, ver |-> handle.ver]
             /\ Fetch(Head(queue)) /\ handle # None
    <3>. DEFINE p == handle.product
                v == handle.ver
    <3>0. p \in Product /\ handle' = handle
      BY <1>3, <2>2, ProviderAssumption DEF IInv, CallInv, CandidateTask, provVars
    <3>1. \/ \E i \in Hits(p) : /\ IsCandidateValid(cache[i], v)
                                /\ task' = [step |-> "fill", found |-> cache[i]]
          \/ \E r \in Dcl[p] : /\ IsCandidateValid(r, v)
                               /\ task' = [step |-> "fill", found |-> AsCandidate(p, r, 0)]
          \/ task' = [step |-> "fill", found |-> None]
      <4>. DEFINE a == Head(queue)
      <4>1. a.product = p /\ a.ver = v /\ Fetch(a)
        BY SMT, <2>2
      <4>. HIDE DEF a, p, v
      <4>. QED
        BY <4>1 DEF Fetch
    <3>2. ASSUME NEW i \in Hits(p), IsCandidateValid(cache[i], v),
                 task' = [step |-> "fill", found |-> cache[i]]
          PROVE  FoundInv'
      <4>1. Sound(cache[i]) /\ cache[i].product = p
        BY DEF Hits, Filled, IInv, CacheInv, GoodCache
      <4>. QED
        BY <3>0, <3>2, <4>1 DEF FoundInv, Sound, IsCandidateValid
    <3>3. ASSUME NEW r \in Dcl[p], IsCandidateValid(r, v),
                 task' = [step |-> "fill", found |-> AsCandidate(p, r, 0)]
          PROVE  FoundInv'
      <4>. DEFINE c == AsCandidate(p, r, 0)
      <4>1. /\ Sound(c) /\ c.product = p
            /\ c.ver = r.ver /\ c.min = r.min /\ c.max = r.max
        <5>. HIDE DEF p
        <5>1. 0 \in Nat
          OBVIOUS
        <5>. QED
          BY <3>0, <3>3, <5>1, AsCandidateSound
      <4>. HIDE DEF c
      <4>2. IsCandidateValid(c, v)
        BY <3>3, <4>1 DEF IsCandidateValid
      <4>3. task' = [step |-> "fill", found |-> c]
        BY <3>3 DEF c
      <4>. QED
        BY <3>0, <4>1, <4>2, <4>3 DEF FoundInv, Sound, IsCandidateValid
    <3>4. CASE task' = [step |-> "fill", found |-> None]
      BY <3>4 DEF FoundInv
    <3>. QED
      BY <3>1, <3>2, <3>3, <3>4
  <2>. QED
    BY <1>3, <2>1, <2>2, Taken
<1>4. ASSUME NEW step, task # None, handle' = handle, task' = [step |-> step, found |-> task.found]
      PROVE  FoundInv'
  <2>1. task'.step = step /\ task'.found = task.found
    BY <1>4
  <2>. QED
    BY <1>0, <1>4, <2>1 DEF FoundInv, Sound, IsCandidateValid
<1>4a. CASE FindEntry \/ WriteEntry
  BY <1>4, <1>4a DEF FindEntry, WriteEntry, provVars
<1>5. CASE Send
  BY <1>2, <1>5 DEF Send, SendNotAvailable, SendBusy, SendUpdateAvailable, SendFailure, Crash
<1>6. ASSUME NEW q \in Query, HandleQueryImage(q)
      PROVE  FoundInv'
  BY <1>0, <1>1, <1>6 DEF HandleQueryImage, candVars
<1>7. CASE FetchOtaCandidate \/ UpdateTimer \/ Transfer
  BY <1>1, <1>7 DEF FetchOtaCandidate, UpdateTimer, PeriodicUpdate, Transfer, candVars, provVars
<1>8. ASSUME NEW n, HandleNotifyUpdateApplied(n) \/ RemoveOtaRequestorEntry(n)
      PROVE  FoundInv'
  BY <1>1, <1>4, <1>8 DEF HandleNotifyUpdateApplied, RemoveOtaRequestorEntry, candVars
<1>9. ASSUME NEW scope, NEW once, EnableOtaForNode(scope, once) \/ DisableOtaForNode(scope)
      PROVE  FoundInv'
  BY <1>1, <1>9 DEF EnableOtaForNode, DisableOtaForNode, candVars
<1>10. CASE UNCHANGED vars
  BY <1>1, <1>10 DEF vars, candVars, provVars
<1>. QED
  BY <1>3, <1>4a, <1>5, <1>6, <1>7, <1>8, <1>9, <1>10 DEF Next

\* An image that was found has a place on the server.
LEMMA FoundUrl ==
    ASSUME NEW c, Sound(c)
    PROVE  <<c.product, c.ver>> \in Url
<1>1. PICK r \in Dcl[c.product] : r.ver = c.ver
  BY DEF Sound
<1>2. c.product \in Product
  BY DEF Sound, Candidate
<1>. QED
  BY <1>1, <1>2, ProviderAssumption

\* The entry of the peer is filled in and stays so until it is removed.
LEMMA EntryPreserved == IInv /\ [Next]_vars => EntryInv'
<1>. SUFFICES ASSUME IInv, [Next]_vars PROVE EntryInv'
  OBVIOUS
<1>0. /\ EntryInv /\ (handle = None => task = None) /\ (handle # None => peer \in Node)
      /\ handle # None => peer = handle.node
  BY ProviderAssumption DEF IInv, CallInv
<1>1. ASSUME UNCHANGED <<entries, peer, orphaned>>, handle' \in {handle, None},
             task' = task \/ task' = None \/ task'.step = "fill"
      PROVE  EntryInv'
  BY <1>0, <1>1 DEF EntryInv
<1>2. ASSUME NEW q \in Query, HandleQueryImage(q)
      PROVE  EntryInv'
  <2>1. q.node \in Node
    BY ProviderAssumption
  <2>2. entries' = Created(q.node) /\ task' = task
    BY <1>2 DEF HandleQueryImage, candVars
  <2>3. /\ DOMAIN entries' = DOMAIN entries \cup {q.node}
        /\ \A n \in DOMAIN entries : entries'[n] = entries[n]
        /\ q.node \notin DOMAIN entries => entries'[q.node].img = NoUrl
        /\ \A n \in DOMAIN entries' : entries'[n] \in Entry
    BY <1>0, <2>1, <2>2, ProviderAssumption DEF Created, EntryInv, Entry
  <2>4. entries' \in [DOMAIN entries' -> Entry] /\ DOMAIN entries' \subseteq Node
    <3>1. entries' = [n \in DOMAIN entries' |-> entries'[n]]
      BY <2>2 DEF Created
    <3>. QED
      BY <1>0, <2>1, <2>3, <3>1 DEF EntryInv
  <2>5. CASE handle # None
    <3>1. UNCHANGED <<handle, peer, orphaned>>
      BY <1>2, <2>5 DEF HandleQueryImage
    <3>2. CASE peer \in DOMAIN entries
      BY <1>0, <2>2, <2>3, <2>4, <2>5, <3>1, <3>2 DEF EntryInv
    <3>3. CASE peer \notin DOMAIN entries
      <4>1. orphaned /\ (peer \in DOMAIN entries' => peer = q.node)
        BY <1>0, <2>3, <2>5, <3>3 DEF EntryInv
      <4>. QED
        BY <1>0, <2>2, <2>3, <2>4, <3>1, <3>3, <4>1 DEF EntryInv
    <3>. QED
      BY <3>2, <3>3
  <2>6. CASE handle = None
    <3>1. task' = None /\ peer' = q.node /\ orphaned' = FALSE
      BY <1>0, <1>2, <2>2, <2>6 DEF HandleQueryImage
    <3>. QED
      BY <2>3, <2>4, <3>1 DEF EntryInv
  <2>. QED
    BY <2>5, <2>6
<1>3. CASE CandidateTask
  <2>1. UNCHANGED <<entries, peer, orphaned, handle>>
    BY <1>3 DEF CandidateTask, provVars
  <2>2. task' = None \/ task'.step = "fill"
    BY SMT, <1>3 DEF CandidateTask, QueueReceive, UpdateCache, Fetch
  <2>. QED
    BY <1>1, <2>1, <2>2
<1>4. CASE FindEntry
  <2>1. /\ UNCHANGED <<entries, handle, peer, orphaned>> /\ task # None
        /\ task'.found = task.found
        /\ \/ task'.step = "write" /\ peer \in DOMAIN entries /\ task.found # None
           \/ task'.step = "send" /\ ~ (peer \in DOMAIN entries /\ task.found # None)
    BY <1>4 DEF FindEntry, provVars
  <2>. QED
    BY <1>0, <2>1 DEF EntryInv
<1>4a. CASE WriteEntry
  <2>. DEFINE u == <<task.found.product, task.found.ver>>
  <2>1. /\ UNCHANGED <<handle, peer, orphaned>> /\ task # None /\ task.step \in {"write", "stray"}
        /\ task'.step = "send" /\ task'.found = task.found
    BY <1>4a DEF WriteEntry
  <2>2. task.found # None /\ u \in Url
    BY <1>0, <2>1, FoundUrl DEF IInv, EntryInv, FoundInv
  <2>3. ASSUME NEW n \in DOMAIN entries, entries' = FilledIn(n)
        PROVE  /\ DOMAIN entries' = DOMAIN entries /\ entries' \in [DOMAIN entries -> Entry]
               /\ entries'[n].img = u
               /\ \A m \in DOMAIN entries : m # n => entries'[m] = entries[m]
    <3>1. entries' = [entries EXCEPT ![n].img = u]
      BY <2>3 DEF FilledIn
    <3>. HIDE DEF u
    <3>2. entries[n] \in Entry
      BY <1>0 DEF EntryInv
    <3>. QED
      BY <1>0, <2>2, <3>1, <3>2 DEF EntryInv, Entry
  <2>4. u = <<task'.found.product, task'.found.ver>>
    BY <2>1
  <2>. HIDE DEF u
  <2>5. CASE task.step = "write" /\ entries' = FilledIn(peer)
    <3>1. peer \in DOMAIN entries
      BY <1>0, <2>1, <2>5 DEF EntryInv
    <3>2. /\ DOMAIN entries' = DOMAIN entries /\ entries' \in [DOMAIN entries -> Entry]
          /\ entries'[peer].img = u
      BY <2>3, <2>5, <3>1
    <3>. QED
      BY <1>0, <2>1, <2>4, <3>1, <3>2 DEF EntryInv
  <2>6. CASE task.step = "stray" /\ entries' = entries
    BY <1>0, <2>1, <2>6 DEF EntryInv
  <2>7. ASSUME task.step = "stray", NEW n \in DOMAIN entries, entries' = FilledIn(n)
        PROVE  EntryInv'
    <3>1. /\ DOMAIN entries' = DOMAIN entries /\ entries' \in [DOMAIN entries -> Entry]
          /\ entries'[n].img = u
          /\ \A m \in DOMAIN entries : m # n => entries'[m] = entries[m]
      BY <2>3, <2>7
    <3>2. orphaned /\ (peer \in DOMAIN entries => entries[peer].img = NoUrl)
      BY <1>0, <2>1, <2>7 DEF EntryInv
    <3>3. peer \in DOMAIN entries => entries'[peer].img = u \/ entries'[peer].img = NoUrl
      BY <3>1, <3>2
    <3>. QED
      BY <1>0, <2>1, <2>4, <3>1, <3>2, <3>3 DEF EntryInv
  <2>. QED
    BY <1>4a, <2>5, <2>6, <2>7 DEF WriteEntry
<1>5. CASE SendNotAvailable \/ SendBusy \/ SendUpdateAvailable \/ SendFailure
  BY <1>1, <1>5 DEF SendNotAvailable, SendBusy, SendUpdateAvailable, SendFailure
<1>6. CASE Crash
  <2>1. handle' = None /\ task' = None /\ entries' = [n \in {} |-> n]
    BY <1>6 DEF Crash
  <2>2. DOMAIN entries' = {} /\ entries' \in [{} -> Entry]
    BY <2>1
  <2>. QED
    BY <2>1, <2>2 DEF EntryInv
<1>7. CASE FetchOtaCandidate \/ UpdateTimer \/ Transfer
  BY <1>1, <1>7 DEF FetchOtaCandidate, UpdateTimer, PeriodicUpdate, Transfer, candVars, provVars
<1>8. ASSUME UNCHANGED <<handle, peer, task, orphaned>>, DOMAIN entries' = DOMAIN entries,
             entries' \in [DOMAIN entries -> Entry],
             \A n \in DOMAIN entries : entries'[n].img = entries[n].img
      PROVE  EntryInv'
  BY <1>0, <1>8 DEF EntryInv
<1>9. ASSUME NEW n \in Node, HandleNotifyUpdateApplied(n)
      PROVE  EntryInv'
  <2>1. /\ n \in DOMAIN entries /\ entries' = [entries EXCEPT ![n].once = FALSE]
        /\ UNCHANGED <<handle, peer, task, orphaned>>
    BY <1>9 DEF HandleNotifyUpdateApplied, candVars
  <2>2. entries[n] \in Entry
    BY <1>0, <2>1 DEF EntryInv
  <2>3. /\ DOMAIN entries' = DOMAIN entries /\ entries' \in [DOMAIN entries -> Entry]
        /\ \A m \in DOMAIN entries : entries'[m].img = entries[m].img
    BY <1>0, <2>1, <2>2 DEF EntryInv, Entry
  <2>. QED
    BY <1>8, <2>1, <2>3
<1>10. ASSUME NEW n \in Managed, RemoveOtaRequestorEntry(n)
       PROVE  EntryInv'
  <2>1. /\ entries' = [m \in DOMAIN entries \ {n} |-> entries[m]]
        /\ orphaned' = (orphaned \/ (handle # None /\ peer = n))
        /\ UNCHANGED <<handle, peer>>
        /\ IF task # None /\ task.step = "write" /\ peer = n
           THEN task'.step = "stray" /\ task'.found = task.found ELSE task' = task
    BY <1>10 DEF RemoveOtaRequestorEntry
  <2>2. DOMAIN entries' = DOMAIN entries \ {n} /\ \A m \in DOMAIN entries' : entries'[m] = entries[m]
    BY <2>1
  <2>3. entries' \in [DOMAIN entries' -> Entry] /\ DOMAIN entries' \subseteq Node
    BY <1>0, <2>1, <2>2 DEF EntryInv
  <2>4. CASE task # None /\ task.step = "write" /\ peer = n
    BY <1>0, <2>1, <2>2, <2>3, <2>4 DEF EntryInv
  <2>5. CASE ~ (task # None /\ task.step = "write" /\ peer = n)
    BY <1>0, <2>1, <2>2, <2>3, <2>5 DEF EntryInv
  <2>. QED
    BY <2>4, <2>5
<1>11. ASSUME NEW scope, NEW once \in BOOLEAN, EnableOtaForNode(scope, once) \/ DisableOtaForNode(scope)
       PROVE  EntryInv'
  <2>1. UNCHANGED <<handle, peer, task, orphaned>>
    BY <1>11 DEF EnableOtaForNode, DisableOtaForNode, candVars
  <2>2. /\ DOMAIN entries' = DOMAIN entries /\ entries' \in [DOMAIN entries -> Entry]
        /\ \A n \in DOMAIN entries : entries'[n].img = entries[n].img
    <3>0. \A n \in DOMAIN entries : entries[n] \in Entry
      BY <1>0 DEF EntryInv
    <3>1. CASE EnableOtaForNode(scope, once)
      <4>. DEFINE a(n) == entries[n].allowed \/ ~ once
                  o(n) == entries[n].once \/ once
      <4>1. \A n : a(n) \in BOOLEAN /\ o(n) \in BOOLEAN
        BY Zenon
      <4>2. entries' = [n \in DOMAIN entries |->
                          IF n \in scope THEN [allowed |-> a(n), once |-> o(n), img |-> entries[n].img]
                          ELSE entries[n]]
        BY <3>1 DEF EnableOtaForNode
      <4>. HIDE DEF a, o
      <4>. QED
        BY <3>0, <4>1, <4>2 DEF Entry
    <3>2. CASE DisableOtaForNode(scope)
      BY <3>0, <3>2 DEF DisableOtaForNode, Entry
    <3>. QED
      BY <1>11, <3>1, <3>2
  <2>. QED
    BY <1>8, <2>1, <2>2
<1>12. CASE UNCHANGED vars
  BY <1>1, <1>12 DEF vars, candVars, provVars
<1>. QED
  BY <1>2, <1>3, <1>4, <1>4a, <1>5, <1>6, <1>7, <1>9, <1>10, <1>11, <1>12 DEF Next, Send

\* The version that SendQueryImageResponse reads from the entry fits the query.
LEMMA OfferOfQuery ==
    ASSUME IInv, SendUpdateAvailable
    PROVE  /\ \E r \in Dcl[handle.product] :
                  r.ver = entries[peer].img[2] /\ IsCandidateValid(r, handle.ver)
           /\ entries[peer].img = <<handle.product, entries[peer].img[2]>>
           /\ peer = handle.node
<1>. DEFINE c == task.found
<1>1. /\ task # None /\ task.step = "send" /\ c # None
      /\ peer \in DOMAIN entries /\ entries[peer].img # NoUrl
  BY DEF SendUpdateAvailable, MaySend, MayOffer
<1>2. Sound(c) /\ c.product = handle.product /\ IsCandidateValid(c, handle.ver)
  BY <1>1 DEF IInv, FoundInv
<1>3. entries[peer].img = <<c.product, c.ver>>
  BY <1>1 DEF IInv, EntryInv
<1>6. peer = handle.node
  BY <1>1 DEF IInv, CallInv
<1>. HIDE DEF c
<1>4. PICK r \in Dcl[c.product] : r.ver = c.ver /\ r.min = c.min /\ r.max = c.max
  BY <1>2 DEF Sound
<1>5. IsCandidateValid(r, handle.ver) /\ r.ver = entries[peer].img[2]
  BY SMT, <1>2, <1>3, <1>4 DEF IsCandidateValid
<1>7. entries[peer].img = <<handle.product, entries[peer].img[2]>>
  BY SMT, <1>2, <1>3
<1>. QED
  BY <1>2, <1>4, <1>5, <1>6, <1>7

\* The sender keeps its owner, its image and its connection together; a node
\* that asks again gets the sender afresh, with the image of the new offer.
LEMMA SlotPreserved == IInv /\ [Next]_vars => SlotInv'
<1>. SUFFICES ASSUME IInv, [Next]_vars PROVE SlotInv'
  OBVIOUS
<1>0. SlotInv
  BY DEF IInv
<1>1. ASSUME UNCHANGED bdxVars, held' \in [Node -> Url \cup {NoUrl}], offered' = offered
      PROVE  SlotInv'
  BY <1>0, <1>1 DEF SlotInv, SlotConsistent, DownloadIsOffer, IsCandidateValid, bdxVars
<1>1a. held \in [Node -> Url \cup {NoUrl}]
  BY <1>0 DEF SlotInv
<1>2. ASSUME Reset, held' \in [Node -> Url \cup {NoUrl}]
      PROVE  SlotInv'
  BY <1>2 DEF SlotInv, SlotConsistent, DownloadIsOffer, Reset, Clear
<1>3. CASE Transfer
  <2>1. held' = held /\ offered' = offered
    BY <1>3 DEF Transfer, provVars
  <2>2. CASE InitReceived
    <3>1. /\ UNCHANGED <<initialized, bdxNode, url, size, sent>> /\ session # "none"
          /\ \/ session' = "active" /\ http' = TRUE
             \/ session' = "aborted" /\ http' = FALSE
             \/ session' = "stalled" /\ http' = http
      BY <2>2 DEF InitReceived
    <3>. QED
      BY <1>0, <2>1, <3>1 DEF SlotInv, SlotConsistent, DownloadIsOffer, IsCandidateValid
  <2>3. ASSUME NEW r, QueryReceived(r) \/ QueryFails
        PROVE  SlotInv'
    <3>1. /\ UNCHANGED <<initialized, bdxNode, url, http>> /\ session = "active"
          /\ session' \in {"aborted", "eof", "active"}
      BY <2>3 DEF QueryReceived, QueryFails
    <3>. QED
      BY <1>0, <2>1, <3>1 DEF SlotInv, SlotConsistent, DownloadIsOffer, IsCandidateValid
  <2>4. CASE EndTransfer
    BY <1>0, <1>2, <2>1, <2>4 DEF EndTransfer, SlotInv
  <2>. QED
    BY <1>3, <2>2, <2>3, <2>4 DEF Transfer, BdxNext
<1>4. CASE SendUpdateAvailable \/ SendFailure
  <2>. DEFINE u == entries[peer].img
  <2>1. /\ peer \in DOMAIN entries /\ u # NoUrl
        /\ initialized' = TRUE /\ bdxNode' = peer /\ url' = u
        /\ \/ session' = "none" /\ held' = held
           \/ /\ session' = "waiting" /\ \E token \in {u, NoUrl} : held' = [held EXCEPT ![peer] = token]
              /\ SendUpdateAvailable /\ offered' = Answer(handle, "available", u[2])
    BY <1>4 DEF SendUpdateAvailable, SendFailure, MayOffer, InitializeTransfer
  <2>2. peer \in Node /\ peer # NoNode /\ u \in Url
    BY <2>1, BdxAssumption DEF IInv, EntryInv, Entry
  <2>2a. SendUpdateAvailable =>
           /\ \E r \in Dcl[handle.product] : r.ver = u[2] /\ IsCandidateValid(r, handle.ver)
           /\ u = <<handle.product, u[2]>> /\ peer = handle.node /\ handle # None
    BY OfferOfQuery DEF SendUpdateAvailable, MaySend, IInv, CallInv
  <2>. HIDE DEF u
  <2>3. held' \in [Node -> Url \cup {NoUrl}]
    BY <1>0, <2>1, <2>2 DEF SlotInv
  <2>4. SlotConsistent'
    BY <2>1, <2>2 DEF SlotConsistent
  <2>5. DownloadIsOffer'
    <3>1. CASE session' = "none"
      BY <3>1 DEF DownloadIsOffer
    <3>2. CASE SendUpdateAvailable /\ offered' = Answer(handle, "available", u[2])
      <4>1. /\ offered'.query = handle /\ offered'.offer = u[2]
        BY <3>2 DEF Answer
      <4>. QED
        BY <2>1, <2>2a, <3>2, <4>1 DEF DownloadIsOffer, IsCandidateValid
    <3>. QED
      BY <2>1, <3>1, <3>2
  <2>. QED
    BY <2>1, <2>2, <2>3, <2>4, <2>5 DEF SlotInv
<1>5. CASE Crash
  BY <1>2, <1>5 DEF Crash
<1>6. ASSUME NEW n \in Managed, RemoveOtaRequestorEntry(n)
      PROVE  SlotInv'
  <2>1. UNCHANGED bdxVars /\ held' = [held EXCEPT ![n] = NoUrl] /\ offered' = offered
    BY <1>6 DEF RemoveOtaRequestorEntry
  <2>2. held' \in [Node -> Url \cup {NoUrl}]
    BY <1>1a, <2>1
  <2>. QED
    BY <1>1, <2>1, <2>2
<1>7. ASSUME NEW q, HandleQueryImage(q)
      PROVE  SlotInv'
  BY <1>1, <1>1a, <1>7 DEF HandleQueryImage
<1>8. CASE FetchOtaCandidate \/ UpdateTimer \/ CandidateTask \/ FindEntry \/ WriteEntry \/ SendNotAvailable
           \/ SendBusy
  BY <1>1, <1>1a, <1>8 DEF FetchOtaCandidate, UpdateTimer, CandidateTask, FindEntry, WriteEntry,
     SendNotAvailable, SendBusy, provVars
<1>9. ASSUME NEW n, HandleNotifyUpdateApplied(n)
      PROVE  SlotInv'
  BY <1>1, <1>1a, <1>9 DEF HandleNotifyUpdateApplied
<1>10. ASSUME NEW scope, NEW once, EnableOtaForNode(scope, once) \/ DisableOtaForNode(scope)
       PROVE  SlotInv'
  BY <1>1, <1>1a, <1>10 DEF EnableOtaForNode, DisableOtaForNode
<1>11. CASE UNCHANGED vars
  BY <1>1, <1>1a, <1>11 DEF vars, provVars
<1>. QED
  BY <1>3, <1>4, <1>5, <1>6, <1>7, <1>8, <1>9, <1>10, <1>11 DEF Next, Send

\* An answer with an offer is given from the entry and for the query at hand.
LEMMA OfferPreserved == IInv /\ [Next]_vars => OfferFits'
<1>. SUFFICES ASSUME IInv, [Next]_vars PROVE OfferFits'
  OBVIOUS
<1>1. CASE answer' = None
  BY <1>1 DEF OfferFits
<1>2. ASSUME NEW q, NEW s, s # "available", answer' = Answer(q, s, None)
      PROVE  OfferFits'
  BY <1>2 DEF OfferFits, Answer
<1>3. CASE SendUpdateAvailable
  <2>1. answer' = Answer(handle, "available", entries[peer].img[2])
    BY <1>3 DEF SendUpdateAvailable
  <2>2. answer'.query = handle /\ answer'.offer = entries[peer].img[2]
    BY <2>1 DEF Answer
  <2>3. \E r \in Dcl[handle.product] :
           r.ver = entries[peer].img[2] /\ IsCandidateValid(r, handle.ver)
    BY <1>3, OfferOfQuery
  <2>. QED
    BY <2>2, <2>3 DEF OfferFits, IsCandidateValid
<1>4. CASE SendNotAvailable \/ SendBusy \/ SendFailure \/ Crash
  BY <1>1, <1>2, <1>4 DEF SendNotAvailable, SendBusy, SendFailure, Crash
<1>5. ASSUME NEW q, HandleQueryImage(q)
      PROVE  OfferFits'
  BY <1>1, <1>2, <1>5 DEF HandleQueryImage
<1>6. CASE FetchOtaCandidate \/ UpdateTimer \/ CandidateTask \/ FindEntry \/ WriteEntry \/ Transfer
  BY <1>1, <1>6 DEF FetchOtaCandidate, UpdateTimer, CandidateTask, FindEntry, WriteEntry, Transfer
<1>7. ASSUME NEW n, HandleNotifyUpdateApplied(n) \/ RemoveOtaRequestorEntry(n)
      PROVE  OfferFits'
  BY <1>1, <1>7 DEF HandleNotifyUpdateApplied, RemoveOtaRequestorEntry
<1>8. ASSUME NEW scope, NEW once, EnableOtaForNode(scope, once) \/ DisableOtaForNode(scope)
      PROVE  OfferFits'
  BY <1>1, <1>8 DEF EnableOtaForNode, DisableOtaForNode
<1>9. CASE UNCHANGED vars
  BY <1>9 DEF vars, IInv, OfferFits, IsCandidateValid
<1>. QED
  BY <1>3, <1>4, <1>5, <1>6, <1>7, <1>8, <1>9 DEF Next, Send

-----------------------------------------------------------------------------
(* The theorems *)

LEMMA InitInv == Init => IInv
<1>. SUFFICES ASSUME Init PROVE IInv
  OBVIOUS
<1>. USE DEF Init, CandInit, BdxInit, ProvInit
<1>1. CacheInv
  BY DEF CacheInv, GoodCache
<1>2. CallInv
  <2>1. queue \in Seq(Action \cup {UpdateAll}) /\ Fetches = {}
    BY SMT DEF Fetches
  <2>. QED
    BY <2>1 DEF CallInv, NeverBothWait
<1>3. FoundInv /\ OfferFits
  BY DEF FoundInv, OfferFits
<1>4. EntryInv
  <2>1. DOMAIN entries = {} /\ entries \in [{} -> Entry]
    OBVIOUS
  <2>. QED
    BY <2>1 DEF EntryInv
<1>5. SlotInv
  BY DEF SlotInv, SlotConsistent, DownloadIsOffer
<1>. QED
  BY <1>1, <1>2, <1>3, <1>4, <1>5 DEF IInv

LEMMA Invariant == Spec => []IInv
<1>1. IInv /\ [Next]_vars => IInv'
  BY CachePreserved, CallPreserved, FoundPreserved, EntryPreserved, SlotPreserved, OfferPreserved DEF IInv
<1>. QED
  BY <1>1, InitInv, PTL DEF Spec

\* The Matter task in xQueueSend (esp_matter_ota_candidates.cpp:433) and the
\* candidate task at LockChipStack never wait for each other, whatever the
\* length of the queue.
THEOREM NoDeadlock == Spec => []NeverBothWait
<1>1. IInv => NeverBothWait
  BY DEF IInv, CallInv
<1>. QED
  BY <1>1, Invariant, PTL

\* SendQueryImageResponse offers only what the ledger holds for the product of
\* the query and what applies to its version.
THEOREM OffersFit == Spec => []OfferFits
<1>1. IInv => OfferFits
  BY DEF IInv
<1>. QED
  BY <1>1, Invariant, PTL

\* FetchImageDoneCallback finds and writes the entry without the lock, and what
\* SendQueryImageResponse reads from it is what was written for its query, or
\* nothing if the entry was removed meanwhile.
THEOREM EntriesFilled == Spec => []FilledBeforeOffered
<1>1. IInv => FilledBeforeOffered
  BY DEF IInv, EntryInv, FilledBeforeOffered, MayOffer
<1>. QED
  BY <1>1, Invariant, PTL

\* The cache has one record of a product at most, after any number of fetches,
\* expiries, evictions and periodic updates.
THEOREM CacheUnique == Spec => []OneRecordPerProduct
<1>1. IInv => OneRecordPerProduct
  BY DEF IInv, CacheInv, GoodCache, OneRecordPerProduct, Filled
<1>. QED
  BY <1>1, Invariant, PTL

\* The BDX sender has an owner, an image and a connection when it needs them and
\* nothing left of the last transfer when it has no owner; what it sends is the
\* image its owner was offered last, whether or not the offer arrived, and this
\* image applies to the version the owner asked with.
THEOREM SenderConsistent == Spec => [](SlotConsistent /\ DownloadIsOffer)
<1>1. IInv => SlotConsistent /\ DownloadIsOffer
  BY DEF IInv, SlotInv
<1>. QED
  BY <1>1, Invariant, PTL

-----------------------------------------------------------------------------
(* The provider implements its service *)

\* Every step is one the service allows, or one it does not see.
LEMMA StepImplements == IInv /\ [Next]_vars => [Service!Next]_(Service!serviceVars)
<1>. SUFFICES ASSUME IInv, [Next]_vars
              PROVE  Service!Next \/ UNCHANGED Service!serviceVars
  OBVIOUS
<1>. DEFINE slot == IF initialized THEN bdxNode ELSE None
<1>1. ASSUME UNCHANGED <<handle, initialized, bdxNode>>, answer' = None
      PROVE  Service!Next
  BY <1>1 DEF Service!Next, Service!Internal
<1>2. ASSUME NEW q \in Query, HandleQueryImage(q)
      PROVE  Service!Next
  <2>1. UNCHANGED <<initialized, bdxNode>>
    BY <1>2 DEF HandleQueryImage, bdxVars
  <2>2. CASE handle # None
    <3>1. Service!Refuse(q)
      BY <1>2, <2>1, <2>2 DEF HandleQueryImage, Service!Refuse, Service!Answer, Answer
    <3>. QED
      BY <3>1 DEF Service!Next
  <2>3. CASE handle = None /\ backend = "ok"
    <3>1. Service!Accept(q)
      BY <1>2, <2>1, <2>3 DEF HandleQueryImage, Service!Accept
    <3>. QED
      BY <3>1 DEF Service!Next
  <2>4. CASE handle = None /\ backend = "noqueue"
    <3>1. Service!DeclineAtOnce(q)
      BY <1>2, <2>1, <2>4 DEF HandleQueryImage, Service!DeclineAtOnce, Service!Answer, Answer
    <3>. QED
      BY <3>1 DEF Service!Next
  <2>. QED
    BY <1>2, <2>2, <2>3, <2>4 DEF HandleQueryImage
<1>3. ASSUME task # None, peer \in DOMAIN entries
      PROVE  /\ handle # None /\ peer = handle.node /\ peer \in Node
             /\ TakenFrom(peer) => slot \notin {None, handle.node}
             /\ ~ TakenFrom(peer) => slot \in {None, handle.node}
  <2>1. handle # None /\ peer = handle.node /\ peer \in Node
    BY <1>3 DEF IInv, CallInv, EntryInv
  <2>2. initialized => bdxNode \in Node /\ bdxNode # None
    BY ProviderAssumption DEF IInv, SlotInv, SlotConsistent
  <2>. QED
    BY <2>1, <2>2 DEF TakenFrom
<1>4. CASE SendNotAvailable
  <2>1. /\ task # None /\ answer' = Answer(handle, "none", None) /\ handle' = None
        /\ UNCHANGED <<initialized, bdxNode>>
    BY <1>4 DEF SendNotAvailable, MaySend, bdxVars
  <2>2. handle # None
    BY <2>1 DEF IInv, CallInv
  <2>3. Service!Decline
    BY <2>1, <2>2 DEF Service!Decline, Service!Answer, Answer
  <2>. QED
    BY <2>3 DEF Service!Next
<1>5. CASE SendBusy
  <2>1. /\ task # None /\ peer \in DOMAIN entries /\ TakenFrom(peer)
        /\ answer' = Answer(handle, "busy", None) /\ handle' = None
        /\ UNCHANGED <<initialized, bdxNode>>
    BY <1>5 DEF SendBusy, MaySend, MayOffer, bdxVars
  <2>2. handle # None /\ slot \notin {None, handle.node}
    BY <1>3, <2>1
  <2>3. Service!Decline
    BY <2>1, <2>2 DEF Service!Decline, Service!Answer, Answer
  <2>. QED
    BY <2>3 DEF Service!Next
<1>6. CASE SendFailure
  <2>1. /\ task # None /\ peer \in DOMAIN entries /\ ~ TakenFrom(peer)
        /\ answer' = Answer(handle, "failure", None) /\ handle' = None
        /\ initialized' = TRUE /\ bdxNode' = peer
    BY <1>6 DEF SendFailure, MaySend, MayOffer, InitializeTransfer
  <2>2. handle # None /\ peer = handle.node /\ slot \in {None, handle.node}
    BY <1>3, <2>1
  <2>3. Service!Decline
    BY <2>1, <2>2 DEF Service!Decline, Service!Answer, Answer
  <2>. QED
    BY <2>3 DEF Service!Next
<1>7. CASE SendUpdateAvailable
  <2>1. /\ task # None /\ peer \in DOMAIN entries /\ ~ TakenFrom(peer) /\ handle' = None
        /\ answer' = Answer(handle, "available", entries[peer].img[2])
        /\ initialized' = TRUE /\ bdxNode' = peer
    BY <1>7 DEF SendUpdateAvailable, MaySend, MayOffer, InitializeTransfer
  <2>2. handle # None /\ peer = handle.node /\ slot \in {None, handle.node}
    BY <1>3, <2>1
  <2>3. PICK r \in Dcl[handle.product] :
           r.ver = entries[peer].img[2] /\ IsCandidateValid(r, handle.ver)
    BY <1>7, OfferOfQuery
  <2>4. r \in ModelVersion /\ handle.ver \in Nat
    <3>1. handle.product \in Product /\ handle.ver \in Nat
      BY <2>2, ProviderAssumption DEF IInv, CallInv
    <3>. QED
      BY <3>1, CandidatesAssumption
  <2>5. r \in Service!Fitting(handle.product, handle.ver)
    BY <2>3, <2>4 DEF Service!Fitting, IsCandidateValid, ModelVersion
  <2>6. Service!Offer
    BY <2>1, <2>2, <2>3, <2>5 DEF Service!Offer, Service!Answer, Answer
  <2>. QED
    BY <2>6 DEF Service!Next
<1>8. CASE Crash
  <2>1. handle' = None /\ initialized' = FALSE /\ answer' = None
    BY <1>8 DEF Crash, Reset
  <2>2. Service!Restart
    BY <2>1 DEF Service!Restart
  <2>. QED
    BY <2>2 DEF Service!Next
<1>9. CASE Transfer
  <2>1. handle' = handle /\ answer' = None
    BY <1>9 DEF Transfer, provVars
  <2>2. CASE UNCHANGED <<initialized, bdxNode>>
    BY <1>1, <2>1, <2>2
  <2>3. CASE EndTransfer
    <3>1. initialized /\ bdxNode # None /\ initialized' = FALSE
      BY <2>3, ProviderAssumption DEF EndTransfer, Reset, IInv, SlotInv, SlotConsistent
    <3>2. Service!Release
      BY <2>1, <3>1 DEF Service!Release
    <3>. QED
      BY <3>2 DEF Service!Next
  <2>. QED
    BY <1>9, <2>2, <2>3 DEF Transfer, BdxNext, InitReceived, QueryReceived, QueryFails
<1>10. CASE FetchOtaCandidate \/ UpdateTimer \/ CandidateTask \/ FindEntry \/ WriteEntry
  BY <1>1, <1>10 DEF FetchOtaCandidate, UpdateTimer, CandidateTask, FindEntry, WriteEntry, provVars, bdxVars
<1>11. ASSUME NEW n, HandleNotifyUpdateApplied(n) \/ RemoveOtaRequestorEntry(n)
       PROVE  Service!Next
  BY <1>1, <1>11 DEF HandleNotifyUpdateApplied, RemoveOtaRequestorEntry, bdxVars
<1>12. ASSUME NEW scope, NEW once, EnableOtaForNode(scope, once) \/ DisableOtaForNode(scope)
       PROVE  Service!Next
  BY <1>1, <1>12 DEF EnableOtaForNode, DisableOtaForNode, bdxVars
<1>13. CASE UNCHANGED vars
  BY <1>13 DEF vars, provVars, bdxVars, Service!serviceVars
<1>. QED
  BY <1>2, <1>4, <1>5, <1>6, <1>7, <1>8, <1>9, <1>10, <1>11, <1>12, <1>13 DEF Next, Send

\* The provider with its two tasks, its queue, its cache and its connection is,
\* for its requestors, OtaService: one query at a time, an answer to each query
\* in turn, offers that fit, one download at a time.  (That every query is
\* answered in the end is checked by TLC.)
THEOREM ProviderImplements == Spec => Service!Spec
<1>1. Init => Service!Init
  BY DEF Init, CandInit, BdxInit, ProvInit, Service!Init
<1>. QED
  BY <1>1, StepImplements, Invariant, PTL DEF Spec, Service!Spec

-----------------------------------------------------------------------------
(* The image that is sent *)

\* While the connection gives what it is asked for, what was read, what was sent
\* and what the node has received keep pace.
ImageInv ==
    /\ size \in {0, ImageLen} /\ sent \in Nat /\ pos \in Nat
    /\ size = 0 => sent = 0
    /\ session = "waiting" => size = 0
    /\ session \in {"active", "eof"} =>
          /\ got \in Seq(Unit)
          /\ Len(got) = sent /\ pos = sent
          /\ \A i \in 1 .. Len(got) : got[i] = <<url, i>>
    /\ session = "active" => sent < ImageLen
    /\ session = "eof" => sent = ImageLen

LEMMA SeqOf ==
    ASSUME NEW S, NEW n \in Nat, NEW f \in [1 .. n -> S]
    PROVE  f \in Seq(S) /\ Len(f) = n
BY SMT

\* What the receiver has after a block: the old units, then those of the block.
LEMMA ConcatElements ==
    ASSUME NEW S, NEW s \in Seq(S), NEW t \in Seq(S)
    PROVE  /\ s \o t \in Seq(S)
           /\ Len(s \o t) = Len(s) + Len(t)
           /\ \A i \in 1 .. Len(s) : (s \o t)[i] = s[i]
           /\ \A i \in 1 .. Len(t) : (s \o t)[Len(s) + i] = t[i]
<1>. DEFINE u == s \o t
<1>1. Len(s) \in Nat /\ Len(t) \in Nat
  BY SMT
<1>2. /\ u \in Seq(S) /\ Len(u) = Len(s) + Len(t)
      /\ \A i \in 1 .. Len(s) + Len(t) : u[i] = IF i <= Len(s) THEN s[i] ELSE t[i - Len(s)]
  BY SMT
<1>. HIDE DEF u
<1>3. ASSUME NEW i \in 1 .. Len(s)
      PROVE  u[i] = s[i]
  BY SMT, <1>1, <1>2
<1>4. ASSUME NEW i \in 1 .. Len(t)
      PROVE  u[Len(s) + i] = t[i]
  <2>1. /\ Len(s) + i \in 1 .. Len(s) + Len(t)
        /\ ~ (Len(s) + i <= Len(s)) /\ (Len(s) + i) - Len(s) = i
    BY SMT, <1>1
  <2>. QED
    BY <1>2, <2>1
<1>. QED
  BY <1>2, <1>3, <1>4 DEF u

\* A block that fits whole is sent whole.
LEMMA WholeSubSeq ==
    ASSUME NEW S, NEW s \in Seq(S)
    PROVE  SubSeq(s, 1, Len(s)) = s
BY SMT

\* A read that gives the units asked for fills the buffer with the next units of
\* the image.
LEMMA WholeRead ==
    ASSUME NEW want \in Nat, want > 0, url \in Url, pos \in Nat
    PROVE  /\ Total(<<want>>) = want
           /\ Buffer(<<want>>) \in Seq(Unit) /\ Len(Buffer(<<want>>)) = want
           /\ \A i \in 1 .. want : Buffer(<<want>>)[i] = <<url, pos + i>>
<1>. DEFINE r == <<want>>
<1>1. Len(r) = 1 /\ r[1] = want /\ r # <<>>
  OBVIOUS
<1>2. Total(r) = want
  BY <1>1 DEF Total
<1>. HIDE DEF r
<1>3. Buffer(r) = [i \in 1 .. want |-> CASE i <= want -> <<url, pos + i>>
                                        [] i > want /\ i <= r[1] -> <<url, pos + i>>
                                        [] OTHER -> Junk]
  BY SMT, <1>1, <1>2 DEF Buffer
<1>4. ASSUME NEW i \in 1 .. want
      PROVE  Buffer(r)[i] = <<url, pos + i>> /\ Buffer(r)[i] \in Unit
  BY SMT, <1>3 DEF Unit
<1>5. Buffer(r) = [i \in 1 .. want |-> <<url, pos + i>>]
  BY <1>3, <1>4
<1>6. Buffer(r) \in [1 .. want -> Unit]
  BY <1>4, <1>5
<1>7. Buffer(r) \in Seq(Unit) /\ Len(Buffer(r)) = want
  BY <1>6, SeqOf
<1>. QED
  BY <1>2, <1>4, <1>7 DEF r

\* One block.
LEMMA BlockPreserved ==
    ASSUME HttpFaults = FALSE, IInv, ImageInv, session = "active",
           NEW r \in Reads, QueryReceived(r)
    PROVE  ImageInv'
<1>. DEFINE want == Smaller(BlockLen, ImageLen - pos)
            buf == Buffer(r)
            total == IF size = 0 /\ sent = 0 THEN ImageLen ELSE size
            length == Smaller(Len(buf), total - sent)
<1>1. /\ ImageLen \in Nat /\ BlockLen \in Nat /\ BlockLen > 0
      /\ sent \in Nat /\ pos = sent /\ sent < ImageLen /\ url \in Url
      /\ got \in Seq(Unit) /\ Len(got) = sent
  BY BdxAssumption DEF IInv, SlotInv, SlotConsistent, ImageInv
<1>2. r = <<want>>
  BY DEF Reads
<1>3. want \in Nat /\ want > 0 /\ want <= BlockLen /\ sent + want <= ImageLen
      /\ (want < BlockLen => sent + want = ImageLen)
  BY SMT, <1>1 DEF Smaller
<1>. HIDE DEF want
<1>4. /\ Total(r) = want /\ buf \in Seq(Unit) /\ Len(buf) = want
      /\ \A i \in 1 .. want : buf[i] = <<url, sent + i>>
  BY <1>1, <1>2, <1>3, WholeRead
<1>5. CASE size = 0 /\ sent = 0 /\ ~ HeaderOK(buf) /\ session' = "aborted"
           /\ UNCHANGED <<size, sent, got>>
  <2>1. pos' = pos + want
    BY <1>4 DEF QueryReceived
  <2>2. pos' \in Nat
    BY SMT, <1>1, <1>3, <2>1
  <2>. HIDE DEF buf, total, length
  <2>. QED
    BY <1>5, <2>2 DEF ImageInv
<1>6. CASE /\ size' = total /\ sent' = sent + length
           /\ got' = got \o SubSeq(buf, 1, length)
           /\ session' = IF length < BlockLen \/ sent + length = total THEN "eof" ELSE "active"
  <2>1. total = ImageLen
    BY <1>1 DEF ImageInv
  <2>2. length = want
    BY SMT, <1>1, <1>3, <1>4, <2>1 DEF Smaller
  <2>3. SubSeq(buf, 1, want) = buf
    <3>. HIDE DEF buf
    <3>. QED
      BY <1>4, WholeSubSeq
  <2>4. got' = got \o buf /\ sent' = sent + want /\ pos' = sent + want /\ url' = url
    <3>1. pos' = pos + Total(r) /\ url' = url
      BY DEF QueryReceived
    <3>. HIDE DEF buf, total, length
    <3>. QED
      BY <1>1, <1>4, <1>6, <2>2, <2>3, <3>1
  <2>. HIDE DEF buf, total, length
  <2>5. /\ got' \in Seq(Unit) /\ Len(got') = sent + want
        /\ \A i \in 1 .. sent : got'[i] = got[i]
        /\ \A i \in 1 .. want : got'[sent + i] = buf[i]
    <3>. DEFINE g == got \o buf
    <3>1. /\ g \in Seq(Unit) /\ Len(g) = Len(got) + Len(buf)
          /\ \A i \in 1 .. Len(got) : g[i] = got[i]
          /\ \A i \in 1 .. Len(buf) : g[Len(got) + i] = buf[i]
      <4>1. got \in Seq(Unit) /\ buf \in Seq(Unit)
        BY <1>1, <1>4
      <4>. QED
        BY <4>1, ConcatElements, SMTT(30)
    <3>2. got' = g
      BY <2>4
    <3>. HIDE DEF g
    <3>. QED
      BY <1>1, <1>4, <3>1, <3>2
  <2>6. ASSUME NEW i \in 1 .. sent + want
        PROVE  got'[i] = <<url, i>>
    <3>1. CASE i <= sent
      <4>1. i \in 1 .. sent
        BY SMT, <1>1, <3>1
      <4>2. got[i] = <<url, i>>
        BY <1>1, <4>1 DEF ImageInv
      <4>. QED
        BY <2>5, <4>1, <4>2
    <3>2. CASE i > sent
      <4>. DEFINE j == i - sent
      <4>1. j \in 1 .. want /\ sent + j = i
        BY SMT, <1>1, <1>3, <3>2
      <4>. HIDE DEF j
      <4>. QED
        BY <1>4, <2>5, <4>1
    <3>. QED
      BY SMT, <1>1, <1>3, <3>1, <3>2
  <2>7. /\ session' = IF want < BlockLen \/ sent + want = ImageLen THEN "eof" ELSE "active"
        /\ size' = ImageLen /\ ImageLen # 0
    BY SMT, <1>1, <1>6, <2>1, <2>2
  <2>8. /\ size' \in {0, ImageLen} /\ sent' \in Nat /\ pos' \in Nat
        /\ size' = 0 => sent' = 0
        /\ Len(got') = sent' /\ pos' = sent'
    <3>1. sent + want \in Nat /\ Len(got') = sent + want
      BY SMT, <1>1, <1>3, <2>5
    <3>2. ImageLen # 0
      BY <2>7
    <3>. QED
      BY <2>4, <2>7, <3>1, <3>2
  <2>9. \A i \in 1 .. Len(got') : got'[i] = <<url', i>>
    BY <2>4, <2>5, <2>6
  <2>10. /\ session' = "active" => sent' < ImageLen
         /\ session' = "eof" => sent' = ImageLen
         /\ session' # "waiting"
    BY SMT, <1>1, <1>3, <2>4, <2>7
  <2>. QED
    BY <2>5, <2>8, <2>9, <2>10 DEF ImageInv
<1>7. CASE size' = total /\ sent' = sent + length /\ session' = "aborted"
  <2>1. total = ImageLen
    BY <1>1 DEF ImageInv
  <2>2. length = want
    BY SMT, <1>1, <1>3, <1>4, <2>1 DEF Smaller
  <2>3. size' = ImageLen /\ sent' = sent + want /\ pos' = pos + want
    <3>1. pos' = pos + Total(r)
      BY DEF QueryReceived
    <3>. HIDE DEF buf, total, length
    <3>. QED
      BY <1>4, <1>7, <2>1, <2>2, <3>1
  <2>. HIDE DEF buf, total, length
  <2>4. sent' \in Nat /\ pos' \in Nat /\ ImageLen # 0
    BY SMT, <1>1, <1>3, <2>3
  <2>. QED
    BY <1>7, <2>3, <2>4 DEF ImageInv
<1>. QED
  BY <1>5, <1>6, <1>7 DEF QueryReceived

\* Every other step leaves the download alone, restarts it or ends it.
LEMMA ImagePreserved ==
    ASSUME HttpFaults = FALSE, IInv, ImageInv, [Next]_vars
    PROVE  ImageInv'
<1>0. ImageLen \in Nat /\ ImageLen > 1
  BY BdxAssumption
<1>1. ASSUME UNCHANGED bdxVars
      PROVE  ImageInv'
  BY <1>1 DEF ImageInv, bdxVars
<1>2. CASE Reset
  BY <1>2 DEF ImageInv, Reset, Clear
<1>3. CASE Transfer
  <2>1. CASE InitReceived
    <3>1. /\ size = 0 /\ sent = 0 /\ UNCHANGED <<size, sent, url>>
          /\ pos' = 0 /\ got' = <<>> /\ session' \in {"active", "aborted", "stalled"}
      BY <2>1 DEF InitReceived, ImageInv
    <3>2. got' \in Seq(Unit) /\ Len(got') = 0
      BY SMT, <3>1
    <3>. QED
      BY SMT, <1>0, <3>1, <3>2 DEF ImageInv
  <2>2. CASE EndTransfer
    BY <1>2, <2>2 DEF EndTransfer
  <2>3. ASSUME NEW r \in Reads, session = "active", QueryReceived(r)
        PROVE  ImageInv'
    BY <2>3, BlockPreserved
  <2>4. CASE QueryFails
    BY <2>4 DEF QueryFails, ImageInv
  <2>. QED
    BY <1>3, <2>1, <2>2, <2>3, <2>4 DEF Transfer, BdxNext
<1>4. CASE SendUpdateAvailable \/ SendFailure
  <2>1. /\ session' \in {"waiting", "none"}
        /\ \/ size' = 0 /\ sent' = 0 /\ pos' = 0
           \/ ~ initialized /\ UNCHANGED <<size, sent, pos>>
    <3>1. CASE SendUpdateAvailable
      BY <3>1 DEF SendUpdateAvailable, InitializeTransfer, Clear
    <3>2. CASE SendFailure
      BY <3>2 DEF SendFailure, InitializeTransfer, Clear
    <3>. QED
      BY <1>4, <3>1, <3>2
  <2>2. ~ initialized => size = 0 /\ sent = 0
    BY DEF IInv, SlotInv, SlotConsistent
  <2>3. size' = 0 /\ sent' = 0 /\ pos' \in Nat
    BY SMT, <2>1, <2>2 DEF ImageInv
  <2>. QED
    BY <2>1, <2>3 DEF ImageInv
<1>5. CASE Crash
  BY <1>2, <1>5 DEF Crash
<1>6. ASSUME NEW q, HandleQueryImage(q)
      PROVE  ImageInv'
  BY <1>1, <1>6 DEF HandleQueryImage
<1>7. CASE FetchOtaCandidate \/ UpdateTimer \/ CandidateTask \/ FindEntry \/ WriteEntry \/ SendNotAvailable
           \/ SendBusy
  BY <1>1, <1>7 DEF FetchOtaCandidate, UpdateTimer, CandidateTask, FindEntry, WriteEntry, SendNotAvailable,
     SendBusy
<1>8. ASSUME NEW n, HandleNotifyUpdateApplied(n) \/ RemoveOtaRequestorEntry(n)
      PROVE  ImageInv'
  BY <1>1, <1>8 DEF HandleNotifyUpdateApplied, RemoveOtaRequestorEntry
<1>9. ASSUME NEW scope, NEW once, EnableOtaForNode(scope, once) \/ DisableOtaForNode(scope)
      PROVE  ImageInv'
  BY <1>1, <1>9 DEF EnableOtaForNode, DisableOtaForNode
<1>10. CASE UNCHANGED vars
  BY <1>1, <1>10 DEF vars
<1>. QED
  BY <1>3, <1>4, <1>5, <1>6, <1>7, <1>8, <1>9, <1>10 DEF Next, Send

\* While every read returns what it was asked for, the node receives the image
\* it was offered, block by block, for every size of image and block.  (With
\* short reads, HttpFaults, it does not.)
THEOREM ImageIsSent ==
    ASSUME HttpFaults = FALSE
    PROVE  Spec => []BlocksAreImage
<1>1. Init => ImageInv
  BY SMT, BdxAssumption DEF Init, BdxInit, ImageInv
<1>2. IInv /\ ImageInv /\ [Next]_vars => ImageInv'
  BY ImagePreserved
<1>3. IInv /\ ImageInv => BlocksAreImage
  <2>. SUFFICES ASSUME IInv, ImageInv, session \in {"active", "eof"}
                PROVE  /\ \A i \in DOMAIN got : got[i] = Image(url)[i]
                       /\ session = "eof" => Len(got) = ImageLen
    BY DEF BlocksAreImage
  <2>1. DOMAIN got = 1 .. Len(got) /\ Len(got) = sent /\ sent \in Nat /\ sent <= ImageLen
    BY SMT, BdxAssumption DEF ImageInv
  <2>2. \A i \in 1 .. ImageLen : Image(url)[i] = <<url, i>>
    BY DEF Image
  <2>. QED
    <3>1. ImageLen \in Nat
      BY BdxAssumption
    <3>2. \A i \in 1 .. Len(got) : got[i] = <<url, i>>
      BY DEF ImageInv
    <3>4. \A i \in 1 .. Len(got) : i \in 1 .. ImageLen
      BY SMT, <2>1, <3>1
    <3>3. session = "eof" => Len(got) = ImageLen
      BY DEF ImageInv
    <3>. QED
      BY <2>1, <2>2, <3>2, <3>3, <3>4
<1>. QED
  BY <1>1, <1>2, <1>3, Invariant, PTL DEF Spec

=============================================================================
