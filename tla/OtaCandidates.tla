--------------------------- MODULE OtaCandidates ---------------------------
(***************************************************************************)
(* The candidate task of the OTA provider (esp_matter_ota_candidates.cpp). *)
(*                                                                         *)
(* The Matter task and a periodic timer put actions into a FreeRTOS queue; *)
(* the candidate task takes them out one at a time.  A fetch looks the     *)
(* product up in a cache of DCL records and asks the DCL (Distributed      *)
(* Compliance Ledger, over HTTP) if the cache has no record that applies;  *)
(* the result is passed to the callback of the action.  The periodic       *)
(* action brings the cached records up to date.  Only this task uses the   *)
(* cache.                                                                  *)
(***************************************************************************)
EXTENDS Naturals, Sequences

CONSTANTS
    Product,         \* vendor and product ids
    Dcl,             \* product |-> the valid model versions the ledger holds
    MaxCandidates,   \* CONFIG_ESP_MATTER_MAX_OTA_CANDIDATES_COUNT
    QueueLen,        \* length of _ota_candidate_task_queue (8)
    MaxLife,         \* bound of the model: no candidate gets older than this
    UpdateAll,       \* the action with vendor id kMaxVendorId
    None             \* nullptr

\* A version of the ledger: the software version and the versions it applies to.
ModelVersion == [ver : Nat, min : Nat, max : Nat]

\* oldest_candidate_lifetime of _find_empty_ota_candidates is a uint8_t: the
\* model stays where this makes no difference.
ASSUME CandidatesAssumption ==
    /\ \A p \in Product : Dcl[p] \subseteq ModelVersion
    /\ MaxCandidates \in Nat \ {0}
    /\ QueueLen \in Nat \ {0}
    /\ MaxLife \in 0 .. 255
    /\ UpdateAll \notin [product : Product, ver : Nat]

VARIABLES
    cache,           \* _ota_candidates_cache
    queue,           \* _ota_candidate_task_queue
    task             \* None, or what the task is about to tell the callback

candVars == <<cache, queue, task>>

Slots == 1 .. MaxCandidates

Action == [product : Product, ver : Nat]

Candidate == [product : Product, ver : Nat, min : Nat, max : Nat, life : Nat]

\* The record of version r of product p, as _query_ota_candidate fills it in.
AsCandidate(p, r, life) ==
    [product |-> p, ver |-> r.ver, min |-> r.min, max |-> r.max, life |-> life]

Filled == {i \in Slots : cache[i] # None}

CandInit ==
    /\ cache = [i \in Slots |-> None]
    /\ queue = <<>>
    /\ task = None

-----------------------------------------------------------------------------

\* _is_ota_candidate_valid, and the same test in _query_ota_candidate.
IsCandidateValid(r, cur) == r.ver > cur /\ r.max >= cur /\ r.min <= cur

\* The record of the product, where _search_ota_candidate_from_cache stops.
Hits(p) == {i \in Filled : cache[i].product = p /\ \A j \in Filled : cache[j].product = p => i <= j}

\* What is left of the cache after the search: a record that does not apply to
\* the version is expired.
Searched(p, cur) ==
    [i \in Slots |-> IF i \in Hits(p) /\ ~IsCandidateValid(cache[i], cur) THEN None ELSE cache[i]]

\* _find_empty_ota_candidates: the first empty slot, or the slot of the first of
\* the oldest candidates, which is expired.
FindEmpty(c) ==
    IF \E i \in Slots : c[i] = None
    THEN CHOOSE i \in Slots : c[i] = None /\ \A j \in Slots : c[j] = None => i <= j
    ELSE CHOOSE i \in Slots : \A j \in Slots : c[j].life < c[i].life \/ (c[j].life = c[i].life /\ i <= j)

\* _increase_ota_candidates_lifetime, and the new candidate put into its slot.
Inserted(c, p, r) ==
    LET slot == FindEmpty(c)
    IN [i \in Slots |->
           CASE i = slot -> AsCandidate(p, r, 0)
             [] i # slot /\ c[i] = None -> None
             [] OTHER -> [c[i] EXCEPT !.life = @ + 1]]

\* xQueueSend waits while the queue is full.
QueueSend(a) ==
    /\ Len(queue) < QueueLen
    /\ queue' = Append(queue, a)

\* _ota_candidates_periodic_update_handler, on the timer task.
PeriodicUpdate ==
    /\ QueueSend(UpdateAll)
    /\ UNCHANGED <<cache, task>>

\* Mutant: the record is taken from the cache for its product alone.
Fetch_AnyVersion(a) ==
    \/ \E i \in Hits(a.product) :
          /\ task' = [step |-> "fill", found |-> cache[i]]
          /\ cache' = cache
    \/ /\ Hits(a.product) = {}
       /\ \E r \in {d \in Dcl[a.product] : IsCandidateValid(d, a.ver)} :
             /\ \A i \in Filled : cache[i].life < MaxLife
             /\ cache' = Inserted(cache, a.product, r)
             /\ task' = [step |-> "fill", found |-> AsCandidate(a.product, r, 0)]
    \/ /\ Hits(a.product) = {}
       /\ cache' = cache
       /\ task' = [step |-> "fill", found |-> None]

\* Mutant: a record that does not apply stays in the cache.
Fetch_NoExpiry(a) ==
    \/ \E i \in Hits(a.product) :
          /\ IsCandidateValid(cache[i], a.ver)
          /\ task' = [step |-> "fill", found |-> cache[i]]
          /\ cache' = cache
    \/ /\ \A i \in Hits(a.product) : ~IsCandidateValid(cache[i], a.ver)
       /\ \E r \in {d \in Dcl[a.product] : IsCandidateValid(d, a.ver)} :
             /\ \A i \in Filled : cache[i].life < MaxLife
             /\ cache' = Inserted(cache, a.product, r)
             /\ task' = [step |-> "fill", found |-> AsCandidate(a.product, r, 0)]
    \/ /\ \A i \in Hits(a.product) : ~IsCandidateValid(cache[i], a.ver)
       /\ cache' = cache
       /\ task' = [step |-> "fill", found |-> None]

\* _ota_candidate_fetch_handler up to its callback: a hit in the cache; or the
\* newest applicable version the ledger gives out, which can be any of them as
\* each request may fail; or nothing.
Fetch(a) ==
    LET expired == Searched(a.product, a.ver)
    IN \/ \E i \in Hits(a.product) :
             /\ IsCandidateValid(cache[i], a.ver)
             /\ task' = [step |-> "fill", found |-> cache[i]]
             /\ cache' = cache
       \/ /\ \A i \in Hits(a.product) : ~IsCandidateValid(cache[i], a.ver)
          /\ \E r \in {d \in Dcl[a.product] : IsCandidateValid(d, a.ver)} :
                /\ \A i \in Filled : cache[i].life < MaxLife
                /\ cache' = Inserted(expired, a.product, r)
                /\ task' = [step |-> "fill", found |-> AsCandidate(a.product, r, 0)]
       \/ /\ \A i \in Hits(a.product) : ~IsCandidateValid(cache[i], a.ver)
          /\ cache' = expired
          /\ task' = [step |-> "fill", found |-> None]

\* _update_all_ota_candidates_cache: each record may be replaced, in its place,
\* by a newer version that applies to the version of the record.
UpdateCache ==
    /\ \E newer \in [Slots -> UNION {Dcl[p] : p \in Product} \cup {None}] :
          /\ \A i \in Slots : newer[i] # None => i \in Filled /\ newer[i] \in Dcl[cache[i].product]
                                                 /\ IsCandidateValid(newer[i], cache[i].ver)
          /\ cache' = [i \in Slots |-> IF newer[i] = None THEN cache[i]
                                       ELSE AsCandidate(cache[i].product, newer[i], cache[i].life)]
    /\ task' = None

\* ota_candidate_task: the next action of the queue.
QueueReceive ==
    /\ task = None
    /\ queue # <<>>
    /\ queue' = Tail(queue)
    /\ IF Head(queue) = UpdateAll THEN UpdateCache ELSE Fetch(Head(queue))

-----------------------------------------------------------------------------

\* Type invariant.
CandTypeOK ==
    /\ cache \in [Slots -> Candidate \cup {None}]
    /\ queue \in Seq(Action \cup {UpdateAll}) /\ Len(queue) <= QueueLen
    /\ task # None => /\ task.step \in {"fill", "write", "stray", "send"}
                      /\ task.found \in Candidate \cup {None}

\* The cache holds one record of a product at most: a record that the search
\* passes over could be offered after it has been superseded.
OneRecordPerProduct ==
    \A i, j \in Filled : cache[i].product = cache[j].product => i = j

=============================================================================
