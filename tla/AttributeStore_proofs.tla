------------------------ MODULE AttributeStore_proofs ------------------------
(***************************************************************************)
(* Proofs about the attributes: their types, that a path has one object,   *)
(* that bounds hold, that what was stored comes back, and that the         *)
(* hardware has the value the attribute has.                               *)
(***************************************************************************)
EXTENDS AttributeStore, TLAPS

\* The leaves are for Zenon; those that need arithmetic cite SMT.
USE Zenon

USE AttrAssumption

\* A function on an initial interval is a sequence.
LEMMA SeqOf ==
    ASSUME NEW S, NEW n \in Nat, NEW f \in [1 .. n -> S]
    PROVE  f \in Seq(S)
  BY SMT

LEMMA ElementOf ==
    ASSUME NEW S, NEW s \in Seq(S), NEW i \in 1 .. Len(s)
    PROVE  s[i] \in S
  BY SMT

\* Clamp gives a value within the bounds, and leaves one that is alone.
LEMMA ClampFacts ==
    ASSUME NEW p \in DOMAIN Bounds, NEW v \in Value(p)
    PROVE  /\ Clamp(p, v) \in Value(p)
           /\ InRange(p, Clamp(p, v))
           /\ InRange(p, v) => Clamp(p, v) = v
  BY SMT DEF Clamp, InRange, Value

\* What is read back has the type of the attribute.
LEMMA RestoredFacts ==
    ASSUME NEW p \in Path, NEW v \in Value(p), p \in Strings => v # Null,
           NEW r \in Restored(p, v)
    PROVE  /\ r.val \in Value(p) /\ r.max \in Nat
           /\ p \notin Strings => r.val = v
  <1>1. CASE p \notin Strings
    BY SMT, <1>1 DEF Restored
  <1>2. CASE p \in Strings
    <2>1. PICK s \in Garbage, m \in Garbage : r = [val |-> Padded(v, s), max |-> m]
      BY SMT, <1>2 DEF Restored
    <2>2. v \in Seq(Nat)
      BY <1>2 DEF Value
    <2>3. Len(v) \in Nat /\ \A i \in 1 .. Len(v) : v[i] \in Nat
      BY SMT, <2>2
    <2>4. PICK n \in Nat : Padded(v, s) = [i \in 1 .. n |-> IF i <= Len(v) THEN v[i] ELSE 0]
      <3>1. CASE s > Len(v)
        BY <2>3, <3>1 DEF Padded
      <3>2. CASE ~(s > Len(v))
        BY <2>3, <3>2 DEF Padded
      <3>3. QED
        BY <3>1, <3>2
    <2>5. Padded(v, s) \in [1 .. n -> Nat]
      BY SMT, <2>3, <2>4
    <2>6. Padded(v, s) \in Seq(Nat)
      BY <2>5, SeqOf
    <2>7. QED
      BY <1>2, <2>1, <2>6 DEF Value
  <1>3. QED
    BY <1>1, <1>2

-----------------------------------------------------------------------------
(* Types *)

LEMMA NvsStoreType ==
    ASSUME StoredOK(nv), NEW p \in Path, NEW v \in Value(p), NvsStore(p, v)
    PROVE  StoredOK(nv')
  <1>1. CASE p \in Strings /\ v = Null
    <2>1. nv' = Del(nv, p)
      BY <1>1 DEF NvsStore
    <2>2. DOMAIN nv' = DOMAIN nv \ {p} /\ \A x \in DOMAIN nv' : nv'[x] = nv[x]
      BY <2>1 DEF Del
    <2>3. QED
      BY <2>2 DEF StoredOK
  <1>2. CASE ~(p \in Strings /\ v = Null)
    <2>1. nv' = Put(nv, p, v)
      BY <1>2 DEF NvsStore
    <2>2. DOMAIN nv' = DOMAIN nv \cup {p} /\ nv'[p] = v /\ \A x \in DOMAIN nv : x # p => nv'[x] = nv[x]
      BY <2>1 DEF Put
    <2>3. QED
      BY <1>2, <2>2 DEF StoredOK
  <1>3. QED
    BY <1>1, <1>2

\* The calls in progress, after one more has begun.
LEMMA PushType ==
    ASSUME NEW S, NEW s \in Seq([addr : S, callbacks : BOOLEAN]), NEW a \in S, NEW cb \in BOOLEAN
    PROVE  Append([i \in DOMAIN s |-> [addr |-> s[i].addr, callbacks |-> FALSE]],
                  [addr |-> a, callbacks |-> cb]) \in Seq([addr : S, callbacks : BOOLEAN])
  <1> DEFINE F == [addr : S, callbacks : BOOLEAN]
             t == [i \in DOMAIN s |-> [addr |-> s[i].addr, callbacks |-> FALSE]]
  <1>1. DOMAIN s = 1 .. Len(s) /\ Len(s) \in Nat
    BY SMT
  <1>2. ASSUME NEW i \in 1 .. Len(s) PROVE s[i].addr \in S
    <2>1. s[i] \in F
      BY ElementOf
    <2>2. QED
      BY <2>1
  <1>3. t \in [1 .. Len(s) -> F]
    BY <1>1, <1>2
  <1>4. t \in Seq(F)
    BY <1>1, <1>3, SeqOf
  <1>5. [addr |-> a, callbacks |-> cb] \in F
    OBVIOUS
  <1> HIDE DEF F, t
  <1>6. Append(t, [addr |-> a, callbacks |-> cb]) \in Seq(F)
    BY SMT, <1>4, <1>5
  <1>7. QED
    BY <1>6 DEF F, t

\* An assignment keeps the objects, and gives one of them a value of its type.
LEMMA AssignType ==
    ASSUME AttrTypeOK, NEW a \in Live, NEW v \in Value(attrs[a].path), NEW cb \in BOOLEAN,
           Assign(a, v, cb)
    PROVE  /\ Live' = Live /\ \A b \in Live : AttrOK(attrs'[b])
           /\ \A b \in Live : attrs'[b].path = attrs[b].path /\ attrs'[b].ready = attrs[b].ready
           /\ \A b \in Live : b # a => attrs'[b] = attrs[b]
           /\ attrs'[a].val = Assigned(a, v)
           /\ stack' \in Seq([addr : Live, callbacks : BOOLEAN])
           /\ freed' = freed /\ timers' = timers
  <1>1. AttrOK(attrs[a]) /\ Assigned(a, v) \in Value(attrs[a].path)
    BY DEF AttrTypeOK, AttrOK, Assigned
  <1>2. attrs'[a] = [attrs[a] EXCEPT !.val = Assigned(a, v)]
    BY DEF Assign, Live
  <1>3. AttrOK(attrs'[a]) /\ attrs'[a].path = attrs[a].path /\ attrs'[a].ready = attrs[a].ready
    BY <1>1, <1>2 DEF AttrOK
  <1>4. Live' = Live /\ \A b \in Live : b # a => attrs'[b] = attrs[b]
    BY DEF Assign, Live
  <1>5. stack' \in Seq([addr : Live, callbacks : BOOLEAN])
    BY PushType DEF Assign, AttrTypeOK
  <1>6. attrs'[a].val = Assigned(a, v)
    BY <1>1, <1>2 DEF AttrOK
  <1>7. QED
    BY <1>3, <1>4, <1>5, <1>6 DEF Assign, AttrTypeOK

\* A caller that assigns a value, or none.
LEMMA CallType ==
    ASSUME AttrTypeOK, NEW a \in Live, NEW v \in Value(attrs[a].path),
           \/ \E cb \in BOOLEAN : Assign(a, v, cb)
           \/ UNCHANGED <<attrs, freed, timers, stack>>,
           DOMAIN driver' = Path, failed' \subseteq Path, UNCHANGED <<nvs, dangling>>
    PROVE  AttrTypeOK'
  <1>1. CASE \E cb \in BOOLEAN : Assign(a, v, cb)
    <2>1. PICK cb \in BOOLEAN : Assign(a, v, cb)
      BY <1>1
    <2>2. /\ Live' = Live /\ \A b \in Live : AttrOK(attrs'[b])
          /\ stack' \in Seq([addr : Live, callbacks : BOOLEAN])
          /\ freed' = freed /\ timers' = timers
      BY <2>1, AssignType
    <2>3. nv' = nv /\ nvOld' = nvOld /\ dangling' = dangling
      BY DEF nvs
    <2>4. QED
      BY <2>2, <2>3 DEF AttrTypeOK
  <1>2. CASE UNCHANGED <<attrs, freed, timers, stack>>
    BY <1>2 DEF AttrTypeOK, nvs, Live
  <1>3. QED
    BY <1>1, <1>2

\* The values callers pass, and what calling does apart from the assignment.
LEMMA Calls ==
    ASSUME AttrTypeOK, NEW a \in Live, NEW v \in Inputs[attrs[a].path],
           Update(a, v) \/ Report(a, v) \/ Write(a, v)
    PROVE  /\ v \in Value(attrs[a].path)
           /\ \/ /\ Accepts(a, v)
                 /\ \E cb \in BOOLEAN : Assign(a, v, cb)
              \/ UNCHANGED <<attrs, freed, timers, stack>>
           /\ DOMAIN driver' = Path /\ failed' \subseteq Path
           /\ UNCHANGED <<nvs, dangling>>
  <1>1. attrs[a].path \in Path
    BY DEF AttrTypeOK, AttrOK
  <1>2. DOMAIN driver' = Path /\ failed' \subseteq Path
    BY <1>1 DEF AttrTypeOK, Update, Report, Write
  <1>3. QED
    BY <1>1, <1>2 DEF Update, Report, Write

\* A new attribute object, and the call in progress that stores its value.
LEMMA CreateType ==
    ASSUME AttrTypeOK, NEW a \in Addr, NEW p \in Path, Create(a, p)
    PROVE  /\ Live' = Live \cup {a} /\ a \notin Live /\ p \notin LivePaths
           /\ \A b \in Live : attrs'[b] = attrs[b]
           /\ AttrOK(attrs'[a]) /\ attrs'[a].path = p /\ ~attrs'[a].ready
           /\ stack = <<>> /\ stack' \in {<<>>, <<[addr |-> a, callbacks |-> FALSE]>>}
           /\ StoredOK(nvOld')
  <1>1. \E val \in Value(p), max \in Nat : attrs' = Put(attrs, a, NewAttr(p, val, max))
    <2>1. ASSUME NEW f, StoredOK(f), p \in DOMAIN f, NEW r \in Restored(p, f[p])
          PROVE  r.val \in Value(p) /\ r.max \in Nat
      BY <2>1, RestoredFacts DEF StoredOK
    <2>2. QED
      BY <2>1 DEF Create, AttrTypeOK
  <1>2. PICK val \in Value(p), max \in Nat : attrs' = Put(attrs, a, NewAttr(p, val, max))
    BY <1>1
  <1>3. a \notin Live /\ p \notin LivePaths /\ stack = <<>>
    BY DEF Create, Idle
  <1>4. Live' = Live \cup {a} /\ attrs'[a] = NewAttr(p, val, max) /\ \A b \in Live : attrs'[b] = attrs[b]
    BY <1>2, <1>3 DEF Put, Live
  <1>5. AttrOK(attrs'[a]) /\ attrs'[a].path = p /\ ~attrs'[a].ready
    BY SMT, <1>4 DEF AttrOK, NewAttr
  <1>6. stack' \in {<<>>, <<[addr |-> a, callbacks |-> FALSE]>>}
    BY <1>3 DEF Create
  <1>7. StoredOK(nvOld')
    BY DEF Create, AttrTypeOK, StoredOK, Del
  <1>8. QED
    BY <1>3, <1>4, <1>5, <1>6, <1>7

\* The first n elements of a sequence.
LEMMA Shortened ==
    ASSUME NEW S, NEW s, NEW n \in Nat, \A i \in 1 .. n : s[i] \in S
    PROVE  /\ SubSeq(s, 1, n) \in Seq(S) /\ Len(SubSeq(s, 1, n)) = n
           /\ \A i \in 1 .. n : SubSeq(s, 1, n)[i] = s[i]
  BY SMT

\* The last call of those in progress, and the others.
LEMMA PopFacts ==
    ASSUME NEW S, NEW s \in Seq(S), s # <<>>
    PROVE  /\ Len(s) \in Nat /\ Len(s) > 0 /\ s[Len(s)] \in S
           /\ SubSeq(s, 1, Len(s) - 1) \in Seq(S)
           /\ Len(SubSeq(s, 1, Len(s) - 1)) = Len(s) - 1
           /\ \A i \in 1 .. (Len(s) - 1) : SubSeq(s, 1, Len(s) - 1)[i] = s[i]
  <1>1. Len(s) \in Nat /\ Len(s) > 0 /\ \A i \in 1 .. Len(s) : s[i] \in S
    BY SMT
  <1>2. PICK n \in Nat : n = Len(s) - 1
    BY SMT, <1>1
  <1>3. \A i \in 1 .. n : s[i] \in S
    BY SMT, <1>1, <1>2
  <1>4. /\ SubSeq(s, 1, n) \in Seq(S) /\ Len(SubSeq(s, 1, n)) = n
        /\ \A i \in 1 .. n : SubSeq(s, 1, n)[i] = s[i]
    BY SMT, <1>3, Shortened
  <1>5. QED
    BY SMT, <1>1, <1>2, <1>4

LEMMA TypeInit == Init => AttrTypeOK
  BY SMT DEF Init, AttrTypeOK, StoredOK, Live, Empty

LEMMA TypeStep == AttrTypeOK /\ [Next]_vars => AttrTypeOK'
  <1> SUFFICES ASSUME AttrTypeOK, [Next]_vars PROVE AttrTypeOK'
    OBVIOUS
  <1>1. ASSUME NEW a \in Addr, NEW p \in Path, Create(a, p) PROVE AttrTypeOK'
    <2>1. stack' \in Seq([addr : Live', callbacks : BOOLEAN])
      <3> DEFINE F == [addr : Live', callbacks : BOOLEAN]
      <3>1. [addr |-> a, callbacks |-> FALSE] \in F
        BY <1>1, CreateType
      <3>2. stack' \in {<<>>, <<[addr |-> a, callbacks |-> FALSE]>>}
        BY <1>1, CreateType
      <3> HIDE DEF F
      <3>3. ASSUME NEW e \in F PROVE <<e>> \in Seq(F)
        BY SMT
      <3>4. <<>> \in Seq(F)
        BY SMT
      <3>5. stack' \in Seq(F)
        BY <3>1, <3>2, <3>3, <3>4
      <3>6. QED
        BY <3>5 DEF F
    <2>2. freed' = Del(freed, a) /\ UNCHANGED <<timers, nv, driver, failed, dangling>>
      BY <1>1 DEF Create
    <2>3. DOMAIN freed' = DOMAIN freed \ {a} /\ \A b \in DOMAIN freed' : freed'[b] = freed[b]
      BY <2>2 DEF Del
    <2>4. QED
      BY SMT, <1>1, <2>1, <2>2, <2>3, CreateType DEF AttrTypeOK
  <1>2. ASSUME NEW a \in Addr, SetDeferred(a) PROVE AttrTypeOK'
    <2>1. a \in Live /\ AttrOK(attrs[a]) /\ attrs[a].path \in Nonvolatile
      BY <1>2 DEF SetDeferred, AttrTypeOK
    <2>2. attrs'[a] = [attrs[a] EXCEPT !.deferred = TRUE] /\ Live' = Live
          /\ \A b \in Live : b # a => attrs'[b] = attrs[b]
      BY <1>2, <2>1 DEF SetDeferred, Live
    <2>3. AttrOK(attrs'[a])
      BY <2>1, <2>2 DEF AttrOK
    <2>4. QED
      BY <1>2, <2>2, <2>3 DEF SetDeferred, AttrTypeOK, nvs
  <1>3. ASSUME NEW a \in Addr, Enable(a) PROVE AttrTypeOK'
    <2> DEFINE w == IF attrs[a].path \in DOMAIN Bounds
                    THEN Clamp(attrs[a].path, attrs[a].val) ELSE attrs[a].val
    <2>1. a \in Live /\ AttrOK(attrs[a])
      BY <1>3 DEF Enable, AttrTypeOK
    <2>2. w \in Value(attrs[a].path)
      BY <2>1, ClampFacts DEF AttrOK
    <2>3. attrs'[a] = [attrs[a] EXCEPT !.ready = TRUE, !.val = w] /\ Live' = Live
          /\ \A b \in Live : b # a => attrs'[b] = attrs[b]
      BY <1>3, <2>1 DEF Enable, Live
    <2> HIDE DEF w
    <2>4. AttrOK(attrs'[a])
      BY <2>1, <2>2, <2>3 DEF AttrOK
    <2>5. QED
      BY <1>3, <2>3, <2>4 DEF Enable, AttrTypeOK, nvs
  <1>4. ASSUME NEW a \in Addr, Destroy(a) PROVE AttrTypeOK'
    <2>1. a \in Live /\ AttrOK(attrs[a]) /\ attrs[a].path \in Path
      BY <1>4 DEF Destroy, AttrTypeOK, AttrOK
    <2>2. Live' = Live \ {a} /\ \A b \in Live' : attrs'[b] = attrs[b]
      BY <1>4 DEF Destroy, Live, Del
    <2>3. /\ DOMAIN freed' = IF a \in timers THEN DOMAIN freed \cup {a} ELSE DOMAIN freed
          /\ \A b \in DOMAIN freed' : freed'[b] \in {freed[b], attrs[a]}
          /\ \A b \in DOMAIN freed' : b # a => freed'[b] = freed[b]
          /\ a \in timers => freed'[a] = attrs[a]
          /\ a \notin timers => freed' = freed
      BY <1>4 DEF Destroy, Put
    <2>4. StoredOK(nv')
      BY <1>4 DEF Destroy, AttrTypeOK, StoredOK, Del
    <2>5. stack' \in Seq([addr : Live', callbacks : BOOLEAN])
      BY SMT, <1>4 DEF Destroy, Idle
    <2>6. DOMAIN driver' = Path /\ failed' \subseteq Path /\ dangling' \subseteq Path
      BY <1>4, <2>1 DEF Destroy, AttrTypeOK
    <2>7. QED
      BY <1>4, <2>1, <2>2, <2>3, <2>4, <2>5, <2>6 DEF Destroy, AttrTypeOK
  <1>5. ASSUME NEW a \in Addr, TimerFire(a) PROVE AttrTypeOK'
    <2>1. DOMAIN freed' = DOMAIN freed \ {a} /\ \A b \in DOMAIN freed' : freed'[b] = freed[b]
      BY <1>5 DEF TimerFire, Del
    <2>2. StoredOK(nv')
      BY <1>5, NvsStoreType DEF TimerFire, AttrTypeOK, AttrOK
    <2>3. QED
      BY <1>5, <2>1, <2>2 DEF TimerFire, AttrTypeOK, Live
  <1>6. ASSUME NEW a \in Live, NEW v \in Inputs[attrs[a].path],
               Update(a, v) \/ Report(a, v) \/ Write(a, v)
        PROVE  AttrTypeOK'
    BY <1>6, Calls, CallType
  <1>7. CASE Persist
    <2> DEFINE F == [addr : Live, callbacks : BOOLEAN]
    <2>1. stack # <<>> /\ stack \in Seq(F)
      BY <1>7 DEF Persist, Idle, AttrTypeOK
    <2> HIDE DEF F
    <2>2. stack[Len(stack)] \in F /\ SubSeq(stack, 1, Len(stack) - 1) \in Seq(F)
      BY <2>1, PopFacts
    <2> USE DEF F
    <2>3. Top \in Live /\ AttrOK(attrs[Top])
      BY <2>2 DEF Top, AttrTypeOK
    <2>4. StoredOK(nv')
      BY <1>7, <2>3, NvsStoreType DEF Persist, AttrTypeOK, AttrOK
    <2>5. stack' \in Seq([addr : Live, callbacks : BOOLEAN])
      BY <1>7, <2>2 DEF Persist
    <2>6. timers' \subseteq timers \cup {Top}
      BY <1>7 DEF Persist
    <2>7. QED
      BY <1>7, <2>3, <2>4, <2>5, <2>6 DEF Persist, AttrTypeOK, Live
  <1>8. CASE Restart
    BY SMT, <1>8 DEF Restart, AttrTypeOK, Live, Empty, nvs
  <1>9. CASE UNCHANGED vars
    BY <1>9 DEF vars, AttrTypeOK, Live
  <1>10. QED
    BY <1>1, <1>2, <1>3, <1>4, <1>5, <1>6, <1>7, <1>8, <1>9 DEF Next

\* Values keep the type of their attribute, in RAM and in NVS, and no call in
\* progress is left with an object that is gone.
THEOREM AttrTypeCorrect == Spec => []AttrTypeOK
  BY TypeInit, TypeStep, PTL DEF Spec

-----------------------------------------------------------------------------
(* One object per path, and bounds *)

LEMMA OneObjectStep ==
    AttrTypeOK /\ OneObjectPerPath /\ [Next]_vars => OneObjectPerPath'
  <1> SUFFICES ASSUME AttrTypeOK, OneObjectPerPath, [Next]_vars PROVE OneObjectPerPath'
    OBVIOUS
  <1>1. ASSUME NEW a \in Addr, NEW p \in Path, Create(a, p) PROVE OneObjectPerPath'
    <2>1. /\ Live' = Live \cup {a} /\ a \notin Live /\ p \notin LivePaths
          /\ \A b \in Live : attrs'[b] = attrs[b]
          /\ attrs'[a].path = p
      BY <1>1, CreateType
    <2>2. \A b \in Live : attrs[b].path # p
      BY <2>1 DEF LivePaths
    <2>3. QED
      BY SMT, <2>1, <2>2 DEF OneObjectPerPath
  <1>2. ASSUME Live' \subseteq Live, \A b \in Live' : attrs'[b].path = attrs[b].path
        PROVE  OneObjectPerPath'
    BY <1>2 DEF OneObjectPerPath
  <1>3. ASSUME NEW a \in Addr, SetDeferred(a) \/ Enable(a) PROVE OneObjectPerPath'
    <2>1. Live' = Live /\ \A b \in Live : b # a => attrs'[b] = attrs[b]
      BY <1>3 DEF SetDeferred, Enable, Live
    <2>2. a \in Live /\ AttrOK(attrs[a])
      BY <1>3 DEF SetDeferred, Enable, AttrTypeOK
    <2>3. attrs'[a].path = attrs[a].path
      BY SMT, <1>3, <2>2 DEF SetDeferred, Enable, AttrOK, Live
    <2>4. QED
      BY <1>2, <2>1, <2>3
  <1>4. ASSUME NEW a \in Addr, Destroy(a) PROVE OneObjectPerPath'
    BY <1>2, <1>4 DEF Destroy, Live, Del
  <1>5. ASSUME NEW a \in Live, NEW v \in Inputs[attrs[a].path],
               Update(a, v) \/ Report(a, v) \/ Write(a, v)
        PROVE  OneObjectPerPath'
    <2>1. CASE \E cb \in BOOLEAN : Assign(a, v, cb)
      BY <1>2, <1>5, <2>1, Calls, AssignType
    <2>2. CASE UNCHANGED attrs
      BY <2>2 DEF OneObjectPerPath, Live
    <2>3. QED
      BY <1>5, <2>1, <2>2, Calls
  <1>6. CASE Restart
    BY <1>6 DEF Restart, OneObjectPerPath, Live, Empty
  <1>7. CASE UNCHANGED attrs
    BY <1>7 DEF OneObjectPerPath, Live
  <1>8. QED
    BY <1>1, <1>3, <1>4, <1>5, <1>6, <1>7 DEF Next, TimerFire, Persist, vars

\* However objects come and go, a path has one.
THEOREM OneObject == Spec => []OneObjectPerPath
  <1>1. Init => OneObjectPerPath
    BY DEF Init, OneObjectPerPath, Live, Empty
  <1>2. QED
    BY <1>1, AttrTypeCorrect, OneObjectStep, PTL DEF Spec

LEMMA BoundsStep ==
    AttrTypeOK /\ WithinBounds /\ [Next]_vars => WithinBounds'
  <1> SUFFICES ASSUME AttrTypeOK, WithinBounds, [Next]_vars PROVE WithinBounds'
    OBVIOUS
  <1> USE DEF Bounded
  <1>1. ASSUME NEW a \in Addr, NEW p \in Path, Create(a, p) PROVE WithinBounds'
    BY <1>1, CreateType DEF WithinBounds
  <1>2. ASSUME NEW a \in Addr, SetDeferred(a) PROVE WithinBounds'
    <2>1. a \in Live /\ AttrOK(attrs[a])
      BY <1>2 DEF SetDeferred, AttrTypeOK
    <2>2. Live' = Live /\ \A b \in Live : b # a => attrs'[b] = attrs[b]
      BY <1>2 DEF SetDeferred, Live
    <2>3. attrs'[a].path = attrs[a].path /\ attrs'[a].val = attrs[a].val
          /\ attrs'[a].ready = attrs[a].ready
      BY <1>2, <2>1 DEF SetDeferred, AttrOK, Live
    <2>4. QED
      BY <2>2, <2>3 DEF WithinBounds
  <1>3. ASSUME NEW a \in Addr, Enable(a) PROVE WithinBounds'
    <2>1. a \in Live /\ AttrOK(attrs[a])
      BY <1>3 DEF Enable, AttrTypeOK
    <2>2. Live' = Live /\ \A b \in Live : b # a => attrs'[b] = attrs[b]
      BY <1>3 DEF Enable, Live
    <2>3. attrs'[a].path = attrs[a].path
      BY <1>3, <2>1 DEF Enable, AttrOK, Live
    <2>4. attrs[a].path \in DOMAIN Bounds => attrs'[a].val = Clamp(attrs[a].path, attrs[a].val)
      BY <1>3, <2>1 DEF Enable, AttrOK, Live
    <2>5. attrs[a].path \in DOMAIN Bounds => InRange(attrs[a].path, attrs'[a].val)
      <3>1. attrs[a].val \in Value(attrs[a].path)
        BY <2>1 DEF AttrOK
      <3>2. attrs[a].path \in DOMAIN Bounds
              => InRange(attrs[a].path, Clamp(attrs[a].path, attrs[a].val))
        BY <3>1, ClampFacts
      <3>3. QED
        BY <2>4, <3>2
    <2>6. QED
      BY <2>2, <2>3, <2>5 DEF WithinBounds
  <1>4. ASSUME NEW a \in Addr, Destroy(a) PROVE WithinBounds'
    BY <1>4 DEF Destroy, WithinBounds, Live, Del
  <1>5. ASSUME NEW a \in Live, NEW v \in Inputs[attrs[a].path],
               Update(a, v) \/ Report(a, v) \/ Write(a, v)
        PROVE  WithinBounds'
    <2>1. CASE Accepts(a, v) /\ \E cb \in BOOLEAN : Assign(a, v, cb)
      <3>1. Bounded(a) => Assigned(a, v) = v /\ InRange(attrs[a].path, v)
        BY <2>1 DEF Assigned, Accepts
      <3>2. QED
        <4>1. PICK cb \in BOOLEAN : Assign(a, v, cb)
          BY <2>1
        <4>2. v \in Value(attrs[a].path)
          BY <1>5, Calls
        <4>3. /\ Live' = Live /\ attrs'[a].val = Assigned(a, v)
              /\ \A b \in Live : /\ attrs'[b].path = attrs[b].path
                                 /\ attrs'[b].ready = attrs[b].ready
              /\ \A b \in Live : b # a => attrs'[b] = attrs[b]
          BY <4>1, <4>2, AssignType
        <4>4. ASSUME NEW b \in Live, Bounded(b)
              PROVE  InRange(attrs[b].path, attrs'[b].val)
          BY <3>1, <4>3, <4>4 DEF WithinBounds
        <4>5. QED
          BY <4>3, <4>4 DEF WithinBounds, Bounded
    <2>2. CASE UNCHANGED attrs
      BY <2>2 DEF WithinBounds, Live
    <2>3. QED
      BY <1>5, <2>1, <2>2, Calls
  <1>6. CASE Restart
    BY <1>6 DEF Restart, WithinBounds, Live, Empty
  <1>7. CASE UNCHANGED attrs
    BY <1>7 DEF WithinBounds, Live
  <1>8. QED
    BY <1>1, <1>2, <1>3, <1>4, <1>5, <1>6, <1>7 DEF Next, TimerFire, Persist, vars

\* Whatever NVS held and whatever callers pass, inside callbacks too, an
\* attribute whose bounds were added is within them or null.
THEOREM StaysWithinBounds == Spec => []WithinBounds
  <1>1. Init => WithinBounds
    BY DEF Init, WithinBounds, Live, Empty
  <1>2. QED
    BY <1>1, AttrTypeCorrect, BoundsStep, PTL DEF Spec

-----------------------------------------------------------------------------
(* What was stored comes back *)

\* No non-volatile attribute is a string (attribute::create restores those into
\* an uninitialised value).
NumbersOnly == Nonvolatile \cap Strings = {}

\* NVS holds what was counted as stored.
NvsAgrees ==
    \A p \in Nonvolatile \ dangling :
        /\ p \in DOMAIN nv <=> p \in DOMAIN durable
        /\ p \in DOMAIN nv => nv[p] = durable[p]

\* A timer that outlived its object can write under a dangling path only.
RemainsDangle == \A a \in DOMAIN freed : freed[a].path \in dangling

InProgress(a) == \E i \in 1 .. Len(stack) : stack[i].addr = a

\* A value that is not the stored one has its timer or its call still to come.
WriteToCome ==
    \A a \in Live : attrs[a].path \in Nonvolatile \ dangling
                      => a \in timers \/ InProgress(a) \/ attrs[a].val = Kept(a)

StoredInv == NvsAgrees /\ RemainsDangle /\ WriteToCome

\* Kept(a) changes only with the path, the bounds or the stored value.
LEMMA KeptSame ==
    ASSUME NEW a, attrs'[a].path = attrs[a].path, attrs'[a].ready = attrs[a].ready,
           attrs[a].path \in DOMAIN durable' <=> attrs[a].path \in DOMAIN durable,
           attrs[a].path \in DOMAIN durable => durable'[attrs[a].path] = durable[attrs[a].path]
    PROVE  Kept(a)' = Kept(a)
  BY DEF Kept, Bounded

\* Storing the value of an attribute makes it the one that is kept: it is
\* within the bounds, which would change it otherwise.
LEMMA KeptStored ==
    ASSUME AttrTypeOK, WithinBounds, NEW a \in Live, attrs' = attrs,
           durable' = Put(durable, attrs[a].path, attrs[a].val)
    PROVE  Kept(a)' = attrs[a].val
  <1>1. attrs[a].path \in DOMAIN durable' /\ durable'[attrs[a].path] = attrs[a].val
    BY DEF Put
  <1>2. attrs[a].val \in Value(attrs[a].path)
    BY DEF AttrTypeOK, AttrOK
  <1>3. Bounded(a) => Clamp(attrs[a].path, attrs[a].val) = attrs[a].val
    BY <1>2, ClampFacts DEF WithinBounds, Bounded
  <1>4. QED
    BY <1>1, <1>3 DEF Kept, Bounded

\* Storing a value and counting it as stored go together.
LEMMA StoreAgrees ==
    ASSUME NumbersOnly, NvsAgrees, NEW p, NEW v, NvsStore(p, v), durable' = Put(durable, p, v),
           dangling' = dangling
    PROVE  NvsAgrees'
  <1> SUFFICES ASSUME NEW q \in Nonvolatile \ dangling
               PROVE  /\ q \in DOMAIN nv' <=> q \in DOMAIN durable'
                      /\ q \in DOMAIN nv' => nv'[q] = durable'[q]
    BY DEF NvsAgrees
  <1>1. CASE q = p
    <2>1. nv' = Put(nv, p, v)
      BY <1>1 DEF NvsStore, NumbersOnly
    <2>2. QED
      BY <1>1, <2>1 DEF Put
  <1>2. CASE q # p
    <2>1. q \in DOMAIN nv' <=> q \in DOMAIN nv
      BY <1>2 DEF NvsStore, Put, Del
    <2>2. q \in DOMAIN nv => nv'[q] = nv[q]
      BY <1>2 DEF NvsStore, Put, Del
    <2>3. QED
      BY <1>2, <2>1, <2>2 DEF NvsAgrees, Put
  <1>3. QED
    BY <1>1, <1>2

LEMMA CreateStored ==
    ASSUME NumbersOnly, AttrTypeOK, StoredInv, NEW a \in Addr, NEW p \in Path, Create(a, p)
    PROVE  StoredInv'
  <1>1. UNCHANGED <<timers, nv, durable, dangling>> /\ freed' = Del(freed, a)
    BY DEF Create
  <1>2. NvsAgrees'
    BY <1>1 DEF NvsAgrees, StoredInv
  <1>3. RemainsDangle'
    BY <1>1 DEF RemainsDangle, StoredInv, Del
  <1>4. ASSUME NEW b \in Live, attrs'[b].path \in Nonvolatile \ dangling'
        PROVE  b \in timers' \/ attrs'[b].val = Kept(b)'
    <2>1. attrs'[b] = attrs[b] /\ ~InProgress(b)
      BY SMT, CreateType DEF InProgress
    <2>2. Kept(b)' = Kept(b)
      BY <1>1, <2>1, KeptSame
    <2>3. QED
      BY <1>1, <1>4, <2>1, <2>2 DEF StoredInv, WriteToCome
  <1>5. ASSUME p \in Nonvolatile \ dangling, stack' = <<>>
        PROVE  attrs'[a].val = Kept(a)'
    <2>1. ~Bounded(a)' /\ attrs'[a].path = p
      BY CreateType DEF Bounded
    <2>2. CASE p \in DOMAIN nv
      <3>1. PICK r \in Restored(p, nv[p]) : attrs' = Put(attrs, a, NewAttr(p, r.val, r.max))
        BY <1>5, <2>2 DEF Create
      <3>2. r.val = nv[p]
        BY <1>5, <2>2, RestoredFacts DEF AttrTypeOK, StoredOK, NumbersOnly
      <3>3. attrs'[a].val = nv[p]
        BY <3>1, <3>2 DEF Put, NewAttr
      <3>4. p \in DOMAIN durable' /\ durable'[p] = nv[p]
        BY <1>1, <1>5, <2>2 DEF StoredInv, NvsAgrees
      <3>5. QED
        BY <2>1, <3>3, <3>4 DEF Kept
    <2>3. CASE p \notin DOMAIN nv
      <3>1. attrs' = Put(attrs, a, NewAttr(p, Default[p], MaxSize[p]))
        BY <1>5, <2>3 DEF Create
      <3>2. attrs'[a].val = Default[p]
        BY <3>1 DEF Put, NewAttr
      <3>3. p \notin DOMAIN durable'
        BY <1>1, <1>5, <2>3 DEF StoredInv, NvsAgrees
      <3>4. QED
        BY <2>1, <3>2, <3>3 DEF Kept
    <2>4. QED
      BY <2>2, <2>3
  <1>6. stack' = <<>> \/ InProgress(a)'
    <2>1. CASE stack' = <<[addr |-> a, callbacks |-> FALSE]>>
      <3>1. Len(stack') = 1 /\ stack'[1].addr = a
        BY <2>1
      <3>2. QED
        BY SMT, <3>1 DEF InProgress
    <2>2. QED
      BY <2>1, CreateType
  <1>7. WriteToCome'
    <2>1. Live' = Live \cup {a} /\ attrs'[a].path = p
      BY CreateType
    <2>2. QED
      <3>1. ASSUME NEW b \in Live, attrs'[b].path \in Nonvolatile \ dangling'
            PROVE  b \in timers' \/ InProgress(b)' \/ attrs'[b].val = Kept(b)'
        BY <1>4, <3>1
      <3>2. ASSUME attrs'[a].path \in Nonvolatile \ dangling'
            PROVE  InProgress(a)' \/ attrs'[a].val = Kept(a)'
        BY <1>1, <1>5, <1>6, <2>1, <3>2
      <3>3. QED
        BY <2>1, <3>1, <3>2 DEF WriteToCome
  <1>8. QED
    BY <1>2, <1>3, <1>7 DEF StoredInv

LEMMA EnableStored ==
    ASSUME AttrTypeOK, StoredInv, NEW a \in Addr, SetDeferred(a) \/ Enable(a)
    PROVE  StoredInv'
  <1>1. UNCHANGED <<freed, timers, stack, nv, durable, dangling>> /\ stack = <<>>
    BY DEF SetDeferred, Enable, nvs, Idle
  <1>2. a \in Live /\ AttrOK(attrs[a])
    BY DEF SetDeferred, Enable, AttrTypeOK
  <1>3. Live' = Live /\ \A b \in Live : b # a => attrs'[b] = attrs[b]
    BY DEF SetDeferred, Enable, Live
  <1>4. attrs'[a].path = attrs[a].path
    BY SMT, <1>2 DEF SetDeferred, Enable, AttrOK, Live
  <1>5. ASSUME NEW b \in Live, attrs[b].path \in Nonvolatile \ dangling, b \notin timers
        PROVE  attrs[b].val = Kept(b)
    BY SMT, <1>1, <1>5 DEF StoredInv, WriteToCome, InProgress
  <1>6. ASSUME NEW b \in Live, attrs[b].path \in Nonvolatile \ dangling, b \notin timers
        PROVE  attrs'[b].val = Kept(b)'
    <2>1. CASE b # a \/ SetDeferred(a)
      <3>1. attrs'[b].path = attrs[b].path /\ attrs'[b].ready = attrs[b].ready
            /\ attrs'[b].val = attrs[b].val
        BY SMT, <1>2, <1>3, <2>1 DEF SetDeferred, AttrOK, Live
      <3>2. QED
        BY <1>1, <1>5, <1>6, <3>1, KeptSame
    <2>2. CASE b = a /\ Enable(a)
      <3>1. attrs'[a].ready /\ ~attrs[a].ready
        BY <1>2, <2>2 DEF Enable, AttrOK, Live
      <3>2. attrs'[a].val = IF attrs[a].path \in DOMAIN Bounds
                            THEN Clamp(attrs[a].path, attrs[a].val) ELSE attrs[a].val
        BY <1>2, <2>2 DEF Enable, AttrOK, Live
      <3>3. attrs[a].val = Kept(a)
        BY <1>5, <1>6, <2>2
      <3>4. QED
        BY <1>1, <1>4, <2>2, <3>1, <3>2, <3>3 DEF Kept, Bounded
    <2>3. QED
      BY <2>1, <2>2
  <1>7. WriteToCome'
    BY <1>1, <1>3, <1>4, <1>6 DEF WriteToCome
  <1>8. QED
    BY <1>1, <1>7 DEF StoredInv, NvsAgrees, RemainsDangle

LEMMA DestroyStored ==
    ASSUME AttrTypeOK, OneObjectPerPath, StoredInv, NEW a \in Addr, Destroy(a)
    PROVE  StoredInv'
  <1>1. a \in Live /\ stack = <<>> /\ stack' = stack /\ timers' = timers
    BY DEF Destroy, Idle
  <1>2. Live' = Live \ {a} /\ \A b \in Live' : attrs'[b] = attrs[b]
    BY DEF Destroy, Live, Del
  <1>3. durable' = Del(durable, attrs[a].path)
        /\ nv' = IF attrs[a].path \in Nonvolatile THEN Del(nv, attrs[a].path) ELSE nv
    BY DEF Destroy
  <1>4. dangling' = IF a \in timers THEN dangling \cup {attrs[a].path} ELSE dangling
    BY DEF Destroy
  <1>5. NvsAgrees'
    <2> SUFFICES ASSUME NEW q \in Nonvolatile \ dangling'
                 PROVE  /\ q \in DOMAIN nv' <=> q \in DOMAIN durable'
                        /\ q \in DOMAIN nv' => nv'[q] = durable'[q]
      BY DEF NvsAgrees
    <2>1. /\ q \in DOMAIN nv <=> q \in DOMAIN durable
          /\ q \in DOMAIN nv => nv[q] = durable[q]
      BY <1>4 DEF StoredInv, NvsAgrees
    <2>2. QED
      BY <1>3, <2>1 DEF Del
  <1>6. RemainsDangle'
    <2>1. freed' = IF a \in timers THEN Put(freed, a, attrs[a]) ELSE freed
      BY DEF Destroy
    <2>2. CASE a \in timers
      BY <1>4, <2>1, <2>2 DEF StoredInv, RemainsDangle, Put
    <2>3. CASE a \notin timers
      BY <1>4, <2>1, <2>3 DEF StoredInv, RemainsDangle
    <2>4. QED
      BY <2>2, <2>3
  <1>7. ASSUME NEW b \in Live', attrs'[b].path \in Nonvolatile \ dangling', b \notin timers'
        PROVE  attrs'[b].val = Kept(b)'
    <2>1. b \in Live /\ attrs'[b] = attrs[b] /\ attrs[b].path # attrs[a].path
      BY <1>1, <1>2, <1>7 DEF OneObjectPerPath
    <2>2. Kept(b)' = Kept(b)
      BY <1>3, <2>1, KeptSame DEF Del
    <2>3. attrs[b].path \in Nonvolatile \ dangling
      BY <1>4, <1>7, <2>1
    <2>4. QED
      <3>1. ~InProgress(b) /\ b \notin timers
        <4>1. Len(stack) = 0
          BY <1>1
        <4>2. ~InProgress(b)
          BY SMT, <4>1 DEF InProgress
        <4>3. QED
          BY <1>1, <1>7, <4>2
      <3>2. attrs[b].val = Kept(b)
        BY <2>1, <2>3, <3>1 DEF StoredInv, WriteToCome
      <3>3. QED
        BY <2>1, <2>2, <3>2
  <1>8. WriteToCome'
    BY <1>7 DEF WriteToCome
  <1>9. QED
    BY <1>5, <1>6, <1>8 DEF StoredInv

LEMMA TimerStored ==
    ASSUME NumbersOnly, AttrTypeOK, OneObjectPerPath, WithinBounds, StoredInv,
           NEW a \in Addr, TimerFire(a)
    PROVE  StoredInv'
  <1>1. /\ UNCHANGED <<attrs, stack, dangling>> /\ stack = <<>>
        /\ timers' = timers \ {a} /\ freed' = Del(freed, a)
    BY DEF TimerFire, Idle
  <1>2. Live' = Live
    BY <1>1 DEF Live
  <1>3. RemainsDangle'
    BY <1>1 DEF StoredInv, RemainsDangle, Del
  <1>4. ASSUME NEW b \in Live, attrs[b].path \in Nonvolatile \ dangling, b \notin timers
        PROVE  attrs[b].val = Kept(b)
    BY SMT, <1>1, <1>4 DEF StoredInv, WriteToCome, InProgress
  <1>5. CASE a \in Live
    <2>1. NvsStore(attrs[a].path, attrs[a].val)
          /\ durable' = Put(durable, attrs[a].path, attrs[a].val)
      BY <1>5 DEF TimerFire
    <2>2. NvsAgrees'
      BY <1>1, <2>1, StoreAgrees DEF StoredInv
    <2>3. ASSUME NEW b \in Live, attrs[b].path \in Nonvolatile \ dangling, b \notin timers'
          PROVE  attrs[b].val = Kept(b)'
      <3>1. CASE b = a
        BY <1>1, <1>5, <2>1, <3>1, KeptStored
      <3>2. CASE b # a
        <4>1. attrs[b].path # attrs[a].path
          BY <1>5, <3>2 DEF OneObjectPerPath
        <4>2. Kept(b)' = Kept(b)
          BY <1>1, <2>1, <4>1, KeptSame DEF Put
        <4>3. QED
          BY <1>1, <1>4, <2>3, <3>2, <4>2
      <3>3. QED
        BY <3>1, <3>2
    <2>4. WriteToCome'
      BY <1>1, <1>2, <2>3 DEF WriteToCome
    <2>5. QED
      BY <1>3, <2>2, <2>4 DEF StoredInv
  <1>6. CASE a \notin Live
    <2>1. a \in DOMAIN freed /\ freed[a].path \in dangling
      BY <1>6 DEF TimerFire, AttrTypeOK, StoredInv, RemainsDangle
    <2>2. (NvsStore(freed[a].path, freed[a].val) \/ nv' = nv) /\ durable' = durable
      BY <1>6 DEF TimerFire
    <2>3. ASSUME NEW q \in Nonvolatile \ dangling
          PROVE  (q \in DOMAIN nv' <=> q \in DOMAIN nv) /\ (q \in DOMAIN nv => nv'[q] = nv[q])
      BY SMT, <2>1, <2>2 DEF NvsStore, Put, Del
    <2>4. NvsAgrees'
      BY <1>1, <2>2, <2>3 DEF StoredInv, NvsAgrees
    <2>5. ASSUME NEW b \in Live, attrs[b].path \in Nonvolatile \ dangling, b \notin timers'
          PROVE  attrs[b].val = Kept(b)'
      <3>1. Kept(b)' = Kept(b)
        BY <1>1, <2>2, KeptSame
      <3>2. QED
        BY <1>1, <1>4, <1>6, <2>5, <3>1
    <2>6. WriteToCome'
      BY <1>1, <1>2, <2>5 DEF WriteToCome
    <2>7. QED
      BY <1>3, <2>4, <2>6 DEF StoredInv
  <1>7. QED
    BY <1>5, <1>6

\* The calls in progress stay in progress when another begins, which is too.
LEMMA PushInProgress ==
    ASSUME AttrTypeOK, NEW a \in Live, NEW v, NEW cb \in BOOLEAN, Assign(a, v, cb)
    PROVE  InProgress(a)' /\ \A b : InProgress(b) => InProgress(b)'
  <1> DEFINE t == [i \in DOMAIN stack |-> [addr |-> stack[i].addr, callbacks |-> FALSE]]
             e == [addr |-> a, callbacks |-> cb]
             F == [addr : Live, callbacks : BOOLEAN]
  <1>1. Len(stack) \in Nat /\ DOMAIN stack = 1 .. Len(stack) /\ stack \in Seq(F)
    BY SMT DEF AttrTypeOK
  <1>2. stack' = Append(t, e)
    BY DEF Assign
  <1>3. \A i \in 1 .. Len(stack) : stack[i] \in F
    BY <1>1, ElementOf
  <1>4. t \in [1 .. Len(stack) -> F]
    BY <1>1, <1>3
  <1>5. t \in Seq(F) /\ \A i \in 1 .. Len(stack) : t[i].addr = stack[i].addr
    <2>1. \A i \in 1 .. Len(stack) : t[i].addr = stack[i].addr
      BY <1>1
    <2>2. t \in Seq(F)
      <3> HIDE DEF t, F
      <3>1. QED
        BY <1>1, <1>4, SeqOf
    <2>3. QED
      BY <2>1, <2>2
  <1>6. Len(t) = Len(stack)
    BY SMT, <1>1, <1>4, <1>5
  <1>7. e.addr = a
    OBVIOUS
  <1> HIDE DEF t, e, F
  <1>8. /\ Len(stack') = Len(stack) + 1 /\ stack'[Len(stack) + 1] = e
        /\ \A i \in 1 .. Len(stack) : stack'[i] = t[i]
    BY SMT, <1>1, <1>2, <1>5, <1>6
  <1>9. QED
    <2>1. InProgress(a)'
      <3>1. Len(stack) + 1 \in 1 .. Len(stack')
        BY SMT, <1>1, <1>8
      <3>2. QED
        BY <1>7, <1>8, <3>1 DEF InProgress
    <2>2. ASSUME NEW b, NEW i \in 1 .. Len(stack), stack[i].addr = b
          PROVE  InProgress(b)'
      <3>1. i \in 1 .. Len(stack')
        BY SMT, <1>1, <1>8
      <3>2. stack'[i].addr = b
        BY <1>5, <1>8, <2>2
      <3>3. QED
        BY <3>1, <3>2 DEF InProgress
    <2>3. QED
      BY <2>1, <2>2 DEF InProgress

LEMMA CallStored ==
    ASSUME AttrTypeOK, StoredInv, NEW a \in Live, NEW v \in Inputs[attrs[a].path],
           Update(a, v) \/ Report(a, v) \/ Write(a, v)
    PROVE  StoredInv'
  <1>1. UNCHANGED <<nv, durable, dangling>>
    BY Calls DEF nvs
  <1>2. CASE \E cb \in BOOLEAN : Assign(a, v, cb)
    <2>1. /\ Live' = Live /\ freed' = freed /\ timers' = timers
          /\ \A b \in Live : attrs'[b].path = attrs[b].path
          /\ \A b \in Live : b # a => attrs'[b] = attrs[b]
      <3>1. PICK cb \in BOOLEAN : Assign(a, v, cb)
        BY <1>2
      <3>2. v \in Value(attrs[a].path)
        BY Calls
      <3>3. QED
        BY <3>1, <3>2, AssignType
    <2>2. InProgress(a)' /\ \A b : InProgress(b) => InProgress(b)'
      BY <1>2, PushInProgress
    <2>3. ASSUME NEW b \in Live, b # a PROVE Kept(b)' = Kept(b)
      BY <1>1, <2>1, <2>3, KeptSame
    <2>4. WriteToCome'
      BY <1>1, <2>1, <2>2, <2>3 DEF StoredInv, WriteToCome
    <2>5. QED
      BY <1>1, <2>1, <2>4 DEF StoredInv, NvsAgrees, RemainsDangle
  <1>3. CASE UNCHANGED <<attrs, freed, timers, stack>>
    BY <1>1, <1>3 DEF StoredInv, NvsAgrees, RemainsDangle, WriteToCome, InProgress, Kept, Bounded, Live
  <1>4. QED
    BY <1>2, <1>3, Calls

LEMMA PersistStored ==
    ASSUME NumbersOnly, AttrTypeOK, OneObjectPerPath, WithinBounds, StoredInv, Persist
    PROVE  StoredInv'
  <1> DEFINE F == [addr : Live, callbacks : BOOLEAN]
  <1>1. stack # <<>> /\ stack \in Seq(F) /\ stack' = SubSeq(stack, 1, Len(stack) - 1)
    BY DEF Persist, Idle, AttrTypeOK
  <1> HIDE DEF F
  <1>2. /\ Len(stack) \in Nat /\ Len(stack) > 0 /\ stack[Len(stack)] \in F
        /\ Len(stack') = Len(stack) - 1
        /\ \A i \in 1 .. (Len(stack) - 1) : stack'[i] = stack[i]
    BY SMT, <1>1, PopFacts
  <1>3. PICK a \in Live : a = Top
    BY <1>2 DEF Top, F
  <1>4. ASSUME NEW b, b # a, InProgress(b) PROVE InProgress(b)'
    BY SMT, <1>2, <1>3, <1>4 DEF InProgress, Top
  <1>5. UNCHANGED <<attrs, freed, dangling>> /\ Live' = Live
    BY DEF Persist, Live
  <1>6. RemainsDangle'
    BY <1>5 DEF StoredInv, RemainsDangle
  <1>7. CASE attrs[a].path \in Nonvolatile /\ ~attrs[a].deferred
    <2>1. NvsStore(attrs[a].path, attrs[a].val)
          /\ durable' = Put(durable, attrs[a].path, attrs[a].val) /\ timers' = timers
      BY <1>3, <1>7 DEF Persist
    <2>2. NvsAgrees'
      BY <1>5, <2>1, StoreAgrees DEF StoredInv
    <2>3. attrs[a].val = Kept(a)'
      BY <1>5, <2>1, KeptStored
    <2>4. ASSUME NEW b \in Live, b # a PROVE Kept(b)' = Kept(b)
      <3>1. attrs[b].path # attrs[a].path
        BY <2>4 DEF OneObjectPerPath
      <3>2. QED
        BY <1>5, <2>1, <3>1, KeptSame DEF Put
    <2>5. WriteToCome'
      BY <1>4, <1>5, <2>1, <2>3, <2>4 DEF StoredInv, WriteToCome
    <2>6. QED
      BY <1>6, <2>2, <2>5 DEF StoredInv
  <1>8. CASE ~(attrs[a].path \in Nonvolatile /\ ~attrs[a].deferred)
    <2>1. UNCHANGED <<nv, durable>>
      BY <1>3, <1>8 DEF Persist
    <2>2. timers' = IF attrs[a].path \in Nonvolatile THEN timers \cup {a} ELSE timers
      BY <1>3, <1>8 DEF Persist
    <2>3. ASSUME NEW b \in Live PROVE Kept(b)' = Kept(b)
      BY <1>5, <2>1, KeptSame
    <2>4. WriteToCome'
      BY <1>4, <1>5, <2>2, <2>3 DEF StoredInv, WriteToCome
    <2>5. QED
      BY <1>5, <1>6, <2>1, <2>4 DEF StoredInv, NvsAgrees
  <1>9. QED
    BY <1>7, <1>8

LEMMA StoredStep ==
    ASSUME NumbersOnly
    PROVE  AttrTypeOK /\ OneObjectPerPath /\ WithinBounds /\ StoredInv /\ [Next]_vars => StoredInv'
  <1> SUFFICES ASSUME AttrTypeOK, OneObjectPerPath, WithinBounds, StoredInv, [Next]_vars
               PROVE  StoredInv'
    OBVIOUS
  <1>1. CASE Restart
    <2>1. NvsAgrees'
      BY <1>1 DEF Restart, StoredInv, NvsAgrees, nvs
    <2>2. QED
      BY <1>1, <2>1 DEF Restart, StoredInv, RemainsDangle, WriteToCome, Live, Empty
  <1>2. CASE UNCHANGED vars
    BY <1>2 DEF vars, StoredInv, NvsAgrees, RemainsDangle, WriteToCome, InProgress, Kept, Bounded, Live
  <1>3. QED
    BY <1>1, <1>2, CreateStored, EnableStored, DestroyStored, TimerStored, CallStored, PersistStored
       DEF Next

\* What was counted as stored comes back after any number of restarts, for every
\* data model whose non-volatile attributes are numbers, and however deep
\* updates nest in callbacks.
THEOREM StoredReturns ==
    ASSUME NumbersOnly
    PROVE  Spec => []StoredComesBack
  <1>1. Init => StoredInv
    BY DEF Init, StoredInv, NvsAgrees, RemainsDangle, WriteToCome, Live, Empty
  <1>2. StoredInv => StoredComesBack
    <2>1. stack = <<>> => \A a : ~InProgress(a)
      <3>1. stack = <<>> => Len(stack) = 0
        BY SMT
      <3>2. QED
        BY SMT, <3>1 DEF InProgress
    <2>2. QED
      BY <2>1 DEF StoredInv, WriteToCome, StoredComesBack, Idle
  <1>3. QED
    BY <1>1, <1>2, AttrTypeCorrect, OneObject, StaysWithinBounds, StoredStep, PTL DEF Spec

-----------------------------------------------------------------------------
(* The hardware and the attributes *)

\* DriverMatches of every state, calls in progress included; and the hardware
\* is not driven before the bounds are added, nor when the attribute is gone.
DriverInv ==
    /\ \A a \in Live :
          LET p == attrs[a].path
          IN p \in Strings \/ p \in failed \/ driver[p] \in {NoVal, attrs[a].val}
    /\ \A a \in Live : ~attrs[a].ready => driver[attrs[a].path] = NoVal
    /\ \A p \in Path : p \notin LivePaths => driver[p] = NoVal

\* A call drives the hardware of one path.  The attribute takes the same value,
\* or its path is one whose write failed.
LEMMA CallDrives ==
    ASSUME AttrTypeOK, NEW a \in Live, NEW v \in Inputs[attrs[a].path],
           Update(a, v) \/ Report(a, v) \/ Write(a, v)
    PROVE  /\ attrs[a].ready
           /\ driver' = [driver EXCEPT ![attrs[a].path] = v]
           /\ Live' = Live
           /\ \A b \in Live : attrs'[b].path = attrs[b].path /\ attrs'[b].ready = attrs[b].ready
           /\ \A b \in Live : b # a => attrs'[b] = attrs[b]
           /\ \A p \in Path : p # attrs[a].path => (p \in failed' <=> p \in failed)
           /\ \/ attrs[a].path \in Strings \cup failed'
              \/ attrs'[a].val = v
  <1>1. attrs[a].ready /\ driver' = [driver EXCEPT ![attrs[a].path] = v]
    BY DEF Update, Report, Write
  <1>2. \A p \in Path : p # attrs[a].path => (p \in failed' <=> p \in failed)
    BY DEF Update, Report, Write
  <1>3. CASE \E cb \in BOOLEAN : Assign(a, v, cb)
    <2>1. PICK cb \in BOOLEAN : Assign(a, v, cb)
      BY <1>3
    <2>2. v \in Value(attrs[a].path)
      BY Calls
    <2>3. /\ Live' = Live
          /\ \A b \in Live : attrs'[b].path = attrs[b].path /\ attrs'[b].ready = attrs[b].ready
          /\ \A b \in Live : b # a => attrs'[b] = attrs[b]
          /\ attrs'[a].val = Assigned(a, v)
      BY <2>1, <2>2, AssignType
    <2>4. attrs[a].path \in Strings \/ Assigned(a, v) = v
      BY DEF Assigned
    <2>5. QED
      BY <1>1, <1>2, <2>3, <2>4
  <1>4. CASE attrs' = attrs /\ ~ \E cb \in BOOLEAN : Assign(a, v, cb)
    <2>1. attrs[a].path \in failed' \/ attrs[a].val = v
      BY <1>4 DEF Update, Report, Write
    <2>2. Live' = Live /\ \A b \in Live : attrs'[b] = attrs[b]
      BY <1>4 DEF Live
    <2>3. QED
      BY <1>1, <1>2, <2>1, <2>2
  <1>5. QED
    BY <1>3, <1>4, Calls

LEMMA DriverStep ==
    AttrTypeOK /\ OneObjectPerPath /\ DriverInv /\ [Next]_vars => DriverInv'
  <1> SUFFICES ASSUME AttrTypeOK, OneObjectPerPath, DriverInv, [Next]_vars PROVE DriverInv'
    OBVIOUS
  <1>0. \A b \in Live : attrs[b].path \in Path
    BY DEF AttrTypeOK, AttrOK
  <1>1. ASSUME NEW a \in Addr, NEW p \in Path, Create(a, p) PROVE DriverInv'
    <2>1. /\ Live' = Live \cup {a} /\ a \notin Live /\ p \notin LivePaths
          /\ \A b \in Live : attrs'[b] = attrs[b]
          /\ attrs'[a].path = p
      BY <1>1, CreateType
    <2>2. driver' = driver /\ failed' = failed
      BY <1>1 DEF Create
    <2>3. driver[p] = NoVal
      BY <2>1 DEF DriverInv
    <2>4. LivePaths \subseteq LivePaths'
      BY <2>1 DEF LivePaths
    <2>5. QED
      BY <2>1, <2>2, <2>3, <2>4 DEF DriverInv
  <1>2. ASSUME NEW a \in Addr, SetDeferred(a) \/ Enable(a) PROVE DriverInv'
    <2>1. Live' = Live /\ \A b \in Live : b # a => attrs'[b] = attrs[b]
      BY <1>2 DEF SetDeferred, Enable, Live
    <2>2. a \in Live /\ AttrOK(attrs[a])
      BY <1>2 DEF SetDeferred, Enable, AttrTypeOK
    <2>3. attrs'[a].path = attrs[a].path
      BY SMT, <1>2, <2>2 DEF SetDeferred, Enable, AttrOK, Live
    <2>4. \/ attrs'[a].val = attrs[a].val /\ attrs'[a].ready = attrs[a].ready
          \/ ~attrs[a].ready /\ attrs'[a].ready
      BY SMT, <1>2, <2>2 DEF SetDeferred, Enable, AttrOK, Live
    <2>5. driver' = driver /\ failed' = failed
      BY <1>2 DEF SetDeferred, Enable
    <2>6. LivePaths' = LivePaths
      BY <2>1, <2>2, <2>3 DEF LivePaths
    <2>7. QED
      BY SMT, <2>1, <2>2, <2>3, <2>4, <2>5, <2>6 DEF DriverInv
  <1>3. ASSUME NEW a \in Addr, Destroy(a) PROVE DriverInv'
    <2>1. /\ a \in Live /\ Live' = Live \ {a} /\ \A b \in Live' : attrs'[b] = attrs[b]
      BY <1>3 DEF Destroy, Live, Del
    <2>2. /\ driver' = [driver EXCEPT ![attrs[a].path] = NoVal]
          /\ failed' = failed \ {attrs[a].path}
      BY <1>3 DEF Destroy
    <2>3. driver'[attrs[a].path] = NoVal
          /\ \A p \in Path : p # attrs[a].path => driver'[p] = driver[p]
      BY <1>0, <2>1, <2>2 DEF AttrTypeOK
    <2>4. \A b \in Live' : attrs[b].path # attrs[a].path
      BY <2>1 DEF OneObjectPerPath
    <2>5. LivePaths \subseteq LivePaths' \cup {attrs[a].path}
      BY <2>1 DEF LivePaths
    <2>6. QED
      BY SMT, <1>0, <2>1, <2>2, <2>3, <2>4, <2>5 DEF DriverInv
  <1>4. ASSUME NEW a \in Live, NEW v \in Inputs[attrs[a].path],
               Update(a, v) \/ Report(a, v) \/ Write(a, v)
        PROVE  DriverInv'
    <2>1. /\ attrs[a].ready
          /\ driver' = [driver EXCEPT ![attrs[a].path] = v]
          /\ Live' = Live
          /\ \A b \in Live : attrs'[b].path = attrs[b].path /\ attrs'[b].ready = attrs[b].ready
          /\ \A b \in Live : b # a => attrs'[b] = attrs[b]
          /\ \A p \in Path : p # attrs[a].path => (p \in failed' <=> p \in failed)
          /\ attrs[a].path \in Strings \cup failed' \/ attrs'[a].val = v
      BY <1>4, CallDrives
    <2>2. driver'[attrs[a].path] = v
          /\ \A p \in Path : p # attrs[a].path => driver'[p] = driver[p]
      BY <1>0, <2>1 DEF AttrTypeOK
    <2>3. \A b \in Live : b # a => attrs[b].path # attrs[a].path
      BY DEF OneObjectPerPath
    <2>4. LivePaths' = LivePaths /\ attrs[a].path \in LivePaths
      BY SMT, <2>1 DEF LivePaths
    <2>5. QED
      BY SMT, <1>0, <2>1, <2>2, <2>3, <2>4 DEF DriverInv
  <1>5. CASE Restart
    BY <1>5 DEF Restart, DriverInv, Live, Empty
  <1>6. CASE UNCHANGED <<attrs, driver, failed>>
    BY <1>6 DEF DriverInv, Live, LivePaths
  <1>7. QED
    BY <1>1, <1>2, <1>3, <1>4, <1>5, <1>6 DEF Next, TimerFire, Persist, vars

\* The hardware, which the application drives from the PRE_UPDATE callback, has
\* the value of every numeric attribute: after nested updates, after restarts and
\* between the steps of calls too, unless a controller's write was refused or ignored
\* or a value outside the bounds was reported.
THEOREM HardwareAgrees == Spec => []DriverMatches
  <1>1. Init => DriverInv
    BY DEF Init, DriverInv, Live, Empty
  <1>2. DriverInv => DriverMatches
    BY DEF DriverInv, DriverMatches
  <1>3. QED
    BY <1>1, <1>2, AttrTypeCorrect, OneObject, DriverStep, PTL DEF Spec

=============================================================================
