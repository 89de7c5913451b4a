------------------------ MODULE EndpointTable_proofs ------------------------
(***************************************************************************)
(* Proofs about the endpoint list and its id counter, for every set of     *)
(* images, every endpoint limit and every number of endpoints created.     *)
(***************************************************************************)
EXTENDS EndpointTable, TLAPS

\* The leaves are for Zenon; those that need arithmetic cite SMT.
USE Zenon

\* A firmware update never adds an endpoint to those created before start().
NonGrowing == \A u \in Upgrades : Len(u[2]) <= Len(u[1])

\* The counter lies above every live id, and every stored copy of it above the
\* endpoints the running image creates: what start() loads cannot fall below them.
CounterAbove ==
    /\ \A h \in Live : endpoints[h].id < minUnused
    /\ nvMin # NotFound => Len(image) <= nvMin
    /\ nvMinOld # NotFound => Len(image) <= nvMinOld
    /\ phase = "boot" => minUnused <= Len(image)
    /\ phase # "boot" => Len(image) <= minUnused

UniqueInv == TableTypeOK /\ CounterAbove /\ UniqueIds

-----------------------------------------------------------------------------

\* Every image has a length that is a natural number no larger than 255.
LEMMA ImageLength ==
    ASSUME NEW img \in Images
    PROVE  Len(img) \in Nat /\ Len(img) <= 255
  BY SMT, ConstantsAssumption DEF Kinds

\* kInvalidEndpointId is the largest id.
LEMMA IdRange ==
    /\ kInvalidEndpointId \in Nat /\ 255 < kInvalidEndpointId
    /\ 0 \in EndpointId /\ kInvalidEndpointId \in EndpointId
    /\ EndpointId \subseteq Nat
  <1>1. kInvalidEndpointId \in Nat /\ 255 < kInvalidEndpointId
    BY SMT DEF kInvalidEndpointId
  <1>2. QED
    BY SMT, <1>1 DEF EndpointId

\* The 16-bit counter stays an id, and wraps only past kInvalidEndpointId.
LEMMA NextIdRange ==
    ASSUME NEW i \in EndpointId
    PROVE  NextId(i) \in EndpointId /\ (i < kInvalidEndpointId => NextId(i) = i + 1)
  BY SMT, IdRange DEF EndpointId, NextId

\* Adding an endpoint with a well-typed record keeps the list well typed.
LEMMA WithEndpointType ==
    ASSUME Live \subseteq Handle, endpoints \in [Live -> Endpoint],
           NEW h \in Handle, NEW e \in Endpoint
    PROVE  /\ DOMAIN WithEndpoint(h, e) = Live \cup {h}
           /\ WithEndpoint(h, e) \in [Live \cup {h} -> Endpoint]
           /\ WithEndpoint(h, e)[h] = e
           /\ \A x \in Live \ {h} : WithEndpoint(h, e)[x] = endpoints[x]
  BY DEF WithEndpoint, Live

\* The initial states are well typed.
LEMMA InitType == TableInit => TableTypeOK
  <1> SUFFICES ASSUME TableInit PROVE TableTypeOK
    OBVIOUS
  <1>1. PICK img \in Images : BootState(img)
    BY DEF TableInit
  <1>2. Len(img) \in Nat
    BY ImageLength
  <1>3. nvMinOld \in EndpointId \cup {NotFound}
    BY ConstantsAssumption DEF TableInit, EndpointId
  <1>4. issued \subseteq EndpointId
    <2>1. CASE nvMinOld = NotFound
      BY <2>1 DEF TableInit
    <2>2. CASE nvMinOld # NotFound
      <3>1. nvMinOld \in EndpointId /\ Len(image) \in Nat
        BY <1>1, <1>2, <1>3, <2>2 DEF BootState
      <3>2. issued = Len(image) .. (nvMinOld - 1)
        BY <2>2 DEF TableInit
      <3>3. SUFFICES ASSUME NEW i \in issued PROVE i \in EndpointId
        OBVIOUS
      <3>4. i \in Nat /\ i < nvMinOld /\ nvMinOld \in Nat /\ nvMinOld <= kInvalidEndpointId
        BY SMT, <3>1, <3>2, IdRange DEF EndpointId
      <3>5. QED
        BY SMT, <3>4, IdRange DEF EndpointId
    <2>3. QED
      BY <2>1, <2>2
  <1>5. QED
    BY <1>1, <1>3, <1>4, IdRange DEF TableInit, BootState, TableTypeOK, Live

\* Every step keeps the types, the 16-bit counter included.
LEMMA NextType == TableTypeOK /\ [TableNext]_tableVars => TableTypeOK'
  <1> SUFFICES ASSUME TableTypeOK, [TableNext]_tableVars PROVE TableTypeOK'
    OBVIOUS
  <1> USE IdRange DEF TableTypeOK
  <1>a. Len(image) \in Nat /\ Len(image) <= 255 /\ image \in Seq(Kinds)
    BY ImageLength, ConstantsAssumption
  <1>1. CASE UNCHANGED tableVars
    BY <1>1 DEF tableVars, Live
  <1>2. ASSUME NEW h \in Handle, CreateStatic(h) PROVE TableTypeOK'
    <2> DEFINE e == [id |-> minUnused, parent |-> kInvalidEndpointId, enabled |-> TRUE,
                     destroyable |-> FALSE, kind |-> image[minUnused + 1]]
    <2>1. minUnused + 1 \in 1 .. Len(image)
      BY SMT, <1>2, <1>a DEF CreateStatic, EndpointId
    <2>2. e \in Endpoint
      BY SMT, <2>1, <1>a DEF Endpoint, EndpointId
    <2>3. minUnused' \in EndpointId
      BY <1>2, NextIdRange DEF CreateStatic
    <2>4. endpoints' = WithEndpoint(h, e)
      BY <1>2 DEF CreateStatic
    <2> HIDE DEF e
    <2>5. DOMAIN endpoints' = Live \cup {h} /\ endpoints' \in [Live \cup {h} -> Endpoint]
      BY <2>2, <2>4, WithEndpointType
    <2>6. Live' = Live \cup {h} /\ endpoints' \in [Live' -> Endpoint]
      BY <2>5 DEF Live
    <2>7. QED
      BY <1>2, <2>3, <2>6 DEF CreateStatic
  <1>3. ASSUME NEW h \in Handle, Create(h, "bridged") PROVE TableTypeOK'
    <2> DEFINE e == [id |-> minUnused, parent |-> kInvalidEndpointId, enabled |-> TRUE,
                     destroyable |-> TRUE, kind |-> "bridged"]
    <2>1. e \in Endpoint
      BY DEF Endpoint, EndpointId
    <2>2. minUnused' \in EndpointId
      BY <1>3, NextIdRange DEF Create
    <2>3. /\ Live' = Live \cup {h}
          /\ endpoints' \in [Live' -> Endpoint]
      BY <1>3, <2>1, WithEndpointType DEF Create, Live
    <2>4. QED
      BY <1>3, <2>2, <2>3 DEF Create, StoreMinUnused, NvsPutMin
  <1>4. ASSUME NEW h \in Handle, NEW id \in 0 .. minUnused, Resume(h, id, "bridged")
        PROVE  TableTypeOK'
    <2> DEFINE e == [id |-> id, parent |-> 0, enabled |-> FALSE,
                     destroyable |-> TRUE, kind |-> "bridged"]
    <2>1. e \in Endpoint
      BY SMT, ConstantsAssumption DEF Endpoint, EndpointId
    <2>2. /\ Live' = Live \cup {h}
          /\ endpoints' \in [Live' -> Endpoint]
      BY <1>4, <2>1, WithEndpointType DEF Resume, Live
    <2>3. QED
      BY <1>4, <2>2 DEF Resume
  <1>5. ASSUME NEW h \in Handle, Destroy(h) PROVE TableTypeOK'
    BY <1>5 DEF Destroy, Live
  <1>6. ASSUME NEW h \in Handle, NEW on \in BOOLEAN, SetEnabled(h, on) PROVE TableTypeOK'
    <2>1. endpoints' \in [Live -> Endpoint] /\ Live' = Live
      BY <1>6 DEF SetEnabled, Live, Endpoint
    <2>2. QED
      BY <1>6, <2>1 DEF SetEnabled
  <1>7. ASSUME NEW h \in Handle, NEW p \in Live, SetParent(h, p) PROVE TableTypeOK'
    <2>1. endpoints' \in [Live -> Endpoint] /\ Live' = Live
      BY <1>7 DEF SetParent, Live, Endpoint
    <2>2. QED
      BY <1>7, <2>1 DEF SetParent
  <1>8. CASE Start
    <2>1. endpoints' \in [Live -> Endpoint] /\ Live' = Live
      BY <1>8 DEF Start, Live, Endpoint
    <2>2. QED
      BY <1>8, <2>1 DEF Start, ReadMinUnused, StoreMinUnused, NvsPutMin
  <1>9. CASE FinishMigration
    BY <1>9 DEF FinishMigration, StoreMinUnused, NvsPutMin, Live
  <1>10. CASE FactoryReset
    BY <1>10 DEF FactoryReset, Live
  <1>11. CASE Reboot
    BY SMT, <1>11, ConstantsAssumption DEF Reboot, Live, EndpointId
  <1>12. QED
    BY <1>1, <1>2, <1>3, <1>4, <1>5, <1>6, <1>7, <1>8, <1>9, <1>10, <1>11
       DEF TableNext, Enable, Disable

\* The list, the counter and the NVS keys keep their types: in particular the
\* 16-bit counter and every id stay 16-bit values.
THEOREM TypeCorrect == TableSpec => []TableTypeOK
  BY InitType, NextType, PTL DEF TableSpec

-----------------------------------------------------------------------------

\* The initial states satisfy the inductive invariant of uniqueness.
LEMMA InitUnique == TableInit => UniqueInv
  <1> SUFFICES ASSUME TableInit PROVE UniqueInv
    OBVIOUS
  <1>1. TableTypeOK
    BY InitType
  <1>2. Live = {} /\ phase = "boot" /\ minUnused = 0 /\ Len(image) \in Nat
    BY ImageLength DEF TableInit, BootState, Live
  <1>3. nvMinOld # NotFound => Len(image) <= nvMinOld
    BY <1>2 DEF TableInit, LegacyFits
  <1>4. QED
    BY SMT, <1>1, <1>2, <1>3 DEF UniqueInv, CounterAbove, UniqueIds, TableInit

\* A list that gains one endpoint whose id is not live keeps its ids distinct
\* and below the counter.
LEMMA AddUnique ==
    ASSUME TableTypeOK, UniqueIds, \A x \in Live : endpoints[x].id < minUnused,
           NEW h \in Free, NEW e \in Endpoint, e.id \notin LiveIds,
           endpoints' = WithEndpoint(h, e),
           minUnused' \in Nat, minUnused <= minUnused', e.id < minUnused'
    PROVE  UniqueIds' /\ (\A x \in Live : endpoints[x].id < minUnused)'
  <1>1. h \in Handle /\ h \notin Live
    BY DEF Free
  <1>2. /\ Live' = Live \cup {h}
        /\ endpoints'[h] = e
        /\ \A x \in Live : endpoints'[x] = endpoints[x]
    BY SMT, <1>1, WithEndpointType DEF TableTypeOK, Live
  <1>3. \A x \in Live : endpoints[x].id \in LiveIds /\ endpoints[x].id \in Nat
    BY SMT DEF LiveIds, TableTypeOK, Endpoint, EndpointId
  <1>4. minUnused \in Nat /\ e.id \in Nat
    BY SMT DEF TableTypeOK, Endpoint, EndpointId
  <1>5. UniqueIds'
    BY SMT, <1>1, <1>2, <1>3 DEF UniqueIds
  <1>6. (\A x \in Live : endpoints[x].id < minUnused)'
    BY SMT, <1>2, <1>3, <1>4
  <1>7. QED
    BY <1>5, <1>6

\* Every step keeps the inductive invariant, as long as updates do not add
\* endpoints; NVS failures and a lost migration do not matter here.
LEMMA NextUnique ==
    ASSUME NonGrowing
    PROVE  UniqueInv /\ [TableNext]_tableVars => UniqueInv'
  <1> SUFFICES ASSUME UniqueInv, [TableNext]_tableVars PROVE UniqueInv'
    OBVIOUS
  <1> USE IdRange DEF UniqueInv
  <1>t. TableTypeOK'
    BY NextType
  <1>l. /\ Len(image) \in Nat /\ Len(image) <= 255
        /\ minUnused \in EndpointId /\ minUnused \in Nat
        /\ minUnused <= kInvalidEndpointId
        /\ \A h \in Live : endpoints[h].id \in Nat
    BY SMT, ImageLength DEF TableTypeOK, EndpointId, Endpoint
  <1>f. minUnused \notin LiveIds
    BY SMT, <1>l DEF LiveIds, CounterAbove
  <1>1. CASE UNCHANGED tableVars
    BY <1>1, <1>t DEF tableVars, CounterAbove, UniqueIds, Live
  <1>2. ASSUME NEW h \in Handle, CreateStatic(h) PROVE UniqueInv'
    <2> DEFINE e == [id |-> minUnused, parent |-> kInvalidEndpointId, enabled |-> TRUE,
                     destroyable |-> FALSE, kind |-> image[minUnused + 1]]
    <2>1. minUnused' = minUnused + 1 /\ minUnused' <= Len(image)
      BY SMT, <1>2, <1>l, NextIdRange DEF CreateStatic
    <2>2. e \in Endpoint
      <3>1. image \in Seq(Kinds) /\ minUnused + 1 \in 1 .. Len(image)
        BY SMT, <1>2, <1>l, ConstantsAssumption DEF CreateStatic, TableTypeOK
      <3>2. QED
        BY SMT, <3>1, <1>l DEF Endpoint
    <2>3. endpoints' = WithEndpoint(h, e) /\ h \in Free
      BY <1>2 DEF CreateStatic
    <2>4. UniqueIds' /\ (\A x \in Live : endpoints[x].id < minUnused)'
      <3>1. e.id = minUnused
        OBVIOUS
      <3> HIDE DEF e
      <3>2. minUnused <= minUnused' /\ minUnused' \in Nat /\ e.id < minUnused'
        BY SMT, <2>1, <3>1, <1>l
      <3>3. QED
        BY <2>2, <2>3, <3>1, <3>2, <1>f, AddUnique DEF CounterAbove
    <2>5. QED
      BY <1>2, <1>t, <2>1, <2>4 DEF CreateStatic, CounterAbove
  <1>3. ASSUME NEW h \in Handle, Create(h, "bridged") PROVE UniqueInv'
    <2> DEFINE e == [id |-> minUnused, parent |-> kInvalidEndpointId, enabled |-> TRUE,
                     destroyable |-> TRUE, kind |-> "bridged"]
    <2>1. minUnused' = minUnused + 1
      BY SMT, <1>3, <1>l, NextIdRange, ConstantsAssumption DEF Create
    <2>2. e \in Endpoint
      BY <1>l DEF Endpoint
    <2>3. endpoints' = WithEndpoint(h, e) /\ h \in Free
      BY <1>3 DEF Create
    <2>4. UniqueIds' /\ (\A x \in Live : endpoints[x].id < minUnused)'
      <3>1. e.id = minUnused
        OBVIOUS
      <3> HIDE DEF e
      <3>2. minUnused <= minUnused' /\ minUnused' \in Nat /\ e.id < minUnused'
        BY SMT, <2>1, <3>1, <1>l
      <3>3. QED
        BY <2>2, <2>3, <3>1, <3>2, <1>f, AddUnique DEF CounterAbove
    <2>5. nvMin' = minUnused' \/ nvMin' = nvMin
      BY <1>3 DEF Create, StoreMinUnused, NvsPutMin
    <2>6. image' = image /\ phase = "up" /\ phase' = "up" /\ nvMinOld' = nvMinOld
      BY <1>3 DEF Create
    <2>7. Len(image') <= minUnused'
      BY SMT, <1>l, <2>1, <2>6 DEF CounterAbove
    <2>8. QED
      BY <1>t, <2>4, <2>5, <2>6, <2>7 DEF CounterAbove
  <1>4. ASSUME NEW h \in Handle, NEW id \in 0 .. minUnused, Resume(h, id, "bridged")
        PROVE  UniqueInv'
    <2> DEFINE e == [id |-> id, parent |-> 0, enabled |-> FALSE,
                     destroyable |-> TRUE, kind |-> "bridged"]
    <2>1. e \in Endpoint
      BY SMT, <1>l DEF Endpoint, EndpointId, TableTypeOK
    <2>2. endpoints' = WithEndpoint(h, e) /\ h \in Free /\ minUnused' = minUnused
      BY <1>4 DEF Resume
    <2>3. e.id \notin LiveIds /\ e.id < minUnused'
      BY <1>4, <2>2 DEF Resume, CanResume
    <2>4. UniqueIds' /\ (\A x \in Live : endpoints[x].id < minUnused)'
      <3> HIDE DEF e
      <3>1. QED
        BY SMT, <2>1, <2>2, <2>3, <1>l, AddUnique DEF CounterAbove
    <2>5. QED
      BY <1>4, <1>t, <2>4 DEF Resume, CounterAbove
  <1>5. ASSUME NEW h \in Handle, Destroy(h) PROVE UniqueInv'
    BY <1>5, <1>t DEF Destroy, CounterAbove, UniqueIds, Live
  <1>6. ASSUME NEW h \in Handle, NEW on \in BOOLEAN, SetEnabled(h, on) PROVE UniqueInv'
    <2>1. Live' = Live /\ \A x \in Live : endpoints'[x].id = endpoints[x].id
      BY <1>6 DEF SetEnabled, Live, TableTypeOK, Endpoint
    <2>2. QED
      BY SMT, <1>6, <1>t, <2>1 DEF SetEnabled, CounterAbove, UniqueIds
  <1>7. ASSUME NEW h \in Handle, NEW p \in Live, SetParent(h, p) PROVE UniqueInv'
    <2>1. Live' = Live /\ \A x \in Live : endpoints'[x].id = endpoints[x].id
      BY <1>7 DEF SetParent, Live, TableTypeOK, Endpoint
    <2>2. QED
      BY SMT, <1>7, <1>t, <2>1 DEF SetParent, CounterAbove, UniqueIds
  <1>8. CASE Start
    <2>1. Live' = Live /\ \A x \in Live : endpoints'[x].id = endpoints[x].id
      BY <1>8 DEF Start, Live, TableTypeOK, Endpoint
    <2>2. Len(image) <= minUnused' /\ minUnused <= minUnused' /\ minUnused' \in Nat
      BY <1>8, <1>l, <1>t DEF Start, ReadMinUnused, CounterAbove, TableTypeOK, EndpointId
    <2>3. /\ nvMin' # NotFound => Len(image) <= nvMin'
          /\ nvMinOld' # NotFound => Len(image) <= nvMinOld'
      BY <1>8, <1>l DEF Start, ReadMinUnused, StoreMinUnused, NvsPutMin, CounterAbove
    <2>4. image' = image /\ phase' # "boot"
      BY <1>8 DEF Start, ReadMinUnused
    <2>5. \A x \in Live : endpoints[x].id < minUnused'
      BY SMT, <2>2, <1>l DEF CounterAbove
    <2>6. QED
      BY SMT, <1>t, <2>1, <2>2, <2>3, <2>4, <2>5 DEF CounterAbove, UniqueIds
  <1>9. CASE FinishMigration
    BY <1>9, <1>t DEF FinishMigration, StoreMinUnused, NvsPutMin, CounterAbove, UniqueIds, Live
  <1>10. CASE FactoryReset
    BY <1>10, <1>t DEF FactoryReset, CounterAbove, UniqueIds, Live
  <1>11. CASE Reboot
    <2>1. image' \in Images /\ Len(image') \in Nat /\ Len(image') <= Len(image)
      BY SMT, <1>11, <1>t, <1>l, ImageLength, ConstantsAssumption DEF Reboot, NonGrowing, TableTypeOK
    <2>2. Live' = {} /\ phase' = "boot" /\ minUnused' = 0 /\ nvMin' = nvMin /\ nvMinOld' = nvMinOld
      BY <1>11 DEF Reboot, Live
    <2>3. QED
      <3>1. /\ nvMin' # NotFound => Len(image') <= nvMin'
            /\ nvMinOld' # NotFound => Len(image') <= nvMinOld'
        BY SMT, <1>l, <2>1, <2>2 DEF CounterAbove, TableTypeOK
      <3>2. QED
        BY SMT, <1>t, <2>1, <2>2, <3>1 DEF CounterAbove, UniqueIds
  <1>12. QED
    BY <1>1, <1>2, <1>3, <1>4, <1>5, <1>6, <1>7, <1>8, <1>9, <1>10, <1>11
       DEF TableNext, Enable, Disable

\* endpoint ids are unique at all times, through any number of creations,
\* resumptions, removals, resets, power losses and NVS failures, provided no
\* firmware update adds an endpoint to those created before start().
THEOREM IdsUnique ==
    ASSUME NonGrowing
    PROVE  TableSpec => []UniqueIds
  <1>1. TableInit => UniqueInv
    BY InitUnique
  <1>2. UniqueInv /\ [TableNext]_tableVars => UniqueInv'
    BY NextUnique
  <1>3. UniqueInv => UniqueIds
    BY DEF UniqueInv
  <1>4. QED
    BY <1>1, <1>2, <1>3, PTL DEF TableSpec

-----------------------------------------------------------------------------

\* NVS reads and writes succeed, and no earlier firmware left its counter elsewhere.
ReliableNvs == Faults = {} /\ LegacyMin = {NotFound}

\* Once started, the counter in NVS is the one in RAM, unless a factory reset
\* has just erased it (and with it the history of issued ids).
ReservedInv ==
    /\ UniqueInv
    /\ nvMinOld = NotFound
    /\ phase # "migrate"
    /\ IdsStayReserved
    /\ phase = "up" /\ nvMin # NotFound => nvMin = minUnused

\* The initial states satisfy it: nothing was issued yet.
LEMMA InitReserved ==
    ASSUME ReliableNvs
    PROVE  TableInit => ReservedInv
  <1> SUFFICES ASSUME TableInit PROVE ReservedInv
    OBVIOUS
  <1>1. UniqueInv
    BY InitUnique
  <1>2. nvMinOld = NotFound /\ issued = {} /\ phase = "boot"
    BY DEF TableInit, BootState, ReliableNvs
  <1>3. QED
    BY <1>1, <1>2 DEF ReservedInv, IdsStayReserved

\* Every step keeps it: create writes the incremented counter before anything
\* else can be asked of the node.
LEMMA NextReserved ==
    ASSUME NonGrowing, ReliableNvs
    PROVE  ReservedInv /\ [TableNext]_tableVars => ReservedInv'
  <1> SUFFICES ASSUME ReservedInv, [TableNext]_tableVars PROVE ReservedInv'
    OBVIOUS
  <1> USE DEF ReservedInv
  <1>u. UniqueInv'
    BY NextUnique
  <1>1. CASE UNCHANGED tableVars
    BY <1>1, <1>u DEF tableVars, IdsStayReserved
  <1>2. ASSUME NEW h \in Handle, CreateStatic(h) PROVE ReservedInv'
    BY <1>2, <1>u DEF CreateStatic, IdsStayReserved
  <1>3. ASSUME NEW h \in Handle, Create(h, "bridged") PROVE ReservedInv'
    <2>1. /\ minUnused \in EndpointId /\ minUnused < kInvalidEndpointId
          /\ issued \subseteq EndpointId
      BY SMT, <1>3, IdRange, ConstantsAssumption DEF Create, UniqueInv, TableTypeOK
    <2>2. minUnused' = minUnused + 1 /\ minUnused' \in EndpointId
      BY <1>3, <2>1, NextIdRange DEF Create
    <2>3. nvMin' = minUnused' /\ issued' = issued \cup {minUnused}
      BY <1>3 DEF Create, StoreMinUnused, NvsPutMin, ReliableNvs
    <2>4. NotFound \notin EndpointId
      BY IdRange, ConstantsAssumption
    <2>5. \A id \in issued : id < minUnused
      BY <1>3 DEF Create, IdsStayReserved
    <2>6. \A id \in issued' : id < nvMin'
      BY SMT, <2>1, <2>2, <2>3, <2>5, IdRange
    <2>7. IdsStayReserved'
      BY <2>2, <2>3, <2>4, <2>6 DEF IdsStayReserved
    <2>8. QED
      BY <1>3, <1>u, <2>3, <2>7 DEF Create
  <1>4. ASSUME NEW h \in Handle, NEW id \in 0 .. minUnused, Resume(h, id, "bridged")
        PROVE  ReservedInv'
    BY <1>4, <1>u DEF Resume, IdsStayReserved
  <1>5. ASSUME NEW h \in Handle, Destroy(h) PROVE ReservedInv'
    BY <1>5, <1>u DEF Destroy, IdsStayReserved
  <1>6. ASSUME NEW h \in Handle, NEW on \in BOOLEAN, SetEnabled(h, on) PROVE ReservedInv'
    BY <1>6, <1>u DEF SetEnabled, IdsStayReserved
  <1>7. ASSUME NEW h \in Handle, NEW p \in Live, SetParent(h, p) PROVE ReservedInv'
    BY <1>7, <1>u DEF SetParent, IdsStayReserved
  <1>8. CASE Start
    <2>1. CASE nvMin # NotFound
      BY <1>8, <1>u, <2>1 DEF Start, ReadMinUnused, IdsStayReserved, ReliableNvs
    <2>2. CASE nvMin = NotFound
      <3>1. issued' = {}
        BY <1>8, <2>2 DEF Start, IdsStayReserved
      <3>2. phase' = "up" /\ nvMin' = minUnused' /\ nvMinOld' = NotFound
        BY <1>8, <2>2 DEF Start, ReadMinUnused, StoreMinUnused, NvsPutMin, ReliableNvs
      <3>3. QED
        BY <1>u, <3>1, <3>2 DEF IdsStayReserved
    <2>3. QED
      BY <2>1, <2>2
  <1>9. CASE FinishMigration
    BY <1>9 DEF FinishMigration
  <1>10. CASE FactoryReset
    BY <1>10, <1>u DEF FactoryReset, IdsStayReserved
  <1>11. CASE Reboot
    BY <1>11, <1>u DEF Reboot, IdsStayReserved
  <1>12. QED
    BY <1>1, <1>2, <1>3, <1>4, <1>5, <1>6, <1>7, <1>8, <1>9, <1>10, <1>11
       DEF TableNext, Enable, Disable

\* Whenever the power fails, the counter kept in NVS lies above every id that
\* endpoint::create has given out since the last factory reset.
THEOREM IdsReserved ==
    ASSUME NonGrowing, ReliableNvs
    PROVE  TableSpec => []IdsStayReserved
  <1>1. TableInit => ReservedInv
    BY InitReserved
  <1>2. ReservedInv /\ [TableNext]_tableVars => ReservedInv'
    BY NextReserved
  <1>3. ReservedInv => IdsStayReserved
    BY DEF ReservedInv
  <1>4. QED
    BY <1>1, <1>2, <1>3, PTL DEF TableSpec

\* A step that moves the counter of a started node is a create, and the id it
\* takes is neither issued nor live.
LEMMA StepTakesFreshId ==
    ReservedInv /\ [TableNext]_tableVars => [TakesFreshId]_tableVars
  <1> SUFFICES ASSUME ReservedInv, TableNext,
                      phase = "up", phase' = "up", minUnused' # minUnused
               PROVE  minUnused \notin issued /\ minUnused \notin LiveIds
    BY DEF TakesFreshId
  <1>1. minUnused \in Nat /\ issued \subseteq Nat /\ \A h \in Live : endpoints[h].id \in Nat
    BY IdRange DEF ReservedInv, UniqueInv, TableTypeOK, Endpoint
  <1>2. minUnused \notin LiveIds
    BY SMT, <1>1 DEF ReservedInv, UniqueInv, CounterAbove, LiveIds
  <1>3. \A id \in issued : id < minUnused
    BY DEF ReservedInv, IdsStayReserved
  <1>4. QED
    BY SMT, <1>1, <1>2, <1>3

\* endpoint::create never gives out an id twice between two factory resets,
\* across any number of reboots and power losses.
THEOREM NeverReissued ==
    ASSUME NonGrowing, ReliableNvs
    PROVE  TableSpec => IdsNeverReissued
  <1>1. TableInit => ReservedInv
    BY InitReserved
  <1>2. ReservedInv /\ [TableNext]_tableVars => ReservedInv'
    BY NextReserved
  <1>3. ReservedInv /\ [TableNext]_tableVars => [TakesFreshId]_tableVars
    BY StepTakesFreshId
  <1>4. QED
    BY <1>1, <1>2, <1>3, PTL DEF TableSpec, IdsNeverReissued

=============================================================================
