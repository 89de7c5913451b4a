-------------------------- MODULE ConsoleLimit_proofs -------------------------
(***************************************************************************)
(* The proof that the endpoints of the bridge stay within the limit that   *)
(* MAX_BRIDGED_DEVICE_COUNT is made from.  It counts, so it needs the      *)
(* theorems about finite sets; the other proofs do not.                    *)
(***************************************************************************)
EXTENDS ConsoleBridge_proofs, FiniteSetTheorems

\* The leaves are for Zenon; those that need arithmetic cite SMT.
USE Zenon

\* The count MAX_BRIDGED_DEVICE_COUNT is made from: an image declares at most the
\* root endpoint and the aggregators it is configured for.
StaticsFit == \A img \in Images : Len(img) <= 1 + AggregatorCount

BridgedStored == \A h \in Bridged : endpoints[h].id \in StoredIds

LimitInv == IsFiniteSet(Live) /\ WithinLimit

\* The array has no more ids than slots.
LEMMA StoredCount ==
    ASSUME BridgeTypeOK
    PROVE  /\ IsFiniteSet(StoredIds)
           /\ StoredIds # {} => MaxBridged \in Nat /\ Cardinality(StoredIds) <= MaxBridged
  <1>1. CASE nvArray = NotFound
    BY <1>1, FS_EmptySet DEF StoredIds
  <1>2. CASE nvArray # NotFound
    <2> DEFINE Held == {nvArray[s] : s \in Slots}
    <2>1. nvArray \in [Slots -> EndpointId] /\ StoredIds = Held \ {kInvalidEndpointId}
      BY <1>2 DEF BridgeTypeOK, StoredIds, Stored
    <2>2. MaxBridged \in Int
      BY SMT, ConstantsAssumption, BridgeAssumption DEF MaxBridged
    <2>3. /\ IsFiniteSet(Slots)
          /\ Cardinality(Slots) = IF 1 > MaxBridged THEN 0 ELSE MaxBridged - 1 + 1
      BY SMT, <2>2, FS_Interval DEF Slots
    <2>4. nvArray \in Surjection(Slots, Held)
      BY <2>1 DEF Surjection
    <2>5. IsFiniteSet(Held) /\ Cardinality(Held) <= Cardinality(Slots)
      BY <2>3, <2>4, FS_Surjection
    <2>6. StoredIds \in SUBSET Held
      BY <2>1
    <2>7. IsFiniteSet(StoredIds) /\ Cardinality(StoredIds) <= Cardinality(Held)
      BY <2>5, <2>6, FS_Subset
    <2>8. ASSUME StoredIds # {} PROVE MaxBridged >= 1
      BY SMT, <2>1, <2>2, <2>8 DEF Slots
    <2>9. /\ Cardinality(StoredIds) \in Nat /\ Cardinality(Held) \in Nat
          /\ Cardinality(Slots) \in Nat
      BY <2>3, <2>5, <2>7, FS_CardinalityType
    <2> HIDE DEF Held
    <2>10. QED
      BY SMT, <2>2, <2>3, <2>5, <2>7, <2>8, <2>9
  <1>3. QED
    BY <1>1, <1>2

\* While every bridged endpoint has its slot, the endpoints of the image and the
\* slots together are within the limit.
LEMMA StoredFit ==
    ASSUME StaticsFit
    PROVE  TableTypeOK /\ BridgeTypeOK /\ StaticInv /\ UniqueIds /\ BridgedStored
              /\ StoredIds # {} => LimitInv
  <1> SUFFICES ASSUME TableTypeOK, BridgeTypeOK, StaticInv, UniqueIds, BridgedStored, StoredIds # {}
               PROVE  LimitInv
    OBVIOUS
  <1> DEFINE n == Len(image)
             Statics == 0 .. (n - 1)
             Id == [h \in Live |-> endpoints[h].id]
  <1>1. n \in Nat /\ n <= 1 + AggregatorCount
    BY ImageLength DEF TableTypeOK, StaticsFit
  <1>2. IsFiniteSet(Statics) /\ Cardinality(Statics) = n
    <2>1. 0 \in Int /\ n - 1 \in Int
      BY SMT, <1>1
    <2>2. IsFiniteSet(Statics) /\ Cardinality(Statics) = IF 0 > n - 1 THEN 0 ELSE (n - 1) - 0 + 1
      BY <2>1, FS_Interval
    <2>3. QED
      BY SMT, <1>1, <2>2
  <1>3. IsFiniteSet(StoredIds) /\ MaxBridged \in Nat /\ Cardinality(StoredIds) <= MaxBridged
    BY StoredCount
  <1>4. /\ IsFiniteSet(Statics \cup StoredIds)
        /\ Cardinality(Statics \cup StoredIds)
              = Cardinality(Statics) + Cardinality(StoredIds) - Cardinality(Statics \cap StoredIds)
    BY <1>2, <1>3, FS_Union
  <1>5. Cardinality(Statics \cap StoredIds) \in Nat /\ Cardinality(StoredIds) \in Nat
    <2>1. IsFiniteSet(Statics \cap StoredIds)
      BY <1>2, <1>3, FS_Intersection
    <2>2. QED
      BY <1>3, <2>1, FS_CardinalityType
  <1>6. \A h \in Live : endpoints[h].id \in Statics \cup StoredIds
    <2>1. \A h \in Live : endpoints[h].id \in Nat
      BY IdRange DEF TableTypeOK, Endpoint
    <2>2. \A h \in Live \ Bridged : endpoints[h].id < n
      BY DEF StaticInv
    <2>3. QED
      BY SMT, <1>1, <2>1, <2>2 DEF BridgedStored
  <1>7. Id \in Injection(Live, Statics \cup StoredIds)
    BY <1>6 DEF Injection, IsInjective, UniqueIds
  <1> HIDE DEF Id, Statics, n
  <1>8. IsFiniteSet(Live) /\ Cardinality(Live) <= Cardinality(Statics \cup StoredIds)
    BY <1>4, <1>7, FS_Injection
  <1>9. MaxBridged = MaxEndpoints - 1 - AggregatorCount /\ MaxEndpoints \in Nat /\ AggregatorCount \in Nat
    BY ConstantsAssumption, BridgeAssumption DEF MaxBridged
  <1>10. Cardinality(Live) \in Nat
    BY SMT, <1>8, FS_CardinalityType
  <1>11. Cardinality(Live) <= MaxEndpoints
    BY SMT, <1>1, <1>2, <1>3, <1>4, <1>5, <1>8, <1>9, <1>10
  <1>12. QED
    BY SMT, <1>8, <1>11 DEF LimitInv, WithinLimit

\* A step that adds no endpoint, or one while there is room for it, keeps the limit.
LEMMA LimitKept ==
    ASSUME LimitInv,
           \/ Live' \subseteq Live
           \/ Cardinality(Live) < MaxEndpoints /\ \E h \in Handle : Live' = Live \cup {h}
    PROVE  LimitInv'
  <1> USE DEF LimitInv, WithinLimit
  <1>m. MaxEndpoints \in Nat /\ Cardinality(Live) \in Nat
    BY ConstantsAssumption, FS_CardinalityType
  <1>1. CASE Live' \subseteq Live
    <2>1. IsFiniteSet(Live') /\ Cardinality(Live') <= Cardinality(Live)
      BY <1>1, FS_Subset
    <2>2. Cardinality(Live') \in Nat
      BY <2>1, FS_CardinalityType
    <2>3. QED
      BY SMT, <1>m, <2>1, <2>2
  <1>2. ASSUME NEW h \in Handle, Cardinality(Live) < MaxEndpoints, Live' = Live \cup {h}
        PROVE  LimitInv'
    <2>1. /\ IsFiniteSet(Live \cup {h})
          /\ Cardinality(Live \cup {h}) = IF h \in Live THEN Cardinality(Live) ELSE Cardinality(Live) + 1
      BY FS_AddElement
    <2>2. QED
      BY SMT, <1>m, <1>2, <2>1
  <1>3. QED
    BY <1>1, <1>2

\* Every step keeps the limit: create checks it, and what resume adds has a slot.
LEMMA NextLimit ==
    ASSUME NonGrowing, ReliableNvs, StaticsFit
    PROVE  BaseInv /\ BridgeInv /\ LimitInv /\ [Next]_vars => LimitInv'
  <1>f. (TableTypeOK /\ BridgeTypeOK /\ StaticInv /\ UniqueIds /\ BridgedStored
           /\ StoredIds # {} => LimitInv)'
    BY StoredFit, PTL
  <1> SUFFICES ASSUME BaseInv, BridgeInv, LimitInv, [Next]_vars PROVE LimitInv'
    OBVIOUS
  <1>t. TableTypeOK
    BY DEF BaseInv, ConsoleTypeOK
  <1>s. Live' \subseteq Live => LimitInv'
    BY LimitKept
  <1>1. CASE UNCHANGED tableVars
    BY <1>1, <1>s, SameTable
  <1>2. CASE NodeBoot
    <2>1. ASSUME NEW h \in Handle, CreateStatic(h) PROVE LimitInv'
      <3>1. Live' = Live \cup {h} /\ Cardinality(Live) < MaxEndpoints
        BY SMT, <2>1 DEF CreateStatic, WithEndpoint, Live
      <3>2. QED
        BY <3>1, LimitKept
    <2>2. CASE Start \/ FinishMigration
      BY <1>s, <2>2 DEF Start, FinishMigration, Live
    <2>3. QED
      BY <1>2, <2>1, <2>2 DEF NodeBoot
  <1>3. CASE ResumeEndpoint /\ ~UNCHANGED tableVars
    <2>1. PICK h \in Handle : pc = "r_endpoint" /\ Resume(h, cur.id, "bridged") /\ nvArray' = nvArray
      BY <1>3 DEF ResumeEndpoint, nvBridge
    <2>2. cur.h = NoHandle /\ cur.id \in EndpointId /\ ~ready
      BY SMT, <2>1, CurFacts DEF BridgeInv, ControlInv
    <2>3. /\ Bridged' = Bridged \cup {h} /\ endpoints'[h].id = cur.id
          /\ \A x \in Live : endpoints'[x] = endpoints[x]
      BY <1>t, <2>1, <2>2, Resumed
    <2>4. StoredIds' = StoredIds /\ cur.id \in StoredIds
      BY <2>1, SameStored DEF BridgeInv, CurInv
    <2>5. \A x \in Bridged : x \in Live /\ x # cur.h
      BY <1>t, <2>2, BridgeAssumption DEF Bridged, TableTypeOK
    <2>6. \A x \in Bridged : endpoints[x].id \in StoredIds
      BY <2>2, <2>5 DEF BridgeInv, ListedInv
    <2>7. BridgedStored'
      BY <2>3, <2>4, <2>5, <2>6 DEF BridgedStored
    <2>8. TableTypeOK' /\ BridgeTypeOK' /\ StaticInv' /\ UniqueIds'
      <3>1. BaseInv'
        BY BaseKept
      <3>2. QED
        BY <3>1 DEF BaseInv, ConsoleTypeOK, ReservedInv, UniqueInv
    <2>9. QED
      BY <1>f, <2>4, <2>7, <2>8
  <1>4. CASE SetTypeOnCreate \/ SetTypeOnResume
    BY <1>4, <1>s, SameTable DEF SetTypeOnCreate, SetTypeOnResume, SetParent, Live
  <1>5. CASE DestroyEndpoint
    <2>1. Live' \subseteq Live
      BY <1>5 DEF DestroyEndpoint, Destroy, Live
    <2>2. QED
      BY <1>s, <2>1
  <1>6. CASE Return
    BY <1>6, <1>s, SameTable DEF Return, Enable, SetEnabled, Live
  <1>7. CASE AddDevice
    <2>1. PICK h \in Handle : Create(h, "bridged")
      BY <1>7 DEF AddDevice, BeginCreate
    <2>2. Live' = Live \cup {h} /\ Cardinality(Live) < MaxEndpoints
      BY SMT, <1>t, <2>1, Created DEF Create
    <2>3. QED
      BY <2>2, LimitKept
  <1>8. CASE ResetNode
    BY <1>8, <1>s DEF ResetNode, MatterReset, FactoryReset, Live
  <1>9. CASE Restart
    <2>1. Live' = {}
      BY <1>9 DEF Restart, BridgeReboot, Reboot, Live
    <2>2. QED
      BY <1>s, <2>1
  <1>10. CASE ResumeNext
    <2>1. UNCHANGED tableVars
      BY <1>10 DEF ResumeNext, ReadInfo, MigrateInfo
    <2>2. QED
      BY <1>1, <2>1
  <1>11. CASE Initialize \/ FinishArrayMigration \/ StoreInfo \/ AddToArray \/ EraseFromArray
                \/ EraseInfo \/ FinishInfoMigration
    BY <1>1, <1>11 DEF Initialize, FinishArrayMigration, StoreInfo, AddToArray, EraseFromArray,
                       EraseInfo, FinishInfoMigration
  <1>12. CASE CopyArray \/ InitFailed \/ LoopDone \/ RemoveDevice \/ ResetBridge \/ StoreAttributes
    BY <1>1, <1>12 DEF CopyArray, InitFailed, LoopDone, RemoveDevice, BeginRemove, ResetBridge,
                       BridgeReset, StoreAttributes, StoreAttribute
  <1>13. CASE UNCHANGED vars
    BY <1>1, <1>13 DEF vars
  <1>14. QED
    BY SMT, <1>1, <1>2, <1>3, <1>4, <1>5, <1>6, <1>7, <1>8, <1>9, <1>10, <1>11, <1>12, <1>13
       DEF Next, LibraryStep

\* The node never holds more endpoints than the configured maximum, although
\* endpoint::resume does not check it: every device it resumes has one of the slots
\* that are left over by the endpoints of the image.
THEOREM NodeWithinLimit ==
    ASSUME NonGrowing, ReliableNvs, AggregatorsStay, StaticsFit
    PROVE  Spec => []WithinLimit
  <1>1. Init => LimitInv
    <2>1. SUFFICES ASSUME Init PROVE LimitInv
      OBVIOUS
    <2>2. Live = {}
      BY <2>1 DEF Init, TableInit, BootState, Live
    <2>3. QED
      BY SMT, <2>2, FS_EmptySet, ConstantsAssumption DEF LimitInv, WithinLimit
  <1>2. LimitInv => WithinLimit
    BY DEF LimitInv
  <1>3. QED
    BY <1>1, <1>2, BaseKept, InitBridge, NextBridge, NextLimit, PTL DEF Spec

=============================================================================
