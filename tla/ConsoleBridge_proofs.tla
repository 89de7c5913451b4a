------------------------ MODULE ConsoleBridge_proofs ------------------------
(***************************************************************************)
(* Proofs about the bridge as the console drives it: every step is a step  *)
(* of the endpoint list (so what is proved of TableSpec holds here too),   *)
(* and the records in NVS stay consistent wherever the power fails.        *)
(***************************************************************************)
EXTENDS ConsoleBridge, Bridge_proofs

\* The leaves are for Zenon; those that need arithmetic cite SMT.
USE Zenon

\* Every step of the console and the bridge is a step of the endpoint list, or
\* leaves the list alone.
LEMMA TableStep == ConsoleTypeOK /\ [Next]_vars => [TableNext]_tableVars
  <1> SUFFICES ASSUME ConsoleTypeOK, [Next]_vars, ~UNCHANGED tableVars
               PROVE  TableNext
    OBVIOUS
  <1> USE DEF ConsoleTypeOK
  <1>1. ASSUME NEW h \in Handle, NEW g \in Live, h \in Live, endpoints[h].kind = "bridged",
               endpoints[g].kind = "aggregator", SetParent(h, g)
        PROVE  TableNext
    BY <1>1 DEF TableNext
  <1>2. CASE UNCHANGED vars
    BY <1>2 DEF vars, tableVars
  <1>3. CASE NodeBoot
    BY <1>3 DEF NodeBoot, TableNext
  <1>4. CASE SetTypeOnCreate
    <2>1. cur.h \in Live /\ cur.h \in Handle /\ endpoints[cur.h].kind = "bridged"
      BY <1>4 DEF SetTypeOnCreate, BridgeTypeOK, CurOK, TableTypeOK
    <2>2. PICK g \in Live : IsAggregator(g, cur.info.parent) /\ SetParent(cur.h, g)
      BY <1>4 DEF SetTypeOnCreate
    <2>3. QED
      BY <1>1, <2>1, <2>2 DEF IsAggregator
  <1>5. CASE SetTypeOnResume
    <2>1. cur.h \in Live /\ cur.h \in Handle /\ endpoints[cur.h].kind = "bridged"
      BY <1>5 DEF SetTypeOnResume, BridgeTypeOK, CurOK, TableTypeOK
    <2>2. PICK g \in Live : IsAggregator(g, cur.info.parent) /\ SetParent(cur.h, g)
      BY <1>5 DEF SetTypeOnResume
    <2>3. QED
      BY <1>1, <2>1, <2>2 DEF IsAggregator
  <1>6. CASE DestroyEndpoint
    BY <1>6 DEF DestroyEndpoint, TableNext, BridgeTypeOK, CurOK, TableTypeOK
  <1>7. CASE ResumeEndpoint
    <2>1. PICK h \in Handle : Resume(h, cur.id, "bridged")
      BY <1>7 DEF ResumeEndpoint
    <2>2. cur.id \in 0 .. minUnused
      BY SMT, <2>1, IdRange DEF Resume, CanResume, BridgeTypeOK, CurOK, TableTypeOK, EndpointId
    <2>3. QED
      BY <2>1, <2>2 DEF TableNext
  <1>8. CASE Return
    <2>1. cur.h # NoHandle /\ Enable(cur.h)
      BY <1>8 DEF Return
    <2>2. cur.h \in Handle
      BY <2>1 DEF BridgeTypeOK, CurOK
    <2>3. QED
      BY <2>1, <2>2 DEF TableNext
  <1>9. CASE AddDevice
    BY <1>9 DEF AddDevice, BeginCreate, TableNext
  <1>10. CASE ResetNode
    BY <1>10 DEF ResetNode, MatterReset, TableNext
  <1>11. CASE Restart
    BY <1>11 DEF Restart, BridgeReboot, TableNext
  <1>12. CASE LibraryStep
    BY <1>4, <1>5, <1>6, <1>7, <1>12
       DEF LibraryStep, Initialize, FinishArrayMigration, StoreInfo, AddToArray, EraseFromArray,
           EraseInfo, FinishInfoMigration, tableVars
  <1>13. CASE \/ CopyArray \/ InitFailed \/ ResumeNext \/ LoopDone \/ RemoveDevice \/ ResetBridge
              \/ StoreAttributes
    BY <1>13 DEF CopyArray, InitFailed, ResumeNext, ReadInfo, MigrateInfo, LoopDone,
                 RemoveDevice, BeginRemove, ResetBridge, BridgeReset,
                 StoreAttributes, StoreAttribute, tableVars
  <1>14. QED
    BY <1>2, <1>3, <1>8, <1>9, <1>10, <1>11, <1>12, <1>13 DEF Next

-----------------------------------------------------------------------------

\* The initial states are well typed.
LEMMA ConsoleInitType == Init => ConsoleTypeOK
  BY InitType, BridgeInitType, ArrayType DEF Init, ConsoleTypeOK

\* Every step keeps the types, and cur.h, when there is one, a live endpoint.
LEMMA ConsoleNextType == ConsoleTypeOK /\ [Next]_vars => ConsoleTypeOK'
  <1> SUFFICES ASSUME ConsoleTypeOK, [Next]_vars PROVE ConsoleTypeOK'
    OBVIOUS
  <1>t. TableTypeOK'
    BY TableStep, NextType DEF ConsoleTypeOK
  <1>i. NotFound \notin EndpointId /\ kInvalidEndpointId \in EndpointId /\ 0 \in EndpointId
    BY IdRange, ConstantsAssumption
  <1>l. \A h \in Live : endpoints[h].id \in EndpointId
    BY DEF ConsoleTypeOK, TableTypeOK, Endpoint
  <1>k. ASSUME UNCHANGED tableVars PROVE Live' = Live /\ endpoints' = endpoints
    BY <1>k DEF tableVars, Live
  <1>n. cur' = NoDevice /\ pc' \in {"idle", "loop", "off", "ret"} => CurOK'
    BY SMT, <1>i DEF CurOK, NoDevice
  <1> USE DEF ConsoleTypeOK, BridgeTypeOK
  <1>1. CASE UNCHANGED vars
    <2>1. UNCHANGED <<tableVars, bridgeVars, consoleVars>>
      BY <1>1 DEF vars
    <2>2. CurOK'
      BY <2>1 DEF tableVars, bridgeVars, CurOK, Live
    <2>3. QED
      BY <1>t, <2>1, <2>2 DEF bridgeVars, nvBridge, history, consoleVars, OfIds
  <1>2. CASE NodeBoot /\ UNCHANGED consoleVars
    <2>1. UNCHANGED bridgeVars
      BY <1>2 DEF NodeBoot
    <2>2. cur.h # NoHandle => Same(cur.h)
      BY <1>2, Kept DEF NodeBoot, CurOK
    <2>3. QED
      <3>1. CurOK'
        BY <2>1, <2>2 DEF Same, bridgeVars, CurOK
      <3>2. QED
        BY <1>2, <1>t, <2>1, <3>1 DEF bridgeVars, nvBridge, history, consoleVars, OfIds
  <1>3. CASE LibraryStep /\ UNCHANGED consoleVars
    BY <1>3, <1>t, LibraryType DEF consoleVars
  <1>4. CASE CopyArray \/ InitFailed \/ LoopDone
    BY <1>4, <1>t, <1>k DEF CopyArray, InitFailed, LoopDone, nvBridge, history, CurOK, OfIds
  <1>5. CASE ResumeNext
    <2>1. PICK s \in Slots : /\ ReadInfo(todo[s]) \/ MigrateInfo(todo[s])
                             /\ todo' = [todo EXCEPT ![s] = kInvalidEndpointId]
      BY <1>5 DEF ResumeNext
    <2>2. todo' \in [Slots -> EndpointId] /\ todo[s] \in EndpointId
      BY <1>i, <2>1
    <2>3. UNCHANGED <<tableVars, idArray, nvArray, nvArrayOld, nvInfo, nvAttrs, history, ready, devices>>
      BY <1>5, <2>1 DEF ResumeNext, ReadInfo, MigrateInfo, nvBridge
    <2>4. OfIds(nvInfoOld', Info)
      BY <2>1, DelType DEF ReadInfo, MigrateInfo, nvBridge
    <2>5. CurOK'
      <3>1. ASSUME NEW f, OfIds(f, Info), todo[s] \in DOMAIN f,
                   cur' = [op |-> "resume", h |-> NoHandle, id |-> todo[s], info |-> f[todo[s]]],
                   pc' \in {"m_info", "r_endpoint"}
            PROVE  CurOK'
        <4>1. f[todo[s]] \in Info
          BY <3>1 DEF OfIds
        <4>2. QED
          BY <2>2, <3>1, <4>1 DEF CurOK
      <3>2. QED
        BY <1>n, <2>1, <3>1 DEF ReadInfo, MigrateInfo
    <2>6. QED
      BY <1>t, <2>2, <2>3, <2>4, <2>5 DEF history
  <1>6. CASE Return
    <2>1. CurOK'
      BY <1>6, <1>n DEF Return
    <2>2. devices' \subseteq Handle
      BY <1>6 DEF Return, CurOK
    <2>3. QED
      BY <1>6, <1>t, <2>1, <2>2 DEF Return, nvBridge, history
  <1>7. CASE AddDevice
    <2>1. PICK h \in Handle, p \in LiveIds, t \in Supported[image] : BeginCreate(h, p, t)
      BY <1>7 DEF AddDevice
    <2>2. p \in EndpointId /\ t \in Types
      BY <1>l, BridgeAssumption DEF LiveIds, TableTypeOK
    <2>3. [parent |-> p, type |-> t] \in Info
      BY <2>2 DEF Info
    <2>4. h \in Live' /\ endpoints'[h].kind = "bridged"
      BY <2>1 DEF BeginCreate, Create, WithEndpoint, Live
    <2>5. CurOK'
      BY <1>i, <2>1, <2>3, <2>4, BridgeAssumption DEF BeginCreate, CurOK
    <2>6. QED
      BY <1>7, <1>t, <2>1, <2>5 DEF AddDevice, BeginCreate, nvBridge, history, consoleVars
  <1>8. CASE RemoveDevice
    <2>1. PICK h \in devices : BeginRemove(h)
      BY <1>8 DEF RemoveDevice
    <2>2. h \in Handle /\ h \in Live /\ endpoints[h].kind = "bridged" /\ endpoints[h].id \in EndpointId
      BY <1>l, <2>1 DEF BeginRemove
    <2>3. CurOK'
      BY <1>k, <2>1, <2>2 DEF BeginRemove, CurOK
    <2>4. OfIds(acked', Info)
      BY <2>1, DelType DEF BeginRemove
    <2>5. QED
      BY <1>8, <1>t, <2>1, <2>3, <2>4 DEF RemoveDevice, BeginRemove, nvBridge, consoleVars
  <1>9. CASE ResetBridge
    <2>1. CurOK'
      BY <1>9, <1>k DEF ResetBridge, BridgeReset, CurOK
    <2>2. QED
      BY <1>9, <1>t, <2>1, ArrayType, EmptyType DEF ResetBridge, BridgeReset, consoleVars
  <1>10. CASE ResetNode
    <2>1. cur.h # NoHandle => Same(cur.h)
      BY <1>10, Kept DEF ResetNode, MatterReset, CurOK
    <2>2. CurOK'
      BY <1>10, <2>1 DEF ResetNode, MatterReset, CurOK, Same
    <2>3. QED
      BY <1>10, <1>t, <2>2, EmptyType DEF ResetNode, MatterReset, consoleVars, nvBridge
  <1>11. CASE Restart
    <2>1. CurOK'
      BY <1>11, <1>n DEF Restart, BridgeReboot
    <2>2. QED
      BY <1>11, <1>t, <2>1, ArrayType DEF Restart, BridgeReboot, nvBridge
  <1>12. CASE StoreAttributes /\ UNCHANGED consoleVars
    <2>1. PICK h \in Handle : StoreAttribute(h)
      BY <1>12 DEF StoreAttributes
    <2>2. CurOK'
      BY <1>k, <2>1 DEF StoreAttribute, CurOK
    <2>3. nvAttrs' \subseteq EndpointId /\ late' \subseteq EndpointId
      BY <1>l, <2>1 DEF StoreAttribute
    <2>4. QED
      BY <1>12, <1>t, <2>1, <2>2, <2>3 DEF StoreAttribute, consoleVars, nvBridge
  <1>13. QED
    BY <1>1, <1>2, <1>3, <1>4, <1>5, <1>6, <1>7, <1>8, <1>9, <1>10, <1>11, <1>12 DEF Next

\* The types of ConsoleTypeOK hold in every state of the bridge and its
\* console: the endpoint an operation works on is live whenever it is used,
\* with resets from another task and reboots anywhere.
THEOREM ConsoleTypeCorrect == Spec => []ConsoleTypeOK
  <1>1. QED
    BY ConsoleInitType, ConsoleNextType, PTL DEF Spec

\* The bridge library and the console use the endpoint list only as TableSpec
\* allows: each of their steps is one operation of the list, or none.
THEOREM ConsoleImplementsTable == Spec => TableSpec
  <1>1. Init => TableInit
    BY DEF Init
  <1>2. QED
    BY <1>1, TableStep, ConsoleTypeCorrect, PTL DEF Spec, TableSpec

\* So the bridge never has two live endpoints of one id, whichever NVS writes fail.
THEOREM ConsoleIdsUnique ==
    ASSUME NonGrowing
    PROVE  Spec => []UniqueIds
  BY ConsoleImplementsTable, IdsUnique, PTL

-----------------------------------------------------------------------------

\* Each step of the console and of the node around it keeps ArrayInv.
LEMMA NextArray ==
    ASSUME ReliableNvs, ConsoleTypeOK, ArrayInv, Next
    PROVE  ArrayInv'
  <1> USE DEF ArrayInv
  <1>1. CASE LibraryStep
    BY <1>1, LibraryArray DEF ConsoleTypeOK
  <1>2. CASE NodeBoot \/ CopyArray \/ InitFailed \/ LoopDone \/ Return
    BY <1>2, SameStored DEF NodeBoot, CopyArray, InitFailed, LoopDone, Return,
                            bridgeVars, nvBridge, SameArray
  <1>3. CASE ResumeNext
    <2>1. PICK s \in Slots : ReadInfo(todo[s]) \/ MigrateInfo(todo[s])
      BY <1>3 DEF ResumeNext
    <2>2. QED
      BY <2>1, SameStored DEF ReadInfo, MigrateInfo, nvBridge, SameArray
  <1>4. CASE AddDevice \/ RemoveDevice
    BY <1>4, SameStored DEF AddDevice, RemoveDevice, BeginCreate, BeginRemove, nvBridge, SameArray
  <1>5. CASE ResetBridge
    BY <1>5 DEF ResetBridge, BridgeReset, ReliableNvs, SameArray, StoredIds, Empty
  <1>6. CASE ResetNode \/ Restart
    BY <1>6, SameStored DEF ResetNode, MatterReset, Restart, BridgeReboot, nvBridge, SameArray
  <1>7. CASE StoreAttributes
    BY <1>7, SameStored DEF StoreAttributes, StoreAttribute, nvBridge, SameArray
  <1>8. QED
    BY <1>1, <1>2, <1>3, <1>4, <1>5, <1>6, <1>7 DEF Next

\* Wherever the power fails, and whatever the console or a reset from another
\* task does, an id in the stored array has its info: the order of the NVS
\* writes in create_device and remove_device is right for every number of
\* devices, of device types and of firmware images.
THEOREM CrashConsistent ==
    ASSUME ReliableNvs
    PROVE  Spec => []ArrayHasInfo
  <1>0. Init => ArrayInv
    BY InitArray DEF Init
  <1>1. ArrayInv /\ UNCHANGED vars => ArrayInv'
    <2>1. SUFFICES ASSUME ArrayInv, UNCHANGED vars PROVE ArrayInv'
      OBVIOUS
    <2>2. UNCHANGED <<pc, cur, idArray, nvArray, nvArrayOld, nvInfo, nvInfoOld>>
      BY <2>1 DEF vars, bridgeVars, nvBridge
    <2>3. StoredIds' = StoredIds
      BY <2>2, SameStored
    <2>4. QED
      BY <2>1, <2>2, <2>3 DEF ArrayInv, SameArray
  <1>2. ConsoleTypeOK /\ ArrayInv /\ [Next]_vars => ArrayInv'
    BY <1>1, NextArray
  <1>3. ArrayInv => ArrayHasInfo
    BY DEF ArrayInv, ArrayHasInfo
  <1>4. QED
    BY <1>0, <1>2, <1>3, ConsoleTypeCorrect, PTL DEF Spec

-----------------------------------------------------------------------------
(* No bridged endpoint is left that the console does not hold. *)

\* The bridged endpoints are those of the console's list and the one an
\* operation is working on.  A listed endpoint is gone only between its destruction
\* and the return of the library; it is enabled and below an aggregator, and so is
\* the one a successful operation is about to return.
OrphanInv ==
    /\ phase # "up" => pc = "off"
    /\ pc = "off" => devices = {} /\ Bridged = {}
    /\ pc \in {"off", "m_array", "copy", "loop", "initfail", "idle", "reset", "m_info", "r_endpoint"}
          => cur.h = NoHandle
    /\ Bridged = (devices \cap Live) \cup ({cur.h} \ {NoHandle})
    /\ ~(pc = "ret" /\ cur.h = NoHandle) => devices \subseteq Live
    /\ \A h \in devices \cap Live :
          endpoints[h].enabled /\ endpoints[h].parent \in Aggregators(image)
    /\ pc \in {"c_info", "c_array", "ret"} /\ cur.h # NoHandle
          => endpoints[cur.h].parent \in Aggregators(image)

\* The id of an aggregator of the running node is one the image declares.
LEMMA AggregatorId ==
    ASSUME TableTypeOK, StaticInv, phase # "boot", NEW g \in Live, NEW p, IsAggregator(g, p)
    PROVE  endpoints[g].id \in Aggregators(image)
  <1>1. endpoints[g].id \in EndpointId
    BY DEF TableTypeOK, Endpoint
  <1>2. ParentIsValid(endpoints[g].id)
    BY DEF ParentIsValid, IsAggregator
  <1>3. QED
    BY <1>1, <1>2, ParentByImage DEF ParentsFromImage

\* Each library step keeps OrphanInv, whichever NVS accesses fail.
LEMMA LibraryOrphan ==
    ASSUME ConsoleTypeOK, StaticInv, OrphanInv, LibraryStep, UNCHANGED consoleVars
    PROVE  OrphanInv'
  <1>k. ASSUME UNCHANGED tableVars
        PROVE  Live' = Live /\ Bridged' = Bridged /\ endpoints' = endpoints /\ image' = image /\ phase' = phase
    BY <1>k DEF tableVars, Live, Bridged
  <1>c. cur.h # NoHandle => cur.h \in Handle /\ cur.h \in Bridged
    BY DEF ConsoleTypeOK, BridgeTypeOK, CurOK, Bridged
  <1>d. devices' = devices
    BY DEF consoleVars
  <1>n. NoDevice.h = NoHandle
    BY DEF NoDevice
  <1>t. TableTypeOK
    BY DEF ConsoleTypeOK
  <1>1. CASE Initialize \/ FinishArrayMigration
    <2>1. UNCHANGED <<tableVars, cur>> /\ pc \in {"off", "m_array"} /\ phase = "up"
      BY <1>1 DEF Initialize, FinishArrayMigration, OrphanInv
    <2>2. pc' \in {"m_array", "copy", "initfail"}
      BY <1>1 DEF Initialize, FinishArrayMigration
    <2>3. QED
      BY <1>d, <1>k, <2>1, <2>2 DEF OrphanInv
  <1>2. CASE SetTypeOnCreate
    <2>1. pc = "c_type" /\ cur'.h = cur.h /\ pc' \in {"c_info", "e_array"} /\ cur.h # NoHandle
      BY <1>2 DEF SetTypeOnCreate, ConsoleTypeOK, BridgeTypeOK, CurOK
    <2>2. CASE UNCHANGED tableVars /\ pc' = "e_array"
      BY <1>d, <1>k, <2>1, <2>2 DEF OrphanInv
    <2>3. CASE pc' = "c_info" /\ \E g \in Live : IsAggregator(g, cur.info.parent) /\ SetParent(cur.h, g)
      <3>1. PICK g \in Live : IsAggregator(g, cur.info.parent) /\ SetParent(cur.h, g)
        BY <2>3
      <3>2. /\ Live' = Live /\ Bridged' = Bridged
            /\ endpoints'[cur.h].parent = endpoints[g].id
            /\ endpoints'[cur.h].enabled = endpoints[cur.h].enabled
            /\ \A x \in Live \ {cur.h} : endpoints'[x] = endpoints[x]
            /\ phase = "up" /\ phase' = "up" /\ image' = image
        BY <1>c, <1>t, <2>1, <3>1, Reparented
      <3>3. endpoints[g].id \in Aggregators(image)
        BY <1>t, <3>1, <3>2, AggregatorId
      <3>4. QED
        BY <1>d, <2>1, <2>3, <3>2, <3>3 DEF OrphanInv
    <2>4. QED
      BY <1>2, <2>2, <2>3 DEF SetTypeOnCreate
  <1>3. CASE StoreInfo \/ AddToArray \/ EraseFromArray \/ EraseInfo
    <2>1. UNCHANGED <<tableVars, cur>> /\ pc \in {"c_info", "c_array", "e_array", "e_info"}
      BY <1>3 DEF StoreInfo, AddToArray, EraseFromArray, EraseInfo
    <2>2. \/ pc \in {"c_info", "c_array"} /\ pc' \in {"c_array", "ret", "e_array"}
          \/ pc' \in {"e_info", "destroy"}
          \/ pc' = "ret" /\ cur.h = NoHandle
      BY <1>3 DEF StoreInfo, AddToArray, EraseFromArray, EraseInfo, AfterErase
    <2>3. QED
      BY <1>d, <1>k, <2>1, <2>2 DEF OrphanInv
  <1>4. CASE DestroyEndpoint
    <2>1. pc = "destroy" /\ Destroy(cur.h) /\ cur'.h = NoHandle /\ pc' = "ret" /\ cur.h # NoHandle
      BY <1>4, <1>n DEF DestroyEndpoint, ConsoleTypeOK, BridgeTypeOK, CurOK
    <2>2. /\ Live' = Live \ {cur.h} /\ Bridged' = Bridged \ {cur.h}
          /\ \A x \in Live \ {cur.h} : endpoints'[x] = endpoints[x]
          /\ phase = "up" /\ phase' = phase /\ image' = image
      BY <1>c, <1>t, <2>1, Destroyed
    <2>3. QED
      BY <1>d, <2>1, <2>2 DEF OrphanInv
  <1>5. CASE FinishInfoMigration
    <2>1. UNCHANGED <<tableVars, cur>> /\ pc = "m_info" /\ pc' = "r_endpoint"
      BY <1>5 DEF FinishInfoMigration
    <2>2. QED
      BY <1>d, <1>k, <2>1 DEF OrphanInv
  <1>6. CASE ResumeEndpoint
    <2>1. pc = "r_endpoint" /\ cur.h = NoHandle
      BY <1>6 DEF ResumeEndpoint, OrphanInv
    <2>2. CASE UNCHANGED tableVars /\ pc' \in {"ret", "e_array"} /\ cur'.h = NoHandle
      BY <1>d, <1>k, <2>1, <2>2 DEF OrphanInv
    <2>3. ASSUME NEW h \in Handle, Resume(h, cur.id, "bridged"), cur'.h = h, pc' = "r_type"
          PROVE  OrphanInv'
      <3>1. cur.id \in EndpointId /\ h # NoHandle
        BY BridgeAssumption DEF ConsoleTypeOK, BridgeTypeOK, CurOK
      <3>2. /\ h \notin Live /\ Live' = Live \cup {h} /\ Bridged' = Bridged \cup {h}
            /\ \A x \in Live : endpoints'[x] = endpoints[x]
            /\ phase = "up" /\ phase' = phase /\ image' = image
        BY <1>t, <2>3, <3>1, Resumed
      <3>3. devices \subseteq Live
        BY <2>1 DEF OrphanInv
      <3>4. QED
        BY <1>d, <2>1, <2>3, <3>1, <3>2, <3>3 DEF OrphanInv
    <2>4. cur \in [op : {"none", "create", "remove", "resume"}, h : Handle \cup {NoHandle},
               id : EndpointId, info : Info \cup {NotFound}]
      BY DEF ConsoleTypeOK, BridgeTypeOK, CurOK
    <2>5. QED
      BY <1>6, <1>n, <2>1, <2>2, <2>3, <2>4 DEF ResumeEndpoint
  <1>7. CASE SetTypeOnResume
    <2>1. pc = "r_type" /\ cur' = cur /\ pc' \in {"ret", "e_array"} /\ cur.h # NoHandle
      BY <1>7 DEF SetTypeOnResume, ConsoleTypeOK, BridgeTypeOK, CurOK
    <2>2. CASE UNCHANGED tableVars /\ pc' = "e_array"
      BY <1>d, <1>k, <2>1, <2>2 DEF OrphanInv
    <2>3. CASE pc' = "ret" /\ \E g \in Live : IsAggregator(g, cur.info.parent) /\ SetParent(cur.h, g)
      <3>1. PICK g \in Live : IsAggregator(g, cur.info.parent) /\ SetParent(cur.h, g)
        BY <2>3
      <3>2. /\ Live' = Live /\ Bridged' = Bridged
            /\ endpoints'[cur.h].parent = endpoints[g].id
            /\ endpoints'[cur.h].enabled = endpoints[cur.h].enabled
            /\ \A x \in Live \ {cur.h} : endpoints'[x] = endpoints[x]
            /\ phase = "up" /\ phase' = "up" /\ image' = image
        BY <1>c, <1>t, <2>1, <3>1, Reparented
      <3>3. endpoints[g].id \in Aggregators(image)
        BY <1>t, <3>1, <3>2, AggregatorId
      <3>4. QED
        BY <1>d, <2>1, <2>3, <3>2, <3>3 DEF OrphanInv
    <2>4. QED
      BY <1>7, <2>2, <2>3 DEF SetTypeOnResume
  <1>8. QED
    BY <1>1, <1>2, <1>3, <1>4, <1>5, <1>6, <1>7 DEF LibraryStep

\* Each step of the console and of the node around it keeps OrphanInv.
LEMMA NextOrphan ==
    ConsoleTypeOK /\ StaticInv /\ OrphanInv /\ [Next]_vars => OrphanInv'
  <1> SUFFICES ASSUME ConsoleTypeOK, StaticInv, OrphanInv, [Next]_vars
               PROVE  OrphanInv'
    OBVIOUS
  <1>k. ASSUME UNCHANGED tableVars
        PROVE  Live' = Live /\ Bridged' = Bridged /\ endpoints' = endpoints /\ image' = image /\ phase' = phase
    BY <1>k DEF tableVars, Live, Bridged
  <1>c. cur.h # NoHandle => cur.h \in Handle /\ cur.h \in Bridged
    BY DEF ConsoleTypeOK, BridgeTypeOK, CurOK, Bridged
  <1>n. NoDevice.h = NoHandle
    BY DEF NoDevice
  <1>t. TableTypeOK /\ devices \subseteq Handle
    BY DEF ConsoleTypeOK
  <1>1. CASE UNCHANGED vars \/ (StoreAttributes /\ UNCHANGED consoleVars)
    <2>1. UNCHANGED <<tableVars, pc, cur, devices>>
      BY <1>1 DEF vars, bridgeVars, consoleVars, StoreAttributes, StoreAttribute
    <2>2. QED
      BY <1>k, <2>1 DEF OrphanInv
  <1>2. CASE NodeBoot /\ UNCHANGED consoleVars
    <2>1. /\ pc = "off" /\ devices = {} /\ Bridged = {} /\ cur.h = NoHandle
          /\ pc' = pc /\ devices' = devices /\ cur' = cur
      <3>1. phase # "up"
        BY <1>2 DEF NodeBoot, CreateStatic, Start, FinishMigration
      <3>2. QED
        BY <1>2, <3>1 DEF NodeBoot, OrphanInv, bridgeVars, consoleVars
    <2>2. Bridged' = {}
      <3>1. ASSUME NEW h \in Handle, CreateStatic(h) PROVE Bridged' = {}
        <4>1. [TableNext]_tableVars /\ phase' = "boot"
          BY <3>1 DEF TableNext, CreateStatic
        <4>2. StaticInv'
          BY <1>t, <4>1, NextStatic
        <4>3. QED
          BY <4>1, <4>2 DEF StaticInv
      <3>2. CASE Start
        <4>1. Live' = Live /\ \A x \in Live : endpoints'[x].kind = endpoints[x].kind
          BY <1>t, <3>2 DEF Start, Live, TableTypeOK, Endpoint
        <4>2. QED
          BY <2>1, <4>1 DEF Bridged
      <3>3. CASE FinishMigration
        BY <2>1, <3>3 DEF FinishMigration, Bridged, Live
      <3>4. QED
        BY <1>2, <3>1, <3>2, <3>3 DEF NodeBoot
    <2>3. QED
      BY <2>1, <2>2 DEF OrphanInv
  <1>3. CASE LibraryStep /\ UNCHANGED consoleVars
    BY <1>3, LibraryOrphan
  <1>4. CASE CopyArray \/ InitFailed \/ LoopDone
    <2>1. /\ UNCHANGED <<tableVars, cur, devices>>
          /\ pc \in {"copy", "initfail", "loop"} /\ pc' \in {"loop", "idle"}
      BY <1>4 DEF CopyArray, InitFailed, LoopDone
    <2>2. QED
      BY <1>k, <2>1 DEF OrphanInv
  <1>5. CASE ResumeNext
    <2>1. PICK s \in Slots : ReadInfo(todo[s]) \/ MigrateInfo(todo[s])
      BY <1>5 DEF ResumeNext
    <2>2. /\ UNCHANGED tableVars /\ pc = "loop"
          /\ pc' \in {"r_endpoint", "m_info", "ret"} /\ cur'.h = NoHandle
      BY SMT, <1>n, <2>1 DEF ReadInfo, MigrateInfo
    <2>3. devices' = devices
      BY <1>5 DEF ResumeNext
    <2>4. QED
      BY <1>k, <2>2, <2>3 DEF OrphanInv
  <1>6. CASE Return
    <2>1. pc = "ret" /\ cur'.h = NoHandle /\ pc' \in {"idle", "loop"}
      BY <1>6, <1>n DEF Return
    <2>2. CASE cur.h = NoHandle
      <3>1. UNCHANGED tableVars /\ devices' = devices \cap Live
        BY <1>6, <2>2 DEF Return
      <3>2. QED
        BY <1>k, <2>1, <2>2, <3>1 DEF OrphanInv
    <2>3. CASE cur.h # NoHandle
      <3>1. SetEnabled(cur.h, TRUE) /\ devices' = devices \cup {cur.h}
        BY <1>6, <2>3 DEF Return, Enable
      <3>2. cur.h \in Handle /\ cur.h \in Bridged /\ cur.h \in Live
        BY <1>c, <2>3 DEF Bridged
      <3>3. /\ Live' = Live /\ Bridged' = Bridged
            /\ endpoints'[cur.h].enabled = TRUE
            /\ \A x \in Live : endpoints'[x].parent = endpoints[x].parent
            /\ \A x \in Live \ {cur.h} : endpoints'[x] = endpoints[x]
            /\ phase = "up" /\ phase' = phase /\ image' = image
        BY <1>t, <3>1, <3>2, Flagged
      <3>4. endpoints[cur.h].parent \in Aggregators(image) /\ devices \subseteq Live
        BY <2>1, <2>3 DEF OrphanInv
      <3>5. Bridged' = (devices' \cap Live') \cup ({cur'.h} \ {NoHandle})
        BY <2>1, <2>3, <3>1, <3>2, <3>3 DEF OrphanInv
      <3>6. \A h \in devices' \cap Live' :
               endpoints'[h].enabled /\ endpoints'[h].parent \in Aggregators(image')
        BY <3>1, <3>2, <3>3, <3>4 DEF OrphanInv
      <3>7. QED
        BY <2>1, <3>1, <3>2, <3>3, <3>4, <3>5, <3>6 DEF OrphanInv
    <2>4. QED
      BY <2>2, <2>3
  <1>7. CASE AddDevice
    <2>1. PICK h \in Handle, p \in LiveIds, t \in Supported[image] : BeginCreate(h, p, t)
      BY <1>7 DEF AddDevice
    <2>2. /\ pc = "idle" /\ pc' = "c_type" /\ cur'.h = h /\ h # NoHandle /\ devices' = devices
          /\ Create(h, "bridged")
      BY <1>7, <2>1, BridgeAssumption DEF AddDevice, BeginCreate, consoleVars
    <2>3. /\ h \notin Live /\ Live' = Live \cup {h} /\ Bridged' = Bridged \cup {h}
          /\ \A x \in Live : endpoints'[x] = endpoints[x]
          /\ phase = "up" /\ phase' = "up" /\ image' = image
      BY <1>t, <2>2, Created
    <2>4. devices \subseteq Live /\ cur.h = NoHandle
      BY <2>2 DEF OrphanInv
    <2>5. QED
      BY <2>2, <2>3, <2>4 DEF OrphanInv
  <1>8. CASE RemoveDevice
    <2>1. PICK h \in devices : BeginRemove(h)
      BY <1>8 DEF RemoveDevice
    <2>2. /\ UNCHANGED tableVars /\ pc = "idle" /\ pc' = "e_array"
          /\ cur'.h = h /\ h \in Live /\ h # NoHandle /\ devices' = devices
      BY <1>8, <1>t, <2>1, BridgeAssumption DEF RemoveDevice, BeginRemove, consoleVars
    <2>3. cur.h = NoHandle
      BY <2>2 DEF OrphanInv
    <2>4. QED
      BY <1>k, <2>1, <2>2, <2>3 DEF OrphanInv
  <1>9. CASE ResetBridge
    <2>1. UNCHANGED <<tableVars, cur, devices>> /\ pc = "idle" /\ pc' = "reset"
      BY <1>9 DEF ResetBridge, BridgeReset, consoleVars
    <2>2. QED
      BY <1>k, <2>1 DEF OrphanInv
  <1>10. CASE ResetNode
    <2>1. /\ UNCHANGED <<image, phase, endpoints, cur, devices>>
          /\ pc' = IF pc = "reset" THEN "idle" ELSE pc
      BY <1>10 DEF ResetNode, MatterReset, FactoryReset, consoleVars
    <2>2. Live' = Live /\ Bridged' = Bridged
      BY <2>1 DEF Live, Bridged
    <2>3. QED
      BY <2>1, <2>2 DEF OrphanInv
  <1>11. CASE Restart
    <2>1. pc' = "off" /\ cur'.h = NoHandle /\ devices' = {} /\ Live' = {}
      BY <1>11, <1>n DEF Restart, BridgeReboot, Reboot, Live
    <2>2. Bridged' = {}
      BY <2>1 DEF Bridged
    <2>3. QED
      BY <2>1, <2>2 DEF OrphanInv
  <1>12. QED
    BY <1>1, <1>2, <1>3, <1>4, <1>5, <1>6, <1>7, <1>8, <1>9, <1>10, <1>11 DEF Next

\* Whatever NVS write or read fails on the way, an add, a remove and a resume
\* end with a bridged endpoint that the console holds and that is enabled, or
\* with none, for every number of devices and endpoints and every set of images.
THEOREM NothingOrphaned == Spec => []NoOrphans
  <1>1. Init => OrphanInv
    BY SMT DEF Init, TableInit, BootState, BridgeInit, BridgeRam, NoDevice, OrphanInv, Bridged, Live
  <1>2. ConsoleTypeOK /\ StaticInv /\ OrphanInv => NoOrphans
    <2>1. SUFFICES ASSUME ConsoleTypeOK, StaticInv, OrphanInv, Idle PROVE
                 /\ {h \in Live : endpoints[h].kind = "bridged"} = devices
                 /\ \A h \in devices : endpoints[h].enabled /\ ParentIsValid(endpoints[h].parent)
      BY DEF NoOrphans
    <2>2. cur.h = NoHandle /\ devices \subseteq Live /\ phase = "up"
      BY <2>1 DEF OrphanInv, Idle
    <2>3. Bridged = devices
      BY <2>1, <2>2 DEF OrphanInv
    <2>4. \A h \in devices : endpoints[h].enabled /\ endpoints[h].parent \in Aggregators(image)
      BY <2>1, <2>2 DEF OrphanInv
    <2>5. \A h \in devices : endpoints[h].parent \in EndpointId
      BY <2>1, <2>2 DEF ConsoleTypeOK, TableTypeOK, Endpoint
    <2>6. ParentsFromImage
      BY <2>1, <2>2, ParentByImage DEF ConsoleTypeOK
    <2>7. QED
      BY <2>3, <2>4, <2>5, <2>6 DEF Bridged, ParentsFromImage
  <1>3. QED
    BY <1>1, <1>2, ConsoleTypeCorrect, ConsoleImplementsTable, StaticsStand, NextOrphan, PTL DEF Spec

\* The tree of endpoints stays two levels deep in the bridge: the walk to the
\* top of the parent chain ends after any add, remove, resume and reset.
THEOREM ConsoleWalksEnd ==
    ASSUME RootFirst
    PROVE  Spec => []ParentWalkEnds
  BY ConsoleImplementsTable, WalksEnd, PTL

-----------------------------------------------------------------------------
(* The records of what is bridged agree, and stay right across reboots. *)

\* Two images that have aggregators have the same ones: an update may take the
\* aggregators away and another may bring them back.
AggregatorsStay ==
    \A i, j \in Images : \/ Aggregators(i) = {} \/ Aggregators(j) = {}
                         \/ Aggregators(i) = Aggregators(j)

Creating == pc \in {"c_type", "c_info", "c_array"}

\* Where the task is, what it is doing and what initialize has left to do.
ControlInv ==
    /\ pc \notin {"m_array", "m_info", "initfail"}
    /\ pc \in {"off", "copy", "loop", "r_endpoint", "r_type"} => ~ready
    /\ pc \in {"idle", "reset"} => ready
    /\ pc \in {"off", "copy", "loop", "idle", "reset"} => cur.op = "none"
    /\ Creating => cur.op = "create"
    /\ pc \in {"r_endpoint", "r_type"} => cur.op = "resume"
    /\ pc \in {"e_array", "e_info", "destroy"} => cur.op # "none"
    /\ cur.op \in {"create", "remove"} => ready /\ cur.h # NoHandle
    /\ cur.op = "resume" => ~ready
    /\ cur.op = "none" => cur.h = NoHandle
    /\ ready \/ pc \in {"off", "copy"} => todo = NoArray

\* NVS has a counter and an array whenever the node is up and no reset is pending.
KeysInv ==
    /\ phase = "up" /\ ~resetting => nvMin # NotFound
    /\ pc # "off" /\ ~resetting => nvArray # NotFound

\* NVS against the device being worked on.  A device being created is not in
\* the array yet; one that is being resumed, or was created, is, with its info.
CurInv ==
    /\ pc = "c_type" => cur.info.type \in Supported[image]
    /\ Creating => CurId \notin StoredIds
    /\ Creating \/ pc = "r_type" => cur.info.parent \in Aggregators(image)
    /\ cur.h # NoHandle /\ pc # "c_type" => cur.id = CurId
    /\ pc \in {"c_info", "c_array", "ret"} /\ cur.h # NoHandle
          => endpoints[cur.h].parent = cur.info.parent
    /\ pc = "c_array" => nvInfo[cur.id] = cur.info
    /\ pc \in {"r_endpoint", "r_type"} \/ (pc = "ret" /\ cur.h # NoHandle)
          => cur.id \in StoredIds /\ nvInfo[cur.id] = cur.info
    /\ cur.op = "resume" /\ cur.h = NoHandle => cur.id \notin LiveIds
    /\ pc \in {"e_info", "destroy"} \/ (pc = "ret" /\ cur.h = NoHandle /\ cur.op # "none")
          => cur.id \notin StoredIds
    /\ pc = "e_array" /\ cur.op = "create" => cur.id \notin StoredIds

\* What initialize has left to do: stored ids, none of them live.
TodoInv ==
    /\ Distinct(todo) /\ Stored(todo) \subseteq StoredIds
    /\ Stored(todo) \cap LiveIds = {}
    /\ pc = "copy" => Bridged = {}
    /\ cur.op = "resume" => cur.id \notin Stored(todo)

\* Until a reset of the running bridge, every bridged endpoint no operation is
\* working on has its record in NVS.
ListedInv ==
    ~ready \/ ~resetting =>
        \A h \in Bridged : h # cur.h =>
            /\ endpoints[h].id \in StoredIds
            /\ nvInfo[endpoints[h].id].parent = endpoints[h].parent

\* What NVS holds: each id once, none of an endpoint of the image, each below
\* an aggregator of some image; and the endpoint of each record initialize is done
\* with, unless its aggregator is missing.
StoredInv ==
    /\ nvArray # NotFound => Distinct(nvArray)
    /\ \A id \in StoredIds \cup gone : Len(image) <= id
    /\ \A id \in DOMAIN nvInfo : \E img \in Images : nvInfo[id].parent \in Aggregators(img)
    /\ pc \notin {"off", "copy"} =>
          \A id \in StoredIds \ Stored(todo) :
              nvInfo[id].parent \in Aggregators(image) =>
                  \/ \E h \in Bridged : endpoints[h].id = id
                  \/ cur.op = "resume" /\ cur.id = id

\* The ids of removed devices lie below the counter in NVS, and are not reused.
GoneInv ==
    /\ resetting => DOMAIN acked = {} /\ gone = {}
    /\ \A id \in gone : nvMin # NotFound /\ id < nvMin
    /\ GoneStaysGone

\* All of it together, on top of what was proved above.
BridgeInv ==
    ControlInv /\ KeysInv /\ CurInv /\ TodoInv /\ ListedInv /\ StoredInv /\ GoneInv

BaseInv == ConsoleTypeOK /\ ReservedInv /\ StaticInv /\ OrphanInv /\ ArrayInv

\* BridgeIdFacts, for the console.
LEMMA IdFacts ==
    ASSUME BaseInv
    PROVE  /\ minUnused \in Nat /\ minUnused <= kInvalidEndpointId /\ Len(image) \in Nat
           /\ \A h \in Live : endpoints[h].id \in EndpointId /\ endpoints[h].id < minUnused
           /\ \A h \in Live : endpoints[h].parent \in EndpointId
           /\ \A h \in Bridged : h \in Live /\ Len(image) <= endpoints[h].id
           /\ \A g, h \in Live : endpoints[g].id = endpoints[h].id => g = h
           /\ StoredIds \subseteq EndpointId /\ StoredIds \subseteq DOMAIN nvInfo
           /\ phase = "up" /\ nvMin # NotFound => nvMin = minUnused
           /\ phase # "boot" => Len(image) <= minUnused
  BY BridgeIdFacts DEF BaseInv, ConsoleTypeOK

\* The same for the device being worked on.
LEMMA CurFacts ==
    ASSUME BaseInv
    PROVE  /\ cur \in [op : {"none", "create", "remove", "resume"}, h : Handle \cup {NoHandle},
                       id : EndpointId, info : Info \cup {NotFound}]
           /\ cur.h # NoHandle => cur.h \in Live /\ cur.h \in Bridged /\ cur.h \in Handle
           /\ pc \in {"c_type", "c_info", "c_array", "r_type", "destroy"} => cur.h # NoHandle
           /\ pc \in {"off", "copy", "loop", "idle", "reset", "r_endpoint"} => cur.h = NoHandle
           /\ pc # "off" => phase = "up"
  BY DEF BaseInv, ConsoleTypeOK, BridgeTypeOK, CurOK, OrphanInv, Bridged, TableTypeOK

\* The array in RAM is the stored one once initialize has run.
LEMMA ArrayFacts ==
    ASSUME BaseInv, StoredInv, pc # "off"
    PROVE  idArray \in [Slots -> EndpointId] /\ Stored(idArray) = StoredIds /\ Distinct(idArray)
  <1>1. idArray \in [Slots -> EndpointId] /\ SameArray
    BY DEF BaseInv, ConsoleTypeOK, BridgeTypeOK, ArrayInv
  <1>2. Stored(idArray) = StoredIds
    BY <1>1, StoredRam
  <1>3. Distinct(idArray)
    BY <1>1, NoneStored, BridgeAssumption DEF SameArray, StoredInv
  <1>4. QED
    BY <1>1, <1>2, <1>3

\* initialize finds the array, or creates an empty one.
LEMMA InitializeKeeps ==
    ASSUME ReliableNvs, BaseInv, BridgeInv, Initialize, UNCHANGED consoleVars
    PROVE  BridgeInv'
  <1> USE DEF BridgeInv
  <1>1. /\ pc = "off" /\ UNCHANGED <<cur, tableVars, history, todo, ready, devices>>
        /\ phase = "up"
    BY DEF Initialize, consoleVars
  <1>2. /\ Live' = Live /\ Bridged' = Bridged /\ LiveIds' = LiveIds
        /\ UNCHANGED <<endpoints, image, phase, minUnused, nvMin, resetting, acked, gone>>
    BY <1>1, SameTable DEF history
  <1>3. /\ pc' = "copy" /\ nvInfo' = nvInfo /\ nvArray' # NotFound
        /\ StoredIds' = StoredIds /\ Distinct(nvArray')
    <2>1. nvArrayOld = NotFound /\ Faults = {}
      BY DEF BaseInv, ArrayInv, ReliableNvs
    <2>2. CASE nvArray # NotFound
      BY <2>1, <2>2, SameStored DEF Initialize, nvBridge, StoredInv
    <2>3. CASE nvArray = NotFound
      <3>1. nvArray' = NoArray /\ pc' = "copy" /\ nvInfo' = nvInfo
        BY <2>1, <2>3, OnlyOk DEF Initialize, StoreArray
      <3>2. NoArray # NotFound
        BY ArrayType, BridgeAssumption
      <3>3. QED
        BY <2>3, <3>1, <3>2, NoneStored DEF StoredIds
    <2>4. QED
      BY <2>2, <2>3
  <1>4. cur.h = NoHandle /\ cur.op = "none" /\ todo = NoArray /\ Bridged = {} /\ ~ready
    BY <1>1 DEF BaseInv, OrphanInv, ControlInv
  <1>5. ControlInv' /\ KeysInv'
    BY <1>1, <1>2, <1>3, <1>4 DEF ControlInv, KeysInv, Creating
  <1>6. CurInv' /\ TodoInv'
    BY <1>1, <1>2, <1>3, <1>4, NoneStored DEF CurInv, TodoInv, Creating
  <1>7. ListedInv' /\ StoredInv'
    BY <1>1, <1>2, <1>3, <1>4 DEF ListedInv, StoredInv
  <1>8. GoneInv'
    BY <1>2, <1>3 DEF GoneInv, GoneStaysGone
  <1>9. QED
    BY <1>5, <1>6, <1>7, <1>8

\* bridge_initialize copies the array: all of it is still to be resumed.
LEMMA CopyKeeps ==
    ASSUME ReliableNvs, BaseInv, BridgeInv, CopyArray
    PROVE  BridgeInv'
  <1> USE DEF BridgeInv
  <1>1. /\ pc = "copy" /\ pc' = "loop" /\ todo' = idArray
        /\ UNCHANGED <<tableVars, nvArray, nvInfo, cur, resetting, acked, gone, ready, devices>>
    BY DEF CopyArray, nvBridge, history
  <1>2. /\ Live' = Live /\ Bridged' = Bridged /\ LiveIds' = LiveIds
        /\ UNCHANGED <<endpoints, image, phase, minUnused, nvMin>>
    BY <1>1, SameTable
  <1>3. StoredIds' = StoredIds
    BY <1>1, SameStored
  <1>4. cur.h = NoHandle /\ cur.op = "none" /\ Bridged = {} /\ ~ready
    BY <1>1, CurFacts DEF ControlInv, TodoInv
  <1>5. Distinct(todo') /\ Stored(todo') = StoredIds
    BY <1>1, ArrayFacts
  <1>6. StoredIds \cap LiveIds = {}
    <2>1. \A h \in Live : endpoints[h].id < Len(image)
      BY <1>4 DEF BaseInv, StaticInv
    <2>2. \A h \in Live : endpoints[h].id \in Nat
      BY IdFacts, IdRange
    <2>3. \A id \in StoredIds : id \in Nat /\ Len(image) <= id
      BY IdFacts, IdRange DEF StoredInv
    <2>4. Len(image) \in Nat
      BY IdFacts
    <2>5. QED
      BY SMT, <2>1, <2>2, <2>3, <2>4 DEF LiveIds
  <1>7. ControlInv' /\ KeysInv'
    BY <1>1, <1>2, <1>3, <1>4 DEF ControlInv, KeysInv, Creating
  <1>8. CurInv' /\ TodoInv'
    BY <1>1, <1>2, <1>3, <1>4, <1>5, <1>6 DEF CurInv, TodoInv, Creating
  <1>9. ListedInv' /\ StoredInv'
    BY <1>1, <1>2, <1>3, <1>4, <1>5 DEF ListedInv, StoredInv
  <1>10. GoneInv'
    BY <1>1, <1>2, <1>3 DEF GoneInv, GoneStaysGone
  <1>11. QED
    BY <1>7, <1>8, <1>9, <1>10

\* The next device is taken from the copy: its info is there, and it is not live.
LEMMA ResumeNextKeeps ==
    ASSUME ReliableNvs, BaseInv, BridgeInv, ResumeNext
    PROVE  BridgeInv'
  <1> USE DEF BridgeInv
  <1>1. PICK s \in Slots :
           /\ todo[s] # kInvalidEndpointId
           /\ ReadInfo(todo[s]) \/ MigrateInfo(todo[s])
           /\ todo' = [todo EXCEPT ![s] = kInvalidEndpointId]
    BY DEF ResumeNext, IsFirst
  <1>2. todo \in [Slots -> EndpointId] /\ Distinct(todo)
    BY DEF BaseInv, ConsoleTypeOK, TodoInv
  <1>3. todo[s] \in Stored(todo) /\ todo[s] \in EndpointId
    BY <1>1, <1>2 DEF Stored
  <1>4. todo[s] \in StoredIds /\ todo[s] \in DOMAIN nvInfo /\ todo[s] \notin LiveIds
    BY <1>3, IdFacts DEF TodoInv
  <1>5. /\ pc = "loop" /\ pc' = "r_endpoint"
        /\ cur' = [op |-> "resume", h |-> NoHandle, id |-> todo[s], info |-> nvInfo[todo[s]]]
        /\ UNCHANGED <<tableVars, nvArray, nvInfo, resetting, acked, gone>>
    BY <1>1, <1>4 DEF ReadInfo, MigrateInfo, nvBridge, history, ReliableNvs
  <1>6. ready' = ready /\ devices' = devices
    BY DEF ResumeNext
  <1>7. Distinct(todo') /\ Stored(todo') = Stored(todo) \ {todo[s]}
    BY <1>1, <1>2, SlotTaken
  <1>8. /\ Live' = Live /\ Bridged' = Bridged /\ LiveIds' = LiveIds
        /\ UNCHANGED <<endpoints, image, phase, minUnused, nvMin>>
    BY <1>5, SameTable
  <1>9. StoredIds' = StoredIds
    BY <1>5, SameStored
  <1>10. cur.h = NoHandle /\ cur.op = "none" /\ ~ready
    BY <1>5, CurFacts DEF ControlInv
  <1>11. cur'.op = "resume" /\ cur'.h = NoHandle /\ cur'.id = todo[s] /\ cur'.info = nvInfo[todo[s]]
    BY <1>5
  <1>12. ControlInv' /\ KeysInv'
    BY <1>5, <1>6, <1>8, <1>9, <1>10, <1>11 DEF ControlInv, KeysInv, Creating
  <1>13. CurInv'
    BY <1>4, <1>5, <1>8, <1>9, <1>11 DEF CurInv, Creating
  <1>14. TodoInv'
    BY <1>5, <1>7, <1>8, <1>9, <1>11 DEF TodoInv
  <1>15. ListedInv'
    BY <1>5, <1>6, <1>8, <1>9, <1>10, <1>11 DEF ListedInv
  <1>16. StoredInv'
    BY <1>5, <1>7, <1>8, <1>9, <1>10, <1>11 DEF StoredInv
  <1>17. GoneInv'
    BY <1>5, <1>8, <1>9 DEF GoneInv, GoneStaysGone
  <1>18. QED
    BY <1>12, <1>13, <1>14, <1>15, <1>16, <1>17

\* bridge_initialize returns when the copy is empty.
LEMMA LoopDoneKeeps ==
    ASSUME ReliableNvs, BaseInv, BridgeInv, LoopDone
    PROVE  BridgeInv'
  <1> USE DEF BridgeInv
  <1>1. /\ pc = "loop" /\ todo = NoArray /\ pc' = "idle" /\ ready' = TRUE
        /\ UNCHANGED <<tableVars, nvArray, nvInfo, cur, resetting, acked, gone, todo, devices>>
    BY DEF LoopDone, nvBridge, history
  <1>2. /\ Live' = Live /\ Bridged' = Bridged /\ LiveIds' = LiveIds
        /\ UNCHANGED <<endpoints, image, phase, minUnused, nvMin>>
    BY <1>1, SameTable
  <1>3. StoredIds' = StoredIds
    BY <1>1, SameStored
  <1>4. cur.h = NoHandle /\ cur.op = "none" /\ ~ready
    BY <1>1, CurFacts DEF ControlInv
  <1>5. ControlInv' /\ KeysInv'
    BY <1>1, <1>2, <1>3, <1>4 DEF ControlInv, KeysInv, Creating
  <1>6. CurInv' /\ TodoInv'
    BY <1>1, <1>2, <1>3, <1>4 DEF CurInv, TodoInv, Creating
  <1>7. ListedInv' /\ StoredInv'
    BY <1>1, <1>2, <1>3, <1>4 DEF ListedInv, StoredInv
  <1>8. GoneInv'
    BY <1>1, <1>2, <1>3 DEF GoneInv, GoneStaysGone
  <1>9. QED
    BY <1>5, <1>6, <1>7, <1>8

\* resume_device up to bridged_node::resume: passed over without its aggregator,
\* refused, or live again under its id.
LEMMA ResumeEndpointKeeps ==
    ASSUME ReliableNvs, BaseInv, BridgeInv, ResumeEndpoint, UNCHANGED consoleVars
    PROVE  BridgeInv'
  <1> USE DEF BridgeInv
  <1>1. /\ pc = "r_endpoint" /\ UNCHANGED <<nvArray, nvInfo, resetting, acked, gone, todo, ready, devices>>
    BY DEF ResumeEndpoint, nvBridge, history, consoleVars
  <1>2. StoredIds' = StoredIds
    BY <1>1, SameStored
  <1>3. cur.h = NoHandle /\ cur.op = "resume" /\ ~ready /\ phase = "up"
    BY <1>1, CurFacts DEF ControlInv
  <1>4. /\ cur.id \in StoredIds /\ nvInfo[cur.id] = cur.info /\ cur.id \notin LiveIds
        /\ cur.id \notin Stored(todo) /\ cur.id \notin gone /\ cur.id \in EndpointId
    <2>1. cur.id \in StoredIds /\ nvInfo[cur.id] = cur.info /\ cur.id \notin LiveIds
      BY <1>1, <1>3 DEF CurInv
    <2>2. cur.id \notin Stored(todo) /\ cur.id \notin gone
      BY <1>3, <2>1 DEF TodoInv, GoneInv, GoneStaysGone
    <2>3. QED
      BY <2>1, <2>2, CurFacts
  <1>5. ParentIsValid(cur.info.parent) <=> cur.info.parent \in Aggregators(image)
    <2>1. cur.info \in Info
      BY <1>1 DEF BaseInv, ConsoleTypeOK, BridgeTypeOK, CurOK
    <2>2. ParentsFromImage
      BY <1>3, ParentByImage DEF BaseInv, ConsoleTypeOK
    <2>3. QED
      BY <2>1, <2>2 DEF Info, ParentsFromImage
  <1>6. CASE ~ParentIsValid(cur.info.parent) /\ cur' = NoDevice /\ pc' = "ret" /\ UNCHANGED tableVars
    <2>1. /\ Live' = Live /\ Bridged' = Bridged /\ LiveIds' = LiveIds
          /\ UNCHANGED <<endpoints, image, phase, minUnused, nvMin>>
      BY <1>6, SameTable
    <2>2. cur'.h = NoHandle /\ cur'.op = "none"
      BY <1>6 DEF NoDevice
    <2>3. ControlInv' /\ KeysInv'
      BY <1>1, <1>3, <1>6, <2>1, <2>2 DEF ControlInv, KeysInv, Creating
    <2>4. CurInv' /\ TodoInv'
      BY <1>1, <1>2, <1>6, <2>1, <2>2 DEF CurInv, TodoInv, Creating
    <2>5. ListedInv'
      BY <1>1, <1>2, <1>3, <2>1, <2>2 DEF ListedInv
    <2>6. StoredInv'
      BY <1>1, <1>2, <1>4, <1>5, <1>6, <2>1, <2>2 DEF StoredInv
    <2>7. GoneInv'
      BY <1>1, <1>2, <2>1 DEF GoneInv, GoneStaysGone
    <2>8. QED
      BY <2>3, <2>4, <2>5, <2>6, <2>7
  <1>7. CASE cur' = cur /\ pc' = "e_array" /\ UNCHANGED tableVars
    <2>1. /\ Live' = Live /\ Bridged' = Bridged /\ LiveIds' = LiveIds
          /\ UNCHANGED <<endpoints, image, phase, minUnused, nvMin>>
      BY <1>7, SameTable
    <2>2. ControlInv' /\ KeysInv'
      BY <1>1, <1>3, <1>7, <2>1 DEF ControlInv, KeysInv, Creating
    <2>3. CurInv' /\ TodoInv'
      BY <1>1, <1>2, <1>3, <1>7, <2>1 DEF CurInv, TodoInv, Creating
    <2>4. ListedInv'
      BY <1>1, <1>2, <1>3, <1>7, <2>1 DEF ListedInv
    <2>5. StoredInv'
      BY <1>1, <1>2, <1>7, <2>1 DEF StoredInv
    <2>6. GoneInv'
      BY <1>1, <1>2, <2>1 DEF GoneInv, GoneStaysGone
    <2>7. QED
      BY <2>2, <2>3, <2>4, <2>5, <2>6
  <1>8. ASSUME NEW h \in Handle, Resume(h, cur.id, "bridged"), cur' = [cur EXCEPT !.h = h],
               pc' = "r_type", ParentIsValid(cur.info.parent)
        PROVE  BridgeInv'
    <2>1. /\ h \notin Live /\ Live' = Live \cup {h} /\ Bridged' = Bridged \cup {h}
          /\ endpoints'[h].id = cur.id
          /\ \A x \in Live : endpoints'[x] = endpoints[x]
          /\ UNCHANGED <<image, phase, minUnused, nvMin>>
      BY <1>4, <1>8, Resumed DEF BaseInv, ConsoleTypeOK
    <2>2. cur'.h = h /\ cur'.op = "resume" /\ cur'.id = cur.id /\ cur'.info = cur.info /\ h # NoHandle
      BY <1>3, <1>8, CurFacts, BridgeAssumption
    <2>3. LiveIds' = LiveIds \cup {cur.id}
      BY <2>1 DEF LiveIds
    <2>4. \A x \in Bridged : x \in Live /\ x # h /\ x # NoHandle /\ endpoints'[x] = endpoints[x]
      BY <2>1, BridgeAssumption DEF Bridged, BaseInv, ConsoleTypeOK, TableTypeOK
    <2>5. ControlInv' /\ KeysInv'
      BY <1>1, <1>3, <1>8, <2>1, <2>2 DEF ControlInv, KeysInv, Creating
    <2>6. CurInv'
      BY SMT, <1>1, <1>2, <1>4, <1>5, <1>8, <2>1, <2>2 DEF CurInv, Creating, CurId
    <2>7. TodoInv'
      BY <1>1, <1>2, <1>4, <1>8, <2>2, <2>3 DEF TodoInv
    <2>8. ListedInv'
      BY <1>1, <1>2, <1>3, <2>1, <2>2, <2>4 DEF ListedInv
    <2>9. StoredInv'
      <3>1. \A id \in StoredIds \ Stored(todo) :
              nvInfo[id].parent \in Aggregators(image) => \E x \in Bridged' : endpoints'[x].id = id
        BY <1>1, <2>1, <2>4 DEF StoredInv
      <3>2. QED
        BY <1>1, <1>2, <2>1, <3>1 DEF StoredInv
    <2>10. GoneInv'
      BY <1>1, <1>2, <1>4, <2>1, <2>3 DEF GoneInv, GoneStaysGone
    <2>11. QED
      BY <2>5, <2>6, <2>7, <2>8, <2>9, <2>10
  <1>9. QED
    BY <1>6, <1>7, <1>8 DEF ResumeEndpoint

\* A step that moves the endpoint being worked on below its aggregator, and
\* writes no key, keeps the ids.
LEMMA ReparentIds ==
    ASSUME BaseInv, cur.h # NoHandle,
           \E g \in Live : IsAggregator(g, cur.info.parent) /\ SetParent(cur.h, g)
    PROVE  /\ Live' = Live /\ Bridged' = Bridged /\ LiveIds' = LiveIds
           /\ endpoints'[cur.h].parent = cur.info.parent
           /\ \A x \in Live : endpoints'[x].id = endpoints[x].id
           /\ \A x \in Live \ {cur.h} : endpoints'[x] = endpoints[x]
           /\ UNCHANGED <<image, phase, minUnused, nvMin>>
  <1>1. PICK g \in Live : IsAggregator(g, cur.info.parent) /\ SetParent(cur.h, g)
    OBVIOUS
  <1>2. cur.h \in Bridged /\ cur.h \in Live /\ TableTypeOK
    BY CurFacts DEF BaseInv, ConsoleTypeOK
  <1>3. /\ Live' = Live /\ Bridged' = Bridged
        /\ endpoints'[cur.h].parent = endpoints[g].id /\ endpoints'[cur.h].id = endpoints[cur.h].id
        /\ \A x \in Live \ {cur.h} : endpoints'[x] = endpoints[x]
        /\ UNCHANGED <<image, phase, minUnused, nvMin>>
    BY <1>1, <1>2, Reparented
  <1>4. \A x \in Live : endpoints'[x].id = endpoints[x].id
    BY <1>3
  <1>5. LiveIds' = LiveIds
    BY SMT, <1>3, <1>4 DEF LiveIds
  <1>6. QED
    BY <1>1, <1>3, <1>4, <1>5 DEF IsAggregator

\* resume_device from set_device_type on: the device returns, or is given up.
LEMMA SetTypeOnResumeKeeps ==
    ASSUME ReliableNvs, BaseInv, BridgeInv, SetTypeOnResume, UNCHANGED consoleVars
    PROVE  BridgeInv'
  <1> USE DEF BridgeInv
  <1>1. /\ pc = "r_type"
        /\ UNCHANGED <<nvArray, nvInfo, cur, resetting, acked, gone, todo, ready, devices>>
    BY DEF SetTypeOnResume, nvBridge, history, consoleVars
  <1>2. StoredIds' = StoredIds
    BY <1>1, SameStored
  <1>3. cur.h # NoHandle /\ cur.op = "resume" /\ ~ready /\ cur.h \in Live /\ cur.h \in Bridged
    BY <1>1, CurFacts DEF ControlInv
  <1>4. cur.id \in StoredIds /\ nvInfo[cur.id] = cur.info /\ cur.id = CurId
    BY <1>1, <1>3 DEF CurInv
  <1>5. CASE pc' = "e_array" /\ UNCHANGED tableVars
    <2>1. /\ Live' = Live /\ Bridged' = Bridged /\ LiveIds' = LiveIds
          /\ UNCHANGED <<endpoints, image, phase, minUnused, nvMin>>
      BY <1>5, SameTable
    <2>2. ControlInv' /\ KeysInv'
      BY <1>1, <1>3, <1>5, <2>1 DEF ControlInv, KeysInv, Creating
    <2>3. CurInv' /\ TodoInv'
      BY <1>1, <1>2, <1>3, <1>4, <1>5, <2>1 DEF CurInv, TodoInv, Creating, CurId
    <2>4. ListedInv'
      BY <1>1, <1>2, <1>3, <1>5, <2>1 DEF ListedInv
    <2>5. StoredInv'
      BY <1>1, <1>2, <1>5, <2>1 DEF StoredInv
    <2>6. GoneInv'
      BY <1>1, <1>2, <2>1 DEF GoneInv, GoneStaysGone
    <2>7. QED
      BY <2>2, <2>3, <2>4, <2>5, <2>6
  <1>6. CASE /\ pc' = "ret"
             /\ \E g \in Live : IsAggregator(g, cur.info.parent) /\ SetParent(cur.h, g)
    <2>1. /\ Live' = Live /\ Bridged' = Bridged /\ LiveIds' = LiveIds
          /\ endpoints'[cur.h].parent = cur.info.parent
          /\ \A x \in Live : endpoints'[x].id = endpoints[x].id
          /\ \A x \in Live \ {cur.h} : endpoints'[x] = endpoints[x]
          /\ UNCHANGED <<image, phase, minUnused, nvMin>>
      BY <1>3, <1>6, ReparentIds
    <2>2. \A x \in Bridged : x \in Live
      BY DEF Bridged
    <2>3. ControlInv' /\ KeysInv'
      BY <1>1, <1>3, <1>6, <2>1 DEF ControlInv, KeysInv, Creating
    <2>4. CurInv'
      BY <1>1, <1>2, <1>3, <1>4, <1>6, <2>1 DEF CurInv, Creating, CurId
    <2>5. TodoInv'
      BY <1>1, <1>2, <1>6, <2>1 DEF TodoInv
    <2>6. ListedInv'
      BY <1>1, <1>2, <1>3, <2>1, <2>2 DEF ListedInv
    <2>7. StoredInv'
      BY SMT, <1>1, <1>2, <1>6, <2>1, <2>2 DEF StoredInv
    <2>8. GoneInv'
      BY <1>1, <1>2, <2>1 DEF GoneInv, GoneStaysGone
    <2>9. QED
      BY <2>3, <2>4, <2>5, <2>6, <2>7, <2>8
  <1>7. QED
    BY <1>5, <1>6 DEF SetTypeOnResume

\* The console takes the result: a device it goes on to hold has its record.
LEMMA ReturnKeeps ==
    ASSUME ReliableNvs, BaseInv, BridgeInv, Return
    PROVE  BridgeInv'
  <1> USE DEF BridgeInv
  <1>1. /\ pc = "ret" /\ cur' = NoDevice /\ pc' = IF ready THEN "idle" ELSE "loop"
        /\ UNCHANGED <<nvArray, nvInfo, resetting, acked, gone, todo, ready>>
    BY DEF Return, nvBridge, history
  <1>2. StoredIds' = StoredIds /\ ready \in BOOLEAN
    BY <1>1, SameStored DEF BaseInv, ConsoleTypeOK
  <1>3. cur'.h = NoHandle /\ cur'.op = "none"
    BY <1>1 DEF NoDevice
  <1>4. CASE cur.h = NoHandle
    <2>1. UNCHANGED tableVars
      BY <1>4 DEF Return
    <2>2. /\ Live' = Live /\ Bridged' = Bridged /\ LiveIds' = LiveIds
          /\ UNCHANGED <<endpoints, image, phase, minUnused, nvMin>>
      BY <2>1, SameTable
    <2>3. ControlInv' /\ KeysInv'
      BY <1>1, <1>2, <1>3, <2>2 DEF ControlInv, KeysInv, Creating
    <2>4. CurInv' /\ TodoInv'
      BY <1>1, <1>2, <1>3, <2>2 DEF CurInv, TodoInv, Creating
    <2>5. ListedInv'
      BY <1>1, <1>2, <1>3, <1>4, <2>2 DEF ListedInv
    <2>6. StoredInv'
      <3>1. cur.op = "resume" => cur.id \notin StoredIds
        BY <1>1, <1>4 DEF CurInv
      <3>2. QED
        BY <1>1, <1>2, <2>2, <3>1 DEF StoredInv
    <2>7. GoneInv'
      BY <1>1, <1>2, <2>2 DEF GoneInv, GoneStaysGone
    <2>8. QED
      BY <2>3, <2>4, <2>5, <2>6, <2>7
  <1>5. CASE cur.h # NoHandle
    <2>1. SetEnabled(cur.h, TRUE)
      BY <1>5 DEF Return, Enable
    <2>2. cur.h \in Handle /\ cur.h \in Bridged /\ cur.h \in Live
      BY <1>5, CurFacts
    <2>3. /\ Live' = Live /\ Bridged' = Bridged
          /\ \A x \in Live : /\ endpoints'[x].id = endpoints[x].id
                             /\ endpoints'[x].parent = endpoints[x].parent
          /\ UNCHANGED <<image, phase, minUnused, nvMin>>
      BY <2>1, <2>2, Flagged DEF BaseInv, ConsoleTypeOK
    <2>4. LiveIds' = LiveIds
      BY <2>3 DEF LiveIds
    <2>5. \A x \in Bridged : x \in Live
      BY DEF Bridged
    <2>6. /\ cur.id \in StoredIds /\ nvInfo[cur.id] = cur.info
          /\ endpoints[cur.h].id = cur.id /\ endpoints[cur.h].parent = cur.info.parent
      BY <1>1, <1>5 DEF CurInv, CurId
    <2>7. ControlInv' /\ KeysInv'
      BY <1>1, <1>2, <1>3, <2>3 DEF ControlInv, KeysInv, Creating
    <2>8. CurInv' /\ TodoInv'
      BY <1>1, <1>2, <1>3, <2>3, <2>4 DEF CurInv, TodoInv, Creating
    <2>9. ListedInv'
      BY SMT, <1>1, <1>2, <1>3, <2>3, <2>5, <2>6 DEF ListedInv
    <2>10. StoredInv'
      <3>1. \A id \in StoredIds \ Stored(todo) :
              nvInfo[id].parent \in Aggregators(image) => \E h \in Bridged : endpoints[h].id = id
        BY <1>1, <2>2, <2>6 DEF StoredInv
      <3>2. QED
        BY <1>1, <1>2, <2>3, <2>5, <3>1 DEF StoredInv
    <2>11. GoneInv'
      BY <1>1, <1>2, <2>3, <2>4 DEF GoneInv, GoneStaysGone
    <2>12. QED
      BY <2>7, <2>8, <2>9, <2>10, <2>11
  <1>6. QED
    BY <1>4, <1>5

\* A new device gets an id that is neither stored nor among the removed ones.
LEMMA AddDeviceKeeps ==
    ASSUME ReliableNvs, AggregatorsStay, BaseInv, BridgeInv, AddDevice
    PROVE  BridgeInv'
  <1> USE DEF BridgeInv
  <1>1. PICK h \in Handle, p \in LiveIds, t \in Supported[image] : BeginCreate(h, p, t)
    BY DEF AddDevice
  <1>2. /\ pc = "idle" /\ pc' = "c_type" /\ Create(h, "bridged") /\ ParentIsValid(p)
        /\ cur' = [op |-> "create", h |-> h, id |-> 0, info |-> [parent |-> p, type |-> t]]
        /\ UNCHANGED <<nvArray, nvInfo, resetting, acked, gone>>
    BY <1>1 DEF BeginCreate, nvBridge, history
  <1>3. UNCHANGED <<todo, ready, devices>>
    BY DEF AddDevice, consoleVars
  <1>4. /\ h \notin Live /\ Live' = Live \cup {h} /\ Bridged' = Bridged \cup {h}
        /\ endpoints'[h].id = minUnused
        /\ \A x \in Live : endpoints'[x] = endpoints[x]
        /\ minUnused' = minUnused + 1
        /\ phase = "up" /\ phase' = "up" /\ image' = image
    BY <1>2, Created DEF BaseInv, ConsoleTypeOK
  <1>5. StoredIds' = StoredIds /\ nvMin' = minUnused'
    BY <1>2, SameStored DEF Create, StoreMinUnused, NvsPutMin, ReliableNvs
  <1>6. LiveIds' = LiveIds \cup {minUnused}
    BY <1>4 DEF LiveIds
  <1>7. cur.h = NoHandle /\ cur.op = "none" /\ ready /\ todo = NoArray
    BY <1>2, CurFacts DEF ControlInv
  <1>8. /\ cur'.op = "create" /\ cur'.h = h /\ h # NoHandle
        /\ cur'.info.parent = p /\ cur'.info.type = t
    BY <1>2, BridgeAssumption
  <1>9. p \in Aggregators(image)
    <2>1. p \in EndpointId
      BY IdFacts DEF LiveIds
    <2>2. ParentsFromImage
      BY <1>4, ParentByImage DEF BaseInv, ConsoleTypeOK
    <2>3. QED
      BY <1>2, <2>1, <2>2 DEF ParentsFromImage
  <1>10. minUnused \notin StoredIds
    <2>1. SUFFICES ASSUME minUnused \in StoredIds PROVE FALSE
      OBVIOUS
    <2>2. minUnused \in DOMAIN nvInfo
      BY <2>1, IdFacts
    <2>3. PICK img \in Images : nvInfo[minUnused].parent \in Aggregators(img)
      BY <2>2 DEF StoredInv
    <2>4. Aggregators(img) = Aggregators(image)
      <3>1. image \in Images
        BY DEF BaseInv, ConsoleTypeOK, TableTypeOK
      <3>2. QED
        BY <1>9, <2>3, <3>1 DEF AggregatorsStay
    <2>5. Stored(todo) = {}
      BY <1>7, NoneStored
    <2>6. PICK x \in Bridged : endpoints[x].id = minUnused
      BY <1>2, <1>7, <2>1, <2>3, <2>4, <2>5 DEF StoredInv
    <2>7. x \in Live /\ endpoints[x].id < minUnused /\ minUnused \in Nat
      BY IdFacts
    <2>8. QED
      BY SMT, <2>6, <2>7
  <1>11. /\ minUnused \notin gone
         /\ \A id \in gone : nvMin' # NotFound /\ id < nvMin'
    <2>1. \A id \in gone : id \in Nat /\ id < minUnused
      <3>1. gone \subseteq Nat
        BY IdRange DEF BaseInv, ConsoleTypeOK, BridgeTypeOK
      <3>2. QED
        BY <1>4, <3>1, IdFacts DEF GoneInv
    <2>2. minUnused \in Nat /\ nvMin' = minUnused + 1
      BY <1>4, <1>5, IdFacts
    <2>3. nvMin' # NotFound
      BY SMT, <2>2, ConstantsAssumption
    <2>4. QED
      BY SMT, <2>1, <2>2, <2>3
  <1>12. \A x \in Bridged : x \in Live /\ x # h /\ x # NoHandle
    BY <1>4, BridgeAssumption DEF Bridged, BaseInv, ConsoleTypeOK, TableTypeOK
  <1>13. ControlInv'
    BY <1>2, <1>3, <1>7, <1>8 DEF ControlInv, Creating
  <1>14. KeysInv'
    <2>1. nvMin' # NotFound
      <3>1. nvMin' = minUnused + 1 /\ minUnused \in Nat
        BY <1>4, <1>5, IdFacts
      <3>2. QED
        BY SMT, <3>1, ConstantsAssumption
    <2>2. ~resetting => nvArray # NotFound
      BY <1>2 DEF KeysInv
    <2>3. QED
      BY <1>2, <2>1, <2>2 DEF KeysInv
  <1>15. CurInv'
    BY <1>2, <1>4, <1>5, <1>8, <1>9, <1>10 DEF CurInv, Creating, CurId
  <1>16. TodoInv'
    BY <1>2, <1>3, <1>5, <1>7, <1>8, NoneStored DEF TodoInv
  <1>17. ListedInv'
    BY <1>2, <1>3, <1>4, <1>5, <1>7, <1>8, <1>12 DEF ListedInv
  <1>18. StoredInv'
    <2>1. \A id \in StoredIds \ Stored(todo) :
            nvInfo[id].parent \in Aggregators(image) => \E x \in Bridged' : endpoints'[x].id = id
      BY <1>2, <1>4, <1>7, <1>12 DEF StoredInv
    <2>2. QED
      BY <1>2, <1>3, <1>4, <1>5, <2>1 DEF StoredInv
  <1>19. GoneInv'
    BY <1>2, <1>5, <1>6, <1>11 DEF GoneInv, GoneStaysGone
  <1>20. QED
    BY <1>13, <1>14, <1>15, <1>16, <1>17, <1>18, <1>19

\* create_device from set_device_type to the parent: the console has checked
\* the type.
LEMMA SetTypeOnCreateKeeps ==
    ASSUME ReliableNvs, BaseInv, BridgeInv, SetTypeOnCreate, UNCHANGED consoleVars
    PROVE  BridgeInv'
  <1> USE DEF BridgeInv
  <1>1. /\ pc = "c_type" /\ cur.info.type \in Supported[image]
        /\ UNCHANGED <<nvArray, nvInfo, resetting, acked, gone, todo, ready, devices>>
    BY DEF SetTypeOnCreate, nvBridge, history, consoleVars, CurInv
  <1>2. /\ pc' = "c_info" /\ cur' = [cur EXCEPT !.id = CurId]
        /\ \E g \in Live : IsAggregator(g, cur.info.parent) /\ SetParent(cur.h, g)
    BY <1>1 DEF SetTypeOnCreate
  <1>3. StoredIds' = StoredIds
    BY <1>1, SameStored
  <1>4. /\ cur.h # NoHandle /\ cur.h \in Live /\ cur.op = "create" /\ ready
        /\ cur'.h = cur.h /\ cur'.op = cur.op /\ cur'.info = cur.info /\ cur'.id = CurId
    BY <1>1, <1>2, CurFacts DEF ControlInv, Creating
  <1>5. /\ Live' = Live /\ Bridged' = Bridged /\ LiveIds' = LiveIds
        /\ endpoints'[cur.h].parent = cur.info.parent
        /\ \A x \in Live : endpoints'[x].id = endpoints[x].id
        /\ \A x \in Live \ {cur.h} : endpoints'[x] = endpoints[x]
        /\ UNCHANGED <<image, phase, minUnused, nvMin>>
    BY <1>2, <1>4, ReparentIds
  <1>6. CurId \notin StoredIds /\ cur.info.parent \in Aggregators(image)
    BY <1>1 DEF CurInv, Creating
  <1>7. \A x \in Bridged : x \in Live
    BY DEF Bridged
  <1>8. CurId' = CurId
    BY <1>4, <1>5 DEF CurId
  <1>9. ControlInv' /\ KeysInv'
    BY <1>1, <1>2, <1>4, <1>5 DEF ControlInv, KeysInv, Creating
  <1>10. CurInv'
    BY <1>2, <1>3, <1>4, <1>5, <1>6, <1>8 DEF CurInv, Creating
  <1>11. TodoInv'
    BY <1>1, <1>2, <1>3, <1>4, <1>5 DEF TodoInv
  <1>12. ListedInv'
    BY <1>1, <1>3, <1>4, <1>5, <1>7 DEF ListedInv
  <1>13. StoredInv'
    <2>1. \A id \in StoredIds \ Stored(todo) :
            nvInfo[id].parent \in Aggregators(image) => \E x \in Bridged : endpoints[x].id = id
      BY <1>1, <1>4 DEF StoredInv
    <2>2. QED
      BY SMT, <1>1, <1>3, <1>5, <1>7, <2>1 DEF StoredInv
  <1>14. GoneInv'
    BY <1>1, <1>3, <1>5 DEF GoneInv, GoneStaysGone
  <1>15. QED
    BY <1>9, <1>10, <1>11, <1>12, <1>13, <1>14

\* The info is written under an id no other record has.
LEMMA StoreInfoKeeps ==
    ASSUME ReliableNvs, BaseInv, BridgeInv, StoreInfo, UNCHANGED consoleVars
    PROVE  BridgeInv'
  <1> USE DEF BridgeInv
  <1>1. /\ pc = "c_info" /\ UNCHANGED tableVars
        /\ UNCHANGED <<cur, nvArray, resetting, acked, gone, todo, ready, devices>>
    BY DEF StoreInfo, history, consoleVars
  <1>2. pc' = "c_array" /\ nvInfo' = Put(nvInfo, cur.id, cur.info)
    BY OnlyOk DEF StoreInfo
  <1>3. /\ Live' = Live /\ Bridged' = Bridged /\ LiveIds' = LiveIds
        /\ UNCHANGED <<endpoints, image, phase, minUnused, nvMin>>
    BY <1>1, SameTable
  <1>4. StoredIds' = StoredIds
    BY <1>1, SameStored
  <1>5. cur.h # NoHandle /\ cur.op = "create" /\ ready
    BY <1>1, CurFacts DEF ControlInv, Creating
  <1>6. /\ cur.id = CurId /\ CurId \notin StoredIds /\ cur.info.parent \in Aggregators(image)
        /\ endpoints[cur.h].parent = cur.info.parent /\ CurId' = CurId
    BY <1>1, <1>3, <1>5 DEF CurInv, Creating, CurId
  <1>7. /\ DOMAIN nvInfo' = DOMAIN nvInfo \cup {cur.id} /\ nvInfo'[cur.id] = cur.info
        /\ \A id \in DOMAIN nvInfo \ {cur.id} : nvInfo'[id] = nvInfo[id]
    BY <1>2 DEF Put
  <1>8. \A id \in StoredIds : nvInfo'[id] = nvInfo[id]
    BY <1>6, <1>7, IdFacts
  <1>9. ControlInv' /\ KeysInv'
    BY <1>1, <1>2, <1>3, <1>5 DEF ControlInv, KeysInv, Creating
  <1>10. CurInv'
    BY <1>1, <1>2, <1>3, <1>4, <1>5, <1>6, <1>7 DEF CurInv, Creating
  <1>11. TodoInv'
    BY <1>1, <1>2, <1>3, <1>4 DEF TodoInv
  <1>12. ListedInv'
    BY <1>1, <1>3, <1>4, <1>8 DEF ListedInv
  <1>13. StoredInv'
    <2>1. \A id \in DOMAIN nvInfo' : \E img \in Images : nvInfo'[id].parent \in Aggregators(img)
      <3>1. image \in Images
        BY DEF BaseInv, ConsoleTypeOK, TableTypeOK
      <3>2. QED
        BY <1>6, <1>7, <3>1 DEF StoredInv
    <2>2. QED
      BY <1>1, <1>2, <1>3, <1>4, <1>8, <2>1 DEF StoredInv
  <1>14. GoneInv'
    BY <1>1, <1>3, <1>4 DEF GoneInv, GoneStaysGone
  <1>15. QED
    BY <1>9, <1>10, <1>11, <1>12, <1>13, <1>14

\* The id enters the array with its info already there; with no slot free the
\* device is taken back.
LEMMA AddToArrayKeeps ==
    ASSUME ReliableNvs, BaseInv, BridgeInv, AddToArray, UNCHANGED consoleVars
    PROVE  BridgeInv'
  <1> USE DEF BridgeInv
  <1>1. /\ pc = "c_array" /\ UNCHANGED tableVars
        /\ UNCHANGED <<cur, nvInfo, resetting, gone, todo, ready, devices>>
    BY DEF AddToArray, consoleVars
  <1>2. /\ Live' = Live /\ Bridged' = Bridged /\ LiveIds' = LiveIds
        /\ UNCHANGED <<endpoints, image, phase, minUnused, nvMin>>
    BY <1>1, SameTable
  <1>3. /\ cur.h # NoHandle /\ cur.op = "create" /\ ready /\ todo = NoArray
        /\ cur.h \in Bridged /\ cur.h \in Live
    BY <1>1, CurFacts DEF ControlInv, Creating
  <1>4. /\ cur.id = CurId /\ CurId \notin StoredIds /\ cur.info.parent \in Aggregators(image)
        /\ endpoints[cur.h].parent = cur.info.parent /\ CurId' = CurId
        /\ nvInfo[cur.id] = cur.info /\ endpoints[cur.h].id = cur.id
    BY <1>1, <1>2, <1>3 DEF CurInv, Creating, CurId
  <1>5. /\ cur.id \in EndpointId /\ cur.id # kInvalidEndpointId /\ cur.id \in LiveIds
        /\ Len(image) <= cur.id
    <2>1. cur.id \in EndpointId /\ cur.id < minUnused /\ Len(image) <= cur.id
      BY <1>3, <1>4, IdFacts
    <2>2. minUnused \in Nat /\ minUnused <= kInvalidEndpointId
      BY IdFacts
    <2>3. QED
      BY SMT, <1>3, <1>4, <2>1, <2>2, IdRange DEF LiveIds
  <1>6. ASSUME FreeSlots = {}, pc' = "e_array", UNCHANGED <<idArray, nvArray, acked>>
        PROVE  BridgeInv'
    <2>1. StoredIds' = StoredIds
      BY <1>6, SameStored
    <2>2. ControlInv' /\ KeysInv'
      BY <1>1, <1>2, <1>3, <1>6 DEF ControlInv, KeysInv, Creating
    <2>3. CurInv'
      BY <1>1, <1>2, <1>3, <1>4, <1>6, <2>1 DEF CurInv, Creating
    <2>4. TodoInv'
      BY <1>1, <1>2, <1>6, <2>1 DEF TodoInv
    <2>5. ListedInv'
      BY <1>1, <1>2, <2>1 DEF ListedInv
    <2>6. StoredInv'
      BY <1>1, <1>2, <1>6, <2>1 DEF StoredInv
    <2>7. GoneInv'
      BY <1>1, <1>2, <1>6, <2>1 DEF GoneInv, GoneStaysGone
    <2>8. QED
      BY <2>2, <2>3, <2>4, <2>5, <2>6, <2>7
  <1>7. ASSUME NEW s \in Slots, s \in FreeSlots, idArray' = [idArray EXCEPT ![s] = cur.id],
               nvArray' = idArray', pc' = "ret",
               acked' = IF resetting THEN acked ELSE Put(acked, cur.id, cur.info)
        PROVE  BridgeInv'
    <2>1. idArray \in [Slots -> EndpointId] /\ Stored(idArray) = StoredIds /\ Distinct(idArray)
      BY <1>1, ArrayFacts
    <2>2. idArray[s] = kInvalidEndpointId
      BY <1>7 DEF FreeSlots
    <2>3. Distinct(idArray') /\ Stored(idArray') = StoredIds \cup {cur.id}
      <3>1. cur.id \notin Stored(idArray)
        BY <1>4, <2>1
      <3>2. Distinct(idArray') /\ Stored(idArray') = Stored(idArray) \cup {cur.id}
        BY <1>5, <1>7, <2>1, <2>2, <3>1, SlotFilled
      <3>3. QED
        BY <2>1, <3>2
    <2>4. nvArray' # NotFound
      <3>1. idArray' \in [Slots -> EndpointId]
        BY <1>5, <1>7, <2>1
      <3>2. QED
        BY <1>7, <3>1, BridgeAssumption
    <2>5. StoredIds' = StoredIds \cup {cur.id} /\ Distinct(nvArray')
      BY <1>7, <2>3, <2>4 DEF StoredIds
    <2>6. ControlInv'
      BY <1>1, <1>2, <1>3, <1>7 DEF ControlInv, Creating
    <2>7. KeysInv'
      BY <1>1, <1>2, <2>4 DEF KeysInv
    <2>8. CurInv'
      BY <1>1, <1>2, <1>3, <1>4, <1>7, <2>5 DEF CurInv, Creating
    <2>9. TodoInv'
      BY <1>1, <1>2, <1>3, <1>7, <2>5, NoneStored DEF TodoInv
    <2>10. ListedInv'
      BY <1>1, <1>2, <2>5 DEF ListedInv
    <2>11. StoredInv'
      <3>1. \A id \in (StoredIds \cup {cur.id}) \ Stored(todo) :
              nvInfo[id].parent \in Aggregators(image) => \E x \in Bridged : endpoints[x].id = id
        BY <1>1, <1>3, <1>4 DEF StoredInv
      <3>2. \A id \in StoredIds \cup {cur.id} \cup gone : Len(image) <= id
        BY <1>5 DEF StoredInv
      <3>3. QED
        BY <1>1, <1>2, <2>5, <3>1, <3>2 DEF StoredInv
    <2>12. GoneInv'
      BY <1>1, <1>2, <1>5, <1>7, <2>5 DEF GoneInv, GoneStaysGone
    <2>13. QED
      BY <2>6, <2>7, <2>8, <2>9, <2>10, <2>11, <2>12
  <1>8. QED
    BY <1>6, <1>7, OnlyOk DEF AddToArray, IsFirst, StoreArray

\* The id that leaves the array is that of the endpoint going away, or of none.
LEMMA EraseFromArrayKeeps ==
    ASSUME ReliableNvs, BaseInv, BridgeInv, EraseFromArray, UNCHANGED consoleVars
    PROVE  BridgeInv'
  <1> USE DEF BridgeInv
  <1>1. /\ pc = "e_array" /\ UNCHANGED tableVars
        /\ UNCHANGED <<cur, nvInfo, resetting, acked, gone, todo, ready, devices>>
    BY DEF EraseFromArray, consoleVars, history
  <1>2. /\ pc' = "e_info" /\ nvArray' = idArray'
        /\ idArray' = [s \in Slots |-> IF idArray[s] = cur.id THEN kInvalidEndpointId ELSE idArray[s]]
    BY OnlyOk DEF EraseFromArray, StoreArray
  <1>3. /\ Live' = Live /\ Bridged' = Bridged /\ LiveIds' = LiveIds
        /\ UNCHANGED <<endpoints, image, phase, minUnused, nvMin>>
    BY <1>1, SameTable
  <1>4. idArray \in [Slots -> EndpointId] /\ Stored(idArray) = StoredIds /\ Distinct(idArray)
    BY <1>1, ArrayFacts
  <1>5. Distinct(idArray') /\ Stored(idArray') = StoredIds \ {cur.id}
    BY <1>2, <1>4, SlotsCleared
  <1>6. nvArray' # NotFound
    <2>1. idArray' \in [Slots -> EndpointId]
      BY <1>2, <1>4, IdRange
    <2>2. QED
      BY <1>2, <2>1, BridgeAssumption
  <1>7. StoredIds' = StoredIds \ {cur.id} /\ Distinct(nvArray')
    BY <1>2, <1>5, <1>6 DEF StoredIds
  <1>8. cur.op # "none" /\ cur.op \in {"none", "create", "remove", "resume"}
    BY <1>1, CurFacts DEF ControlInv
  <1>9. \A h \in Bridged : h # cur.h => endpoints[h].id # cur.id
    <2>1. CASE cur.h = NoHandle
      <3>1. cur.id \notin LiveIds
        BY <1>8, <2>1 DEF ControlInv, CurInv
      <3>2. QED
        BY <3>1 DEF LiveIds, Bridged
    <2>2. CASE cur.h # NoHandle
      <3>1. cur.h \in Live /\ endpoints[cur.h].id = cur.id
        BY <1>1, <2>2, CurFacts DEF CurInv, CurId
      <3>2. QED
        BY <3>1, IdFacts
    <2>3. QED
      BY <2>1, <2>2
  <1>10. CurId' = CurId
    BY <1>1, <1>3 DEF CurId
  <1>11. ControlInv'
    BY <1>1, <1>2, <1>3, <1>8 DEF ControlInv, Creating
  <1>12. KeysInv'
    BY <1>1, <1>3, <1>6 DEF KeysInv
  <1>13. CurInv'
    BY <1>1, <1>2, <1>3, <1>7, <1>10 DEF CurInv, Creating
  <1>14. TodoInv'
    <2>1. cur.id \notin Stored(todo)
      BY <1>8, NoneStored DEF ControlInv, TodoInv
    <2>2. QED
      BY <1>1, <1>2, <1>3, <1>7, <2>1 DEF TodoInv
  <1>15. ListedInv'
    BY <1>1, <1>3, <1>7, <1>9 DEF ListedInv
  <1>16. StoredInv'
    BY <1>1, <1>2, <1>3, <1>7 DEF StoredInv
  <1>17. GoneInv'
    BY <1>1, <1>3, <1>7 DEF GoneInv, GoneStaysGone
  <1>18. QED
    BY <1>11, <1>12, <1>13, <1>14, <1>15, <1>16, <1>17

\* The info that is erased belongs to no id of the array.
LEMMA EraseInfoKeeps ==
    ASSUME ReliableNvs, BaseInv, BridgeInv, EraseInfo, UNCHANGED consoleVars
    PROVE  BridgeInv'
  <1> USE DEF BridgeInv
  <1>1. /\ pc = "e_info" /\ UNCHANGED tableVars
        /\ pc' = IF cur.h = NoHandle THEN "ret" ELSE "destroy"
        /\ UNCHANGED <<cur, nvArray, resetting, acked, gone, todo, ready, devices>>
    BY DEF EraseInfo, AfterErase, consoleVars, history
  <1>2. nvInfo' = Del(nvInfo, cur.id)
    BY OnlyOk DEF EraseInfo
  <1>3. /\ Live' = Live /\ Bridged' = Bridged /\ LiveIds' = LiveIds
        /\ UNCHANGED <<endpoints, image, phase, minUnused, nvMin>>
    BY <1>1, SameTable
  <1>4. StoredIds' = StoredIds
    BY <1>1, SameStored
  <1>5. cur.id \notin StoredIds /\ cur.op # "none"
    BY <1>1 DEF CurInv, ControlInv
  <1>6. /\ \A id \in StoredIds : nvInfo'[id] = nvInfo[id]
        /\ \A id \in DOMAIN nvInfo' : id \in DOMAIN nvInfo /\ nvInfo'[id] = nvInfo[id]
    BY <1>2, <1>5, IdFacts DEF Del
  <1>7. CurId' = CurId
    BY <1>1, <1>3 DEF CurId
  <1>8. ControlInv' /\ KeysInv'
    BY <1>1, <1>3, <1>5 DEF ControlInv, KeysInv, Creating
  <1>9. CurInv'
    BY <1>1, <1>3, <1>4, <1>5, <1>7 DEF CurInv, Creating
  <1>10. TodoInv'
    BY <1>1, <1>3, <1>4 DEF TodoInv
  <1>11. ListedInv'
    BY <1>1, <1>3, <1>4, <1>6 DEF ListedInv
  <1>12. StoredInv'
    BY <1>1, <1>3, <1>4, <1>6 DEF StoredInv
  <1>13. GoneInv'
    BY <1>1, <1>3, <1>4 DEF GoneInv, GoneStaysGone
  <1>14. QED
    BY <1>8, <1>9, <1>10, <1>11, <1>12, <1>13

\* The endpoint that is destroyed has no record left, and its id stays taken.
LEMMA DestroyKeeps ==
    ASSUME ReliableNvs, BaseInv, BridgeInv, DestroyEndpoint, UNCHANGED consoleVars
    PROVE  BridgeInv'
  <1> USE DEF BridgeInv
  <1>1. /\ pc = "destroy" /\ pc' = "ret" /\ Destroy(cur.h) /\ cur' = NoDevice
        /\ gone' = IF cur.op = "remove" /\ ~resetting THEN gone \cup {CurId} ELSE gone
        /\ UNCHANGED <<nvArray, nvInfo, resetting, acked, todo, ready, devices>>
    BY DEF DestroyEndpoint, nvBridge, consoleVars
  <1>2. cur.h \in Handle /\ cur.h \in Live /\ cur.h \in Bridged /\ cur.h # NoHandle
    BY <1>1, CurFacts
  <1>3. /\ Live' = Live \ {cur.h} /\ Bridged' = Bridged \ {cur.h}
        /\ \A x \in Live \ {cur.h} : endpoints'[x] = endpoints[x]
        /\ phase = "up" /\ UNCHANGED <<image, phase, minUnused, nvMin>>
    BY <1>1, <1>2, Destroyed DEF BaseInv, ConsoleTypeOK
  <1>4. StoredIds' = StoredIds
    BY <1>1, SameStored
  <1>5. cur'.h = NoHandle /\ cur'.op = "none"
    BY <1>1 DEF NoDevice
  <1>6. cur.id \notin StoredIds /\ endpoints[cur.h].id = cur.id /\ CurId = cur.id
    BY <1>1, <1>2 DEF CurInv, CurId
  <1>7. LiveIds' \subseteq LiveIds /\ cur.id \notin LiveIds'
    <2>1. \A x \in Live' : x \in Live /\ endpoints'[x].id = endpoints[x].id /\ endpoints[x].id # cur.id
      BY <1>2, <1>3, <1>6, IdFacts
    <2>2. QED
      BY <2>1 DEF LiveIds
  <1>8. \A x \in Bridged : x \in Live
    BY DEF Bridged
  <1>9. ControlInv' /\ KeysInv'
    BY <1>1, <1>3, <1>5 DEF ControlInv, KeysInv, Creating
  <1>10. CurInv'
    BY <1>1, <1>5 DEF CurInv, Creating
  <1>11. TodoInv'
    BY <1>1, <1>4, <1>5, <1>7 DEF TodoInv
  <1>12. ListedInv'
    BY <1>1, <1>3, <1>4, <1>8 DEF ListedInv
  <1>13. StoredInv'
    <2>1. ASSUME NEW id \in StoredIds \ Stored(todo), nvInfo[id].parent \in Aggregators(image)
          PROVE  \E x \in Bridged' : endpoints'[x].id = id
      <3>1. PICK x \in Bridged : endpoints[x].id = id
        BY <1>1, <1>6, <2>1 DEF StoredInv
      <3>2. x # cur.h
        BY <1>6, <2>1, <3>1
      <3>3. QED
        BY <1>3, <1>8, <3>1, <3>2
    <2>2. \A id \in gone' : Len(image) <= id
      BY SMT, <1>1, <1>2, <1>6, IdFacts DEF StoredInv
    <2>3. QED
      BY <1>1, <1>3, <1>4, <2>1, <2>2 DEF StoredInv
  <1>14. GoneInv'
    <2>1. \A id \in gone' \ gone : id = cur.id /\ ~resetting
      BY <1>1, <1>6
    <2>2. ~resetting => nvMin # NotFound /\ cur.id < nvMin
      <3>1. cur.id < minUnused
        BY <1>2, <1>6, IdFacts
      <3>2. ~resetting => nvMin # NotFound
        BY <1>3 DEF KeysInv
      <3>3. QED
        BY <1>3, <3>1, <3>2, IdFacts
    <2>3. \A id \in gone' : nvMin # NotFound /\ id < nvMin
      BY <2>1, <2>2 DEF GoneInv
    <2>4. gone' \cap (LiveIds' \cup StoredIds') = {}
      BY <1>4, <1>6, <1>7, <2>1 DEF GoneInv, GoneStaysGone
    <2>5. QED
      BY <1>1, <1>3, <2>3, <2>4 DEF GoneInv, GoneStaysGone
  <1>15. QED
    BY <1>9, <1>10, <1>11, <1>12, <1>13, <1>14

\* The console asks for the removal of a device it holds.
LEMMA RemoveKeeps ==
    ASSUME ReliableNvs, BaseInv, BridgeInv, RemoveDevice
    PROVE  BridgeInv'
  <1> USE DEF BridgeInv
  <1>1. PICK h \in devices : pc = "idle" /\ BeginRemove(h)
    BY DEF RemoveDevice
  <1>2. /\ h \in Live /\ pc' = "e_array" /\ UNCHANGED tableVars
        /\ cur' = [op |-> "remove", h |-> h, id |-> endpoints[h].id, info |-> NotFound]
        /\ acked' = Del(acked, endpoints[h].id)
        /\ UNCHANGED <<nvArray, nvInfo, resetting, gone>>
    BY <1>1 DEF BeginRemove, nvBridge
  <1>3. UNCHANGED <<todo, ready, devices>>
    BY DEF RemoveDevice, consoleVars
  <1>4. /\ Live' = Live /\ Bridged' = Bridged /\ LiveIds' = LiveIds
        /\ UNCHANGED <<endpoints, image, phase, minUnused, nvMin>>
    BY <1>2, SameTable
  <1>5. StoredIds' = StoredIds
    BY <1>2, SameStored
  <1>6. cur.h = NoHandle /\ cur.op = "none" /\ ready
    BY <1>1, CurFacts DEF ControlInv
  <1>7. cur'.op = "remove" /\ cur'.h = h /\ h # NoHandle /\ cur'.id = endpoints[h].id
    BY <1>2, BridgeAssumption DEF BaseInv, ConsoleTypeOK
  <1>8. DOMAIN acked' \subseteq DOMAIN acked
    BY <1>2 DEF Del
  <1>9. \A x \in Bridged : x # NoHandle
    BY BridgeAssumption DEF Bridged, BaseInv, ConsoleTypeOK, TableTypeOK
  <1>10. ControlInv' /\ KeysInv'
    BY <1>1, <1>2, <1>3, <1>4, <1>6, <1>7 DEF ControlInv, KeysInv, Creating
  <1>11. CurInv'
    BY <1>2, <1>4, <1>5, <1>7 DEF CurInv, Creating, CurId
  <1>12. TodoInv'
    BY <1>2, <1>3, <1>4, <1>5, <1>7 DEF TodoInv
  <1>13. ListedInv'
    BY <1>2, <1>3, <1>4, <1>5, <1>6, <1>9 DEF ListedInv
  <1>14. StoredInv'
    BY <1>1, <1>2, <1>3, <1>4, <1>5, <1>6 DEF StoredInv
  <1>15. GoneInv'
    BY <1>2, <1>4, <1>5, <1>8 DEF GoneInv, GoneStaysGone
  <1>16. QED
    BY <1>10, <1>11, <1>12, <1>13, <1>14, <1>15

\* The reset of the bridge erases its records; the endpoints stay until the restart.
LEMMA ResetBridgeKeeps ==
    ASSUME ReliableNvs, BaseInv, BridgeInv, ResetBridge
    PROVE  BridgeInv'
  <1> USE DEF BridgeInv
  <1>1. /\ pc = "idle" /\ pc' = "reset" /\ UNCHANGED tableVars /\ nvArray' = NotFound
        /\ nvInfo' = Empty /\ resetting' = TRUE /\ acked' = Empty /\ gone' = {}
        /\ UNCHANGED <<cur, todo, ready, devices>>
    BY DEF ResetBridge, BridgeReset, consoleVars, ReliableNvs
  <1>2. /\ Live' = Live /\ Bridged' = Bridged /\ LiveIds' = LiveIds
        /\ UNCHANGED <<endpoints, image, phase, minUnused, nvMin>>
    BY <1>1, SameTable
  <1>3. StoredIds' = {} /\ DOMAIN nvInfo' = {} /\ DOMAIN acked' = {}
    BY <1>1 DEF StoredIds, Empty
  <1>4. cur.h = NoHandle /\ cur.op = "none" /\ ready /\ todo = NoArray
    BY <1>1, CurFacts DEF ControlInv
  <1>5. ControlInv' /\ KeysInv'
    BY <1>1, <1>2, <1>4 DEF ControlInv, KeysInv, Creating
  <1>6. CurInv' /\ TodoInv'
    BY <1>1, <1>2, <1>3, <1>4, NoneStored DEF CurInv, TodoInv, Creating
  <1>7. ListedInv' /\ StoredInv'
    BY <1>1, <1>2, <1>3, <1>4 DEF ListedInv, StoredInv
  <1>8. GoneInv'
    BY <1>1, <1>3 DEF GoneInv, GoneStaysGone
  <1>9. QED
    BY <1>5, <1>6, <1>7, <1>8

\* The reset of the node erases the counter, and with it the history.
LEMMA ResetNodeKeeps ==
    ASSUME ReliableNvs, BaseInv, BridgeInv, ResetNode
    PROVE  BridgeInv'
  <1> USE DEF BridgeInv
  <1>1. /\ pc' = IF pc = "reset" THEN "idle" ELSE pc
        /\ UNCHANGED <<endpoints, image, phase, minUnused, cur, nvArray, nvInfo, todo, ready, devices>>
        /\ resetting' = TRUE /\ acked' = Empty /\ gone' = {} /\ phase = "up"
    BY DEF ResetNode, MatterReset, FactoryReset, nvBridge, consoleVars
  <1>2. Live' = Live /\ Bridged' = Bridged /\ LiveIds' = LiveIds /\ CurId' = CurId
    BY <1>1 DEF Live, Bridged, LiveIds, CurId
  <1>3. StoredIds' = StoredIds /\ DOMAIN acked' = {}
    BY <1>1, SameStored DEF Empty
  <1>4. ControlInv' /\ KeysInv'
    BY <1>1 DEF ControlInv, KeysInv, Creating
  <1>5. CurInv'
    BY SMT, <1>1, <1>2, <1>3 DEF CurInv, Creating
  <1>6. TodoInv'
    BY <1>1, <1>2, <1>3 DEF TodoInv
  <1>7. ListedInv'
    BY <1>1, <1>2, <1>3 DEF ListedInv
  <1>8. StoredInv'
    BY <1>1, <1>2, <1>3 DEF StoredInv
  <1>9. GoneInv'
    BY <1>1, <1>3 DEF GoneInv, GoneStaysGone
  <1>10. QED
    BY <1>4, <1>5, <1>6, <1>7, <1>8, <1>9

\* A restart keeps what NVS holds; an updated image declares no more endpoints.
LEMMA RestartKeeps ==
    ASSUME NonGrowing, ReliableNvs, BaseInv, BridgeInv, Restart
    PROVE  BridgeInv'
  <1> USE DEF BridgeInv
  <1>1. /\ Reboot /\ pc' = "off" /\ cur' = NoDevice /\ resetting' = FALSE
        /\ todo' = NoArray /\ ready' = FALSE /\ devices' = {}
        /\ UNCHANGED <<nvArray, nvInfo, acked, gone>>
    BY DEF Restart, BridgeReboot, nvBridge
  <1>2. phase' = "boot" /\ Live' = {} /\ nvMin' = nvMin
    BY <1>1 DEF Reboot, Live
  <1>3. Bridged' = {} /\ LiveIds' = {}
    BY <1>2 DEF Bridged, LiveIds
  <1>4. StoredIds' = StoredIds
    BY <1>1, SameStored
  <1>5. Len(image') <= Len(image) /\ Len(image') \in Nat /\ Len(image) \in Nat
    <2>1. image \in Images /\ Upgrades \subseteq Images \X Images
      BY ConstantsAssumption DEF BaseInv, ConsoleTypeOK, TableTypeOK
    <2>2. image' = image \/ \E u \in Upgrades : u[1] = image /\ u[2] = image'
      BY <1>1 DEF Reboot
    <2>3. QED
      BY SMT, <2>1, <2>2, ImageLength DEF NonGrowing
  <1>6. cur'.h = NoHandle /\ cur'.op = "none"
    BY <1>1 DEF NoDevice
  <1>7. ControlInv' /\ KeysInv'
    BY <1>1, <1>2, <1>6 DEF ControlInv, KeysInv, Creating
  <1>8. CurInv' /\ TodoInv'
    BY <1>1, <1>3, <1>4, <1>6, NoneStored DEF CurInv, TodoInv, Creating
  <1>9. ListedInv'
    BY <1>3 DEF ListedInv
  <1>10. StoredInv'
    <2>1. \A id \in StoredIds \cup gone : id \in Nat /\ Len(image) <= id
      <3>1. gone \subseteq Nat /\ StoredIds \subseteq Nat
        BY IdFacts, IdRange DEF BaseInv, ConsoleTypeOK, BridgeTypeOK
      <3>2. QED
        BY <3>1 DEF StoredInv
    <2>2. \A id \in StoredIds \cup gone : Len(image') <= id
      BY SMT, <1>5, <2>1
    <2>3. QED
      BY <1>1, <1>4, <2>2 DEF StoredInv
  <1>11. GoneInv'
    BY <1>1, <1>2, <1>3, <1>4 DEF GoneInv, GoneStaysGone
  <1>12. QED
    BY <1>7, <1>8, <1>9, <1>10, <1>11

\* Until the bridge starts only the endpoints of the image are created, with
\* ids below every stored or removed one.
LEMMA NodeBootKeeps ==
    ASSUME ReliableNvs, BaseInv, BaseInv', BridgeInv, NodeBoot, UNCHANGED consoleVars
    PROVE  BridgeInv'
  <1> USE DEF BridgeInv
  <1>1. UNCHANGED <<pc, cur, nvArray, nvInfo, resetting, acked, gone, todo, ready, devices>>
    BY DEF NodeBoot, bridgeVars, nvBridge, history, consoleVars
  <1>2. phase # "up" /\ image' = image
    BY DEF NodeBoot, CreateStatic, Start, FinishMigration
  <1>3. pc = "off" /\ cur.h = NoHandle /\ cur.op = "none" /\ todo = NoArray
    BY <1>2, CurFacts DEF ControlInv
  <1>4. StoredIds' = StoredIds
    BY <1>1, SameStored
  <1>5. Bridged' = {}
    BY <1>1, <1>3 DEF BaseInv, OrphanInv
  <1>6. \A id \in LiveIds' : id \in Nat /\ id < Len(image)
    <2>1. \A h \in Live' : endpoints'[h].id < Len(image)
      BY <1>2, <1>5 DEF BaseInv, StaticInv
    <2>2. \A h \in Live' : endpoints'[h].id \in Nat
      BY IdRange DEF BaseInv, ConsoleTypeOK, TableTypeOK, Endpoint
    <2>3. QED
      BY <2>1, <2>2 DEF LiveIds
  <1>7. /\ nvMin # NotFound => nvMin' = nvMin
        /\ phase' = "up" => nvMin' # NotFound
    <2>1. phase # "migrate" /\ phase \in {"boot", "migrate", "up"}
      BY DEF BaseInv, ReservedInv, ConsoleTypeOK, TableTypeOK
    <2>2. CASE \E h \in Handle : CreateStatic(h)
      BY <2>2 DEF CreateStatic
    <2>3. CASE Start
      <3>1. CASE nvMin # NotFound
        BY <2>3, <3>1 DEF Start, ReadMinUnused, ReliableNvs
      <3>2. CASE nvMin = NotFound
        <4>1. nvMin' = minUnused' /\ minUnused' = minUnused
          BY <2>3, <3>2 DEF Start, ReadMinUnused, StoreMinUnused, NvsPutMin, ReliableNvs,
                            BaseInv, ReservedInv
        <4>2. minUnused \in Nat
          BY IdFacts
        <4>3. QED
          BY <3>2, <4>1, <4>2, ConstantsAssumption
      <3>3. QED
        BY <3>1, <3>2
    <2>4. QED
      BY <1>2, <2>1, <2>2, <2>3 DEF NodeBoot, FinishMigration
  <1>8. ControlInv' /\ KeysInv'
    BY <1>1, <1>3, <1>7 DEF ControlInv, KeysInv, Creating
  <1>9. CurInv' /\ TodoInv'
    BY <1>1, <1>3, <1>4, NoneStored DEF CurInv, TodoInv, Creating
  <1>10. ListedInv'
    BY <1>5 DEF ListedInv
  <1>11. StoredInv'
    BY <1>1, <1>2, <1>3, <1>4 DEF StoredInv
  <1>12. GoneInv'
    <2>1. gone \cap LiveIds' = {}
      <3>1. \A id \in gone : id \in Nat /\ Len(image) <= id /\ Len(image) \in Nat
        BY IdFacts, IdRange DEF StoredInv, BaseInv, ConsoleTypeOK, BridgeTypeOK
      <3>2. QED
        BY SMT, <1>6, <3>1
    <2>2. \A id \in gone : nvMin' # NotFound /\ id < nvMin'
      BY <1>7 DEF GoneInv
    <2>3. QED
      BY <1>1, <1>4, <2>1, <2>2 DEF GoneInv, GoneStaysGone
  <1>13. QED
    BY <1>8, <1>9, <1>10, <1>11, <1>12

\* What the bridge's invariant rests on holds at first and is kept by every step.
LEMMA BaseKept ==
    ASSUME NonGrowing, ReliableNvs
    PROVE  /\ Init => BaseInv
           /\ BaseInv /\ [Next]_vars => BaseInv'
  <1>1. ASSUME Init PROVE BaseInv
    <2>1. ConsoleTypeOK /\ ArrayInv
      BY <1>1, ConsoleInitType, InitArray DEF Init
    <2>2. ReservedInv
      BY <1>1, InitReserved DEF Init
    <2>4. Bridged = {} /\ StaticInv
      BY <1>1, EmptyStatic DEF Init, TableInit, BootState, Live, Bridged
    <2>5. OrphanInv
      BY <1>1, <2>4 DEF Init, TableInit, BootState, BridgeInit, BridgeRam, NoDevice, OrphanInv, Live
    <2>6. QED
      BY <2>1, <2>2, <2>4, <2>5 DEF BaseInv
  <1>2. ASSUME BaseInv, [Next]_vars PROVE BaseInv'
    <2>1. ConsoleTypeOK /\ ReservedInv /\ StaticInv /\ OrphanInv /\ ArrayInv /\ TableTypeOK
      BY <1>2 DEF BaseInv, ConsoleTypeOK
    <2>2. ConsoleTypeOK' /\ [TableNext]_tableVars
      BY <1>2, <2>1, ConsoleNextType, TableStep
    <2>3. ReservedInv' /\ StaticInv'
      BY <2>1, <2>2, NextReserved, NextStatic
    <2>4. OrphanInv'
      BY <1>2, <2>1, NextOrphan
    <2>5. ArrayInv'
      <3>1. CASE Next
        BY <2>1, <3>1, NextArray
      <3>2. CASE UNCHANGED vars
        <4>1. UNCHANGED <<pc, cur, idArray, nvArray, nvArrayOld, nvInfo, nvInfoOld>>
          BY <3>2 DEF vars, bridgeVars, nvBridge
        <4>2. StoredIds' = StoredIds
          BY <4>1, SameStored
        <4>3. QED
          BY <2>1, <4>1, <4>2 DEF ArrayInv, SameArray
      <3>3. QED
        BY <1>2, <3>1, <3>2
    <2>6. QED
      BY <2>2, <2>3, <2>4, <2>5 DEF BaseInv
  <1>3. QED
    BY <1>1, <1>2

\* The bridge's invariant holds at first: nothing is bridged.
LEMMA InitBridge ==
    ASSUME ReliableNvs, Init
    PROVE  BridgeInv
  <1>1. /\ nvArray = NotFound /\ nvInfo = Empty /\ gone = {} /\ resetting = FALSE
        /\ pc = "off" /\ cur = NoDevice /\ todo = NoArray /\ ready = FALSE /\ phase = "boot"
        /\ Live = {}
    BY DEF Init, TableInit, BootState, BridgeInit, BridgeRam, Live
  <1>2. StoredIds = {} /\ Bridged = {} /\ LiveIds = {} /\ DOMAIN nvInfo = {}
    BY <1>1 DEF StoredIds, Bridged, LiveIds, Empty
  <1>3. cur.h = NoHandle /\ cur.op = "none"
    BY <1>1 DEF NoDevice
  <1>4. ControlInv /\ KeysInv /\ CurInv
    BY <1>1, <1>3 DEF ControlInv, KeysInv, CurInv, Creating
  <1>5. TodoInv /\ ListedInv /\ StoredInv /\ GoneInv
    BY <1>1, <1>2, <1>3, NoneStored DEF TodoInv, ListedInv, StoredInv, GoneInv, GoneStaysGone
  <1>6. QED
    BY <1>4, <1>5 DEF BridgeInv

\* Every step keeps it.
LEMMA NextBridge ==
    ASSUME NonGrowing, ReliableNvs, AggregatorsStay
    PROVE  BaseInv /\ BridgeInv /\ [Next]_vars => BridgeInv'
  <1> SUFFICES ASSUME BaseInv, BridgeInv, [Next]_vars PROVE BridgeInv'
    OBVIOUS
  <1>b. BaseInv'
    BY BaseKept
  <1>p. pc \notin {"m_array", "m_info", "initfail"}
    BY DEF BridgeInv, ControlInv
  <1>1. CASE UNCHANGED vars \/ (StoreAttributes /\ UNCHANGED consoleVars)
    <2>1. /\ UNCHANGED tableVars
          /\ UNCHANGED <<pc, cur, nvArray, nvInfo, resetting, acked, gone, todo, ready>>
      BY <1>1 DEF vars, bridgeVars, nvBridge, history, consoleVars, StoreAttributes, StoreAttribute
    <2>2. /\ Live' = Live /\ Bridged' = Bridged /\ LiveIds' = LiveIds
          /\ UNCHANGED <<endpoints, image, phase, minUnused, nvMin>>
      BY <2>1, SameTable
    <2>3. StoredIds' = StoredIds
      BY <2>1, SameStored
    <2>4. ControlInv' /\ KeysInv' /\ TodoInv'
      BY <2>1, <2>2, <2>3 DEF BridgeInv, ControlInv, KeysInv, TodoInv, Creating
    <2>5. CurInv'
      BY SMT, <2>1, <2>2, <2>3 DEF BridgeInv, CurInv, CurId, Creating
    <2>6. ListedInv' /\ StoredInv' /\ GoneInv'
      BY <2>1, <2>2, <2>3 DEF BridgeInv, ListedInv, StoredInv, GoneInv, GoneStaysGone
    <2>7. QED
      BY <2>4, <2>5, <2>6 DEF BridgeInv
  <1>2. CASE NodeBoot /\ UNCHANGED consoleVars
    BY <1>2, <1>b, NodeBootKeeps
  <1>3. CASE LibraryStep /\ UNCHANGED consoleVars
    <2>1. CASE Initialize
      BY <1>3, <2>1, InitializeKeeps
    <2>2. CASE FinishArrayMigration \/ FinishInfoMigration
      BY <1>p, <2>2 DEF FinishArrayMigration, FinishInfoMigration
    <2>3. CASE SetTypeOnCreate
      BY SMT, <1>3, <2>3, SetTypeOnCreateKeeps
    <2>4. CASE StoreInfo
      BY <1>3, <2>4, StoreInfoKeeps
    <2>5. CASE AddToArray
      BY <1>3, <2>5, AddToArrayKeeps
    <2>6. CASE EraseFromArray
      BY <1>3, <2>6, EraseFromArrayKeeps
    <2>7. CASE EraseInfo
      BY <1>3, <2>7, EraseInfoKeeps
    <2>8. CASE DestroyEndpoint
      BY <1>3, <2>8, DestroyKeeps
    <2>9. CASE ResumeEndpoint
      BY <1>3, <2>9, ResumeEndpointKeeps
    <2>10. CASE SetTypeOnResume
      BY <1>3, <2>10, SetTypeOnResumeKeeps
    <2>11. QED
      BY <1>3, <2>1, <2>2, <2>3, <2>4, <2>5, <2>6, <2>7, <2>8, <2>9, <2>10 DEF LibraryStep
  <1>4. CASE CopyArray
    BY <1>4, CopyKeeps
  <1>5. CASE InitFailed
    BY <1>5, <1>p DEF InitFailed
  <1>6. CASE ResumeNext
    BY <1>6, ResumeNextKeeps
  <1>7. CASE LoopDone
    BY <1>7, LoopDoneKeeps
  <1>8. CASE Return
    BY <1>8, ReturnKeeps
  <1>9. CASE AddDevice
    BY <1>9, AddDeviceKeeps
  <1>10. CASE RemoveDevice
    BY <1>10, RemoveKeeps
  <1>11. CASE ResetBridge
    BY <1>11, ResetBridgeKeeps
  <1>12. CASE ResetNode
    BY <1>12, ResetNodeKeeps
  <1>13. CASE Restart
    BY <1>13, RestartKeeps
  <1>14. QED
    BY <1>1, <1>2, <1>3, <1>4, <1>5, <1>6, <1>7, <1>8, <1>9, <1>10, <1>11, <1>12, <1>13 DEF Next

\* A device whose removal returned does not come back, over any number of
\* reboots, updates and further devices, until a factory reset.
THEOREM RemovedStayRemoved ==
    ASSUME NonGrowing, ReliableNvs, AggregatorsStay
    PROVE  Spec => []GoneStaysGone
  <1>1. BridgeInv => GoneStaysGone
    BY DEF BridgeInv, GoneInv
  <1>2. QED
    BY <1>1, BaseKept, InitBridge, NextBridge, PTL DEF Spec

\* Between commands the array in RAM, the array in NVS and the console's list
\* agree, for every number of slots, devices and images.
THEOREM RecordsInStep ==
    ASSUME NonGrowing, ReliableNvs, AggregatorsStay
    PROVE  Spec => []RecordsAgree
  <1>1. ASSUME BaseInv, BridgeInv PROVE RecordsAgree
    <2> USE <1>1
    <2>1. SUFFICES ASSUME Idle, ~resetting
                   PROVE  /\ nvArray = idArray
                          /\ {IdOf(h) : h \in devices} =
                                {id \in Stored(idArray) :
                                    id \in DOMAIN nvInfo => ParentIsValid(nvInfo[id].parent)}
                          /\ Distinct(idArray)
      BY DEF RecordsAgree, Distinct
    <2>2. pc = "idle" /\ ready /\ cur.h = NoHandle /\ cur.op = "none" /\ phase = "up"
      BY <2>1, CurFacts DEF Idle, BridgeInv, ControlInv
    <2>3. nvArray = idArray
      BY <2>1, <2>2 DEF BridgeInv, KeysInv, BaseInv, ArrayInv, SameArray
    <2>4. Stored(idArray) = StoredIds /\ Distinct(idArray)
      BY <2>2, ArrayFacts DEF BridgeInv
    <2>5. Bridged = devices /\ devices \subseteq Live
      BY <2>2 DEF BaseInv, OrphanInv
    <2>6. StoredIds \subseteq DOMAIN nvInfo /\ \A id \in StoredIds : nvInfo[id].parent \in EndpointId
      BY IdFacts DEF BaseInv, ConsoleTypeOK, BridgeTypeOK, OfIds, Info
    <2>7. \A p \in EndpointId : ParentIsValid(p) <=> p \in Aggregators(image)
      BY <2>2, ParentByImage DEF BaseInv, ConsoleTypeOK, ParentsFromImage
    <2>8. ASSUME NEW h \in devices
          PROVE  endpoints[h].id \in StoredIds /\ ParentIsValid(nvInfo[endpoints[h].id].parent)
      <3>1. h \in Bridged /\ h # cur.h
        BY <2>2, <2>5, BridgeAssumption DEF BaseInv, ConsoleTypeOK
      <3>2. endpoints[h].id \in StoredIds /\ nvInfo[endpoints[h].id].parent = endpoints[h].parent
        BY <2>1, <3>1 DEF BridgeInv, ListedInv
      <3>3. endpoints[h].parent \in Aggregators(image)
        BY <2>5 DEF BaseInv, OrphanInv
      <3>4. QED
        BY <2>6, <2>7, <3>2, <3>3
    <2>9. ASSUME NEW id \in StoredIds, ParentIsValid(nvInfo[id].parent)
          PROVE  \E h \in devices : endpoints[h].id = id
      <3>1. nvInfo[id].parent \in Aggregators(image)
        BY <2>6, <2>7, <2>9
      <3>2. Stored(todo) = {}
        BY <2>2, NoneStored DEF BridgeInv, ControlInv
      <3>3. QED
        BY <2>2, <2>5, <3>1, <3>2 DEF BridgeInv, StoredInv
    <2>10. {endpoints[h].id : h \in devices} = {id \in StoredIds : ParentIsValid(nvInfo[id].parent)}
      BY <2>8, <2>9
    <2>11. QED
      BY <2>3, <2>4, <2>6, <2>10 DEF IdOf
  <1>2. QED
    BY <1>1, BaseKept, InitBridge, NextBridge, PTL DEF Spec

\* erase_bridged_device_info never clears the record of another live endpoint,
\* whichever failure or command led to it.
THEOREM ErasesOnlyItsOwn ==
    ASSUME NonGrowing, ReliableNvs, AggregatorsStay
    PROVE  Spec => []ErasesOnlyRemoved
  <1>1. ASSUME BaseInv, BridgeInv PROVE ErasesOnlyRemoved
    <2> USE <1>1
    <2>1. SUFFICES ASSUME pc = "e_info", NEW h \in Live \ {cur.h}, endpoints[h].kind = "bridged",
                          endpoints[h].id = cur.id
                   PROVE  FALSE
      BY DEF ErasesOnlyRemoved
    <2>2. CASE cur.h # NoHandle
      BY SMT, <2>1, <2>2, CurFacts, IdFacts DEF BridgeInv, CurInv, CurId
    <2>3. CASE cur.h = NoHandle
      <3>1. cur.op = "resume"
        BY <2>1, <2>3, CurFacts DEF BridgeInv, ControlInv
      <3>2. cur.id \notin LiveIds
        BY <2>3, <3>1 DEF BridgeInv, CurInv
      <3>3. QED
        BY <2>1, <3>2 DEF LiveIds
    <2>4. QED
      BY <2>2, <2>3
  <1>2. QED
    BY <1>1, BaseKept, InitBridge, NextBridge, PTL DEF Spec

-----------------------------------------------------------------------------
(* No device whose creation returned is lost. *)

\* NVS has every device whose creation returned; no image refuses it, and
\* nothing that is being erased is one of them.
AckedInv ==
    /\ AckedPersisted
    /\ \A id \in DOMAIN acked : acked[id].type \in Supported[image]
    /\ Creating => cur.info.type \in Supported[image]
    /\ pc \in {"e_array", "e_info"} => cur.id \notin DOMAIN acked

\* A step that leaves the records of these devices alone keeps it, when it
\* begins neither a device of a type unknown nor the removal of one of them.
LEMMA AckedKept ==
    ASSUME AckedInv, UNCHANGED <<image, acked>>,
           \A id \in DOMAIN acked : /\ id \in StoredIds' /\ id \in DOMAIN nvInfo'
                                    /\ nvInfo'[id] = nvInfo[id]
                                    /\ nvMin' # NotFound /\ id < nvMin',
           Creating' => cur'.info.type \in Supported[image],
           pc' \in {"e_array", "e_info"} => cur'.id \notin DOMAIN acked
    PROVE  AckedInv'
  BY DEF AckedInv, AckedPersisted

\* Each library step keeps it.
LEMMA LibraryAcked ==
    ASSUME ReliableNvs, BaseInv, BridgeInv, AckedInv, LibraryStep
    PROVE  AckedInv'
  <1> USE DEF BridgeInv
  <1>a. \A id \in DOMAIN acked : /\ id \in StoredIds /\ id \in DOMAIN nvInfo
                                 /\ nvInfo[id] = acked[id] /\ acked[id].type \in Supported[image]
                                 /\ nvMin # NotFound /\ id < nvMin
    BY DEF AckedInv, AckedPersisted
  <1>o. \A o \in Outcome : o = "ok"
    BY OnlyOk
  <1>p. pc \notin {"m_array", "m_info", "initfail"}
    BY DEF ControlInv
  <1>1. CASE Initialize
    <2>1. UNCHANGED tableVars /\ acked' = acked /\ cur' = cur /\ pc = "off" /\ nvInfo' = nvInfo
      BY <1>1 DEF Initialize, history, nvBridge
    <2>2. pc' = "copy" /\ (nvArray' = nvArray \/ nvArray = NotFound)
      BY <1>1, <1>o DEF Initialize, nvBridge, BaseInv, ArrayInv, ReliableNvs
    <2>3. \A id \in DOMAIN acked : id \in StoredIds'
      BY <1>a, <2>2, SameStored DEF StoredIds
    <2>4. UNCHANGED <<image, nvMin>>
      BY <2>1, SameTable
    <2>5. QED
      BY <1>a, <2>1, <2>2, <2>3, <2>4, AckedKept DEF Creating
  <1>2. CASE FinishArrayMigration \/ FinishInfoMigration
    BY <1>2, <1>p DEF FinishArrayMigration, FinishInfoMigration
  <1>3. CASE SetTypeOnCreate
    <2>1. pc = "c_type" /\ cur.info.type \in Supported[image]
      BY <1>3 DEF SetTypeOnCreate, CurInv
    <2>2. /\ UNCHANGED <<nvArray, nvInfo, acked>> /\ pc' = "c_info"
          /\ \E g \in Live : SetParent(cur.h, g)
          /\ cur' = [cur EXCEPT !.id = CurId]
      BY <1>3, <2>1 DEF SetTypeOnCreate, nvBridge, history
    <2>3. StoredIds' = StoredIds /\ UNCHANGED <<image, nvMin>>
      BY <2>2, SameStored DEF SetParent
    <2>4. cur'.info = cur.info
      BY <2>2, CurFacts
    <2>5. QED
      BY <1>a, <2>1, <2>2, <2>3, <2>4, AckedKept
  <1>4. CASE StoreInfo
    <2>1. /\ pc = "c_info" /\ pc' = "c_array" /\ nvInfo' = Put(nvInfo, cur.id, cur.info)
          /\ UNCHANGED tableVars /\ UNCHANGED <<nvArray, cur, acked>>
      BY <1>4, <1>o DEF StoreInfo, history
    <2>2. StoredIds' = StoredIds /\ UNCHANGED <<image, nvMin>>
      BY <2>1, SameStored, SameTable
    <2>3. cur.id \notin DOMAIN acked
      <3>1. cur.id = CurId /\ CurId \notin StoredIds
        BY <2>1, CurFacts DEF CurInv, Creating
      <3>2. QED
        BY <1>a, <3>1
    <2>4. \A id \in DOMAIN acked : id \in DOMAIN nvInfo' /\ nvInfo'[id] = nvInfo[id]
      BY <1>a, <2>1, <2>3 DEF Put
    <2>5. cur'.info.type \in Supported[image]
      BY <2>1 DEF AckedInv, Creating
    <2>6. QED
      BY <1>a, <2>1, <2>2, <2>4, <2>5, AckedKept
  <1>5. CASE AddToArray
    <2>1. /\ pc = "c_array" /\ UNCHANGED tableVars /\ UNCHANGED <<nvInfo, cur, resetting>>
      BY <1>5 DEF AddToArray
    <2>2. UNCHANGED <<image, nvMin>>
      BY <2>1, SameTable
    <2>3. /\ cur.id = CurId /\ CurId \notin StoredIds /\ nvInfo[cur.id] = cur.info
          /\ cur.id \in DOMAIN nvInfo /\ cur.info.type \in Supported[image]
      BY <2>1, CurFacts DEF CurInv, Creating, AckedInv, BaseInv, ArrayInv
    <2>4. ASSUME pc' = "e_array", UNCHANGED <<nvArray, acked>> PROVE AckedInv'
      <3>1. StoredIds' = StoredIds
        BY <2>4, SameStored
      <3>2. QED
        BY <1>a, <2>1, <2>2, <2>3, <2>4, <3>1, AckedKept DEF Creating
    <2>5. ASSUME NEW s \in Slots, IsFirst(s, FreeSlots), idArray' = [idArray EXCEPT ![s] = cur.id],
                 nvArray' = idArray', pc' = "ret",
                 acked' = IF resetting THEN acked ELSE Put(acked, cur.id, cur.info)
          PROVE  AckedInv'
      <3>1. idArray \in [Slots -> EndpointId] /\ Stored(idArray) = StoredIds /\ Distinct(idArray)
        BY <2>1, ArrayFacts
      <3>2. cur.h \in Live /\ cur.id \in EndpointId /\ cur.id < minUnused /\ phase = "up"
        BY <2>1, <2>3, CurFacts, IdFacts DEF CurId
      <3>3. cur.id # kInvalidEndpointId
        BY SMT, <3>2, IdFacts, IdRange
      <3>4. idArray[s] = kInvalidEndpointId /\ cur.id \notin Stored(idArray)
        BY <2>3, <2>5, <3>1 DEF IsFirst, FreeSlots
      <3>5. Stored(idArray') = StoredIds \cup {cur.id}
        <4>1. Stored(idArray') = Stored(idArray) \cup {cur.id}
          BY <2>5, <3>1, <3>2, <3>3, <3>4, SlotFilled
        <4>2. QED
          BY <3>1, <4>1
      <3>6. idArray' \in [Slots -> EndpointId]
        BY <2>5, <3>1, <3>2
      <3>7. StoredIds' = StoredIds \cup {cur.id}
        BY <2>5, <3>5, <3>6, BridgeAssumption DEF StoredIds
      <3>8. ~resetting => nvMin # NotFound /\ cur.id < nvMin
        BY <3>2, IdFacts DEF KeysInv
      <3>9. CASE resetting
        BY <1>a, <2>1, <2>2, <2>5, <3>7, <3>9, AckedKept DEF Creating
      <3>10. CASE ~resetting
        <4>1. /\ DOMAIN acked' = DOMAIN acked \cup {cur.id} /\ acked'[cur.id] = cur.info
              /\ \A id \in DOMAIN acked \ {cur.id} : acked'[id] = acked[id]
          BY <2>5, <3>10 DEF Put
        <4>2. ASSUME NEW id \in DOMAIN acked'
              PROVE  /\ id \in StoredIds' /\ id \in DOMAIN nvInfo' /\ nvInfo'[id] = acked'[id]
                     /\ nvMin' # NotFound /\ id < nvMin' /\ acked'[id].type \in Supported[image']
          <5>1. CASE id = cur.id
            BY <2>1, <2>2, <2>3, <3>7, <3>8, <3>10, <4>1, <5>1
          <5>2. CASE id # cur.id
            BY <1>a, <2>1, <2>2, <3>7, <4>1, <4>2, <5>2
          <5>3. QED
            BY <5>1, <5>2
        <4>3. QED
          BY <2>5, <4>2 DEF AckedInv, AckedPersisted, Creating
      <3>11. QED
        BY <3>9, <3>10
    <2>6. QED
      BY <1>5, <1>o, <2>4, <2>5 DEF AddToArray, StoreArray
  <1>6. CASE EraseFromArray
    <2>1. /\ pc = "e_array" /\ pc' = "e_info" /\ UNCHANGED tableVars
          /\ UNCHANGED <<nvInfo, cur, acked>> /\ nvArray' = idArray'
          /\ idArray' = [s \in Slots |-> IF idArray[s] = cur.id THEN kInvalidEndpointId ELSE idArray[s]]
      BY <1>6, <1>o DEF EraseFromArray, StoreArray, history
    <2>2. idArray \in [Slots -> EndpointId] /\ Stored(idArray) = StoredIds /\ Distinct(idArray)
      BY <2>1, ArrayFacts
    <2>3. Stored(idArray') = StoredIds \ {cur.id}
      BY <2>1, <2>2, SlotsCleared
    <2>4. idArray' \in [Slots -> EndpointId]
      BY <2>1, <2>2, IdRange
    <2>5. StoredIds' = StoredIds \ {cur.id}
      BY <2>1, <2>3, <2>4, BridgeAssumption DEF StoredIds
    <2>6. cur.id \notin DOMAIN acked
      BY <2>1 DEF AckedInv
    <2>7. UNCHANGED <<image, nvMin>>
      BY <2>1, SameTable
    <2>8. QED
      BY <1>a, <2>1, <2>5, <2>6, <2>7, AckedKept DEF Creating
  <1>7. CASE EraseInfo
    <2>1. /\ pc = "e_info" /\ pc' \in {"ret", "destroy"} /\ UNCHANGED tableVars
          /\ UNCHANGED <<nvArray, cur, acked>> /\ nvInfo' = Del(nvInfo, cur.id)
      BY <1>7, <1>o DEF EraseInfo, AfterErase, history
    <2>2. cur.id \notin DOMAIN acked
      BY <2>1 DEF AckedInv
    <2>3. StoredIds' = StoredIds /\ UNCHANGED <<image, nvMin>>
      BY <2>1, SameStored, SameTable
    <2>4. \A id \in DOMAIN acked : id \in DOMAIN nvInfo' /\ nvInfo'[id] = nvInfo[id]
      BY <1>a, <2>1, <2>2 DEF Del
    <2>5. QED
      BY <1>a, <2>1, <2>3, <2>4, AckedKept DEF Creating
  <1>8. CASE DestroyEndpoint
    <2>1. UNCHANGED <<image, nvMin, nvArray, nvInfo, acked>> /\ pc' = "ret"
      BY <1>8 DEF DestroyEndpoint, Destroy, nvBridge
    <2>2. StoredIds' = StoredIds
      BY <2>1, SameStored
    <2>3. QED
      BY <1>a, <2>1, <2>2, AckedKept DEF Creating
  <1>9. CASE ResumeEndpoint
    <2>1. UNCHANGED <<nvArray, nvInfo, acked>> /\ pc = "r_endpoint" /\ pc' \in {"ret", "e_array", "r_type"}
      BY <1>9 DEF ResumeEndpoint, nvBridge, history
    <2>2. StoredIds' = StoredIds /\ UNCHANGED <<image, nvMin>>
      BY <1>9, <2>1, SameStored DEF ResumeEndpoint, Resume, tableVars
    <2>3. ASSUME pc' = "e_array" PROVE cur'.id \notin DOMAIN acked
      <3>1. cur' = cur /\ ~CanResume(cur.id)
        BY <1>9, <2>3 DEF ResumeEndpoint
      <3>2. cur.id \notin LiveIds /\ phase = "up"
        BY <2>1, CurFacts DEF CurInv, ControlInv
      <3>3. ASSUME cur.id \in DOMAIN acked PROVE FALSE
        <4>1. cur.id < minUnused
          BY <1>a, <3>2, <3>3, IdFacts
        <4>2. QED
          BY <3>1, <3>2, <4>1 DEF CanResume
      <3>4. QED
        BY <3>1, <3>3
    <2>4. QED
      BY <1>a, <2>1, <2>2, <2>3, AckedKept DEF Creating
  <1>10. CASE SetTypeOnResume
    <2>1. UNCHANGED <<nvArray, nvInfo, acked, cur>> /\ pc = "r_type" /\ pc' \in {"ret", "e_array"}
      BY <1>10 DEF SetTypeOnResume, nvBridge, history
    <2>2. StoredIds' = StoredIds /\ UNCHANGED <<image, nvMin>>
      BY <1>10, <2>1, SameStored DEF SetTypeOnResume, SetParent, tableVars
    <2>3. ASSUME pc' = "e_array" PROVE cur'.id \notin DOMAIN acked
      <3>1. cur.info.type \notin Supported[image]
        BY <1>10, <2>3 DEF SetTypeOnResume
      <3>2. nvInfo[cur.id] = cur.info
        BY <2>1 DEF CurInv
      <3>3. QED
        BY <1>a, <2>1, <3>1, <3>2
    <2>4. QED
      BY <1>a, <2>1, <2>2, <2>3, AckedKept DEF Creating
  <1>11. QED
    BY <1>1, <1>2, <1>3, <1>4, <1>5, <1>6, <1>7, <1>8, <1>9, <1>10 DEF LibraryStep

\* Each step of the console and of the node around it keeps it.
LEMMA NextAcked ==
    ASSUME ReliableNvs, TypesKept
    PROVE  BaseInv /\ BridgeInv /\ AckedInv /\ [Next]_vars => AckedInv'
  <1> SUFFICES ASSUME BaseInv, BridgeInv, AckedInv, [Next]_vars PROVE AckedInv'
    OBVIOUS
  <1> USE DEF BridgeInv
  <1>a. \A id \in DOMAIN acked : /\ id \in StoredIds /\ id \in DOMAIN nvInfo
                                 /\ nvInfo[id] = acked[id] /\ acked[id].type \in Supported[image]
                                 /\ nvMin # NotFound /\ id < nvMin
    BY DEF AckedInv, AckedPersisted
  <1>e. ASSUME DOMAIN acked' = {}, Creating' => cur'.info.type \in Supported[image'] PROVE AckedInv'
    BY <1>e DEF AckedInv, AckedPersisted
  <1>1. CASE UNCHANGED vars \/ (StoreAttributes /\ UNCHANGED consoleVars)
    <2>1. UNCHANGED tableVars /\ UNCHANGED <<pc, cur, nvArray, nvInfo, acked>>
      BY <1>1 DEF vars, bridgeVars, nvBridge, history, StoreAttributes, StoreAttribute
    <2>2. StoredIds' = StoredIds /\ UNCHANGED <<image, nvMin>>
      BY <2>1, SameStored, SameTable
    <2>3. QED
      BY <1>a, <2>1, <2>2, AckedKept DEF AckedInv, Creating
  <1>2. CASE NodeBoot /\ UNCHANGED consoleVars
    <2>1. UNCHANGED <<pc, cur, nvArray, nvInfo, acked>>
      BY <1>2 DEF NodeBoot, bridgeVars, nvBridge, history
    <2>2. phase # "up" /\ phase # "migrate" /\ image' = image
      BY <1>2 DEF NodeBoot, CreateStatic, Start, FinishMigration, BaseInv, ReservedInv
    <2>3. pc = "off"
      BY <2>2, CurFacts
    <2>4. nvMin # NotFound => nvMin' = nvMin
      BY <1>2, <2>2 DEF NodeBoot, CreateStatic, Start, ReadMinUnused, FinishMigration, ReliableNvs
    <2>5. StoredIds' = StoredIds
      BY <2>1, SameStored
    <2>6. QED
      BY <1>a, <2>1, <2>2, <2>3, <2>4, <2>5, AckedKept DEF Creating
  <1>3. CASE LibraryStep
    BY <1>3, LibraryAcked
  <1>4. CASE CopyArray \/ InitFailed \/ LoopDone \/ Return
    <2>1. UNCHANGED <<nvArray, nvInfo, acked>> /\ pc' \in {"loop", "idle"}
      BY <1>4 DEF CopyArray, InitFailed, LoopDone, Return, nvBridge, history
    <2>2. UNCHANGED <<image, nvMin>>
      BY <1>4 DEF CopyArray, InitFailed, LoopDone, Return, Enable, SetEnabled, tableVars
    <2>3. StoredIds' = StoredIds
      BY <2>1, SameStored
    <2>4. QED
      BY <1>a, <2>1, <2>2, <2>3, AckedKept DEF Creating
  <1>5. CASE ResumeNext
    <2>1. PICK s \in Slots : ReadInfo(todo[s]) \/ MigrateInfo(todo[s])
      BY <1>5 DEF ResumeNext
    <2>2. /\ UNCHANGED tableVars /\ UNCHANGED <<nvArray, nvInfo, acked>>
          /\ pc' \in {"r_endpoint", "m_info", "ret"}
      BY <2>1 DEF ReadInfo, MigrateInfo, nvBridge, history
    <2>3. StoredIds' = StoredIds /\ UNCHANGED <<image, nvMin>>
      BY <2>2, SameStored, SameTable
    <2>4. QED
      BY <1>a, <2>2, <2>3, AckedKept DEF Creating
  <1>6. CASE AddDevice
    <2>1. PICK h \in Handle, p \in LiveIds, t \in Supported[image] : BeginCreate(h, p, t)
      BY <1>6 DEF AddDevice
    <2>2. /\ pc' = "c_type" /\ Create(h, "bridged") /\ UNCHANGED <<nvArray, nvInfo, acked>>
          /\ cur'.info.type = t
      BY <2>1 DEF BeginCreate, nvBridge, history
    <2>3. minUnused' = minUnused + 1 /\ phase = "up" /\ image' = image
      BY <2>2, Created DEF BaseInv, ConsoleTypeOK
    <2>4. nvMin' = minUnused' /\ minUnused \in Nat
      BY <2>2, IdFacts DEF Create, StoreMinUnused, NvsPutMin, ReliableNvs
    <2>5. \A id \in DOMAIN acked : nvMin' # NotFound /\ id < nvMin'
      <3>1. DOMAIN acked \subseteq Nat
        BY IdRange DEF BaseInv, ConsoleTypeOK, BridgeTypeOK, OfIds
      <3>2. \A id \in DOMAIN acked : id < minUnused
        BY <1>a, <2>3, IdFacts
      <3>3. minUnused + 1 # NotFound
        BY SMT, <2>4, ConstantsAssumption
      <3>4. QED
        BY SMT, <2>3, <2>4, <3>1, <3>2, <3>3
    <2>6. StoredIds' = StoredIds
      BY <2>2, SameStored
    <2>7. QED
      BY <1>a, <2>2, <2>3, <2>5, <2>6, AckedKept
  <1>7. CASE RemoveDevice
    <2>1. PICK h \in devices : BeginRemove(h)
      BY <1>7 DEF RemoveDevice
    <2>2. /\ UNCHANGED tableVars /\ UNCHANGED <<nvArray, nvInfo>> /\ pc' = "e_array"
          /\ acked' = Del(acked, endpoints[h].id) /\ cur'.id = endpoints[h].id
      BY <2>1 DEF BeginRemove, nvBridge
    <2>3. StoredIds' = StoredIds /\ UNCHANGED <<image, nvMin>>
      BY <2>2, SameStored, SameTable
    <2>4. /\ cur'.id \notin DOMAIN acked'
          /\ \A id \in DOMAIN acked' : id \in DOMAIN acked /\ acked'[id] = acked[id]
      BY <2>2 DEF Del
    <2>5. QED
      BY <1>a, <2>2, <2>3, <2>4 DEF AckedInv, AckedPersisted, Creating
  <1>8. CASE ResetBridge
    BY <1>8, <1>e DEF ResetBridge, BridgeReset, Empty, Creating
  <1>9. CASE ResetNode
    <2>1. /\ acked' = Empty /\ UNCHANGED <<cur, image>>
          /\ pc' = IF pc = "reset" THEN "idle" ELSE pc
      BY <1>9 DEF ResetNode, MatterReset, FactoryReset
    <2>2. QED
      BY <1>e, <2>1 DEF Empty, Creating, AckedInv
  <1>10. CASE Restart
    <2>1. UNCHANGED <<nvArray, nvInfo, acked, nvMin>> /\ pc' = "off"
      BY <1>10 DEF Restart, BridgeReboot, Reboot, nvBridge
    <2>2. StoredIds' = StoredIds
      BY <2>1, SameStored
    <2>3. Supported[image] \subseteq Supported[image']
      <3>1. image' = image \/ \E u \in Upgrades : u[1] = image /\ u[2] = image'
        BY <1>10 DEF Restart, BridgeReboot, Reboot
      <3>2. QED
        BY <3>1 DEF TypesKept
    <2>4. QED
      BY <1>a, <2>1, <2>2, <2>3 DEF AckedInv, AckedPersisted, Creating
  <1>11. QED
    BY <1>1, <1>2, <1>3, <1>4, <1>5, <1>6, <1>7, <1>8, <1>9, <1>10 DEF Next

\* Nothing was created at first.
LEMMA InitAcked ==
    ASSUME ReliableNvs, Init
    PROVE  AckedInv
  <1>1. issued = {}
    BY DEF Init, TableInit, ReliableNvs
  <1>2. DOMAIN acked = {} /\ pc = "off"
    BY <1>1 DEF Init, BridgeInit, BridgeRam, Empty
  <1>3. QED
    BY <1>2 DEF AckedInv, AckedPersisted, Creating

\* Wherever the power fails, a device whose creation returned is in NVS with its
\* slot, its info and a counter above its id, until its removal is asked for.
THEOREM CreatedPersist ==
    ASSUME NonGrowing, ReliableNvs, AggregatorsStay, TypesKept
    PROVE  Spec => []AckedPersisted
  <1>1. AckedInv => AckedPersisted
    BY DEF AckedInv
  <1>2. QED
    BY <1>1, BaseKept, InitBridge, NextBridge, InitAcked, NextAcked, PTL DEF Spec

\* Every such device is there again, enabled and below its aggregator, whenever
\* the console takes commands, after any number of reboots and updates.
THEOREM CreatedComeBack ==
    ASSUME NonGrowing, ReliableNvs, AggregatorsStay, TypesKept
    PROVE  Spec => []AckedComesBack
  <1>1. ASSUME BaseInv, BridgeInv, AckedInv PROVE AckedComesBack
    <2> USE <1>1
    <2>1. SUFFICES ASSUME Idle, NEW id \in DOMAIN acked, ParentIsValid(acked[id].parent)
                   PROVE  \E h \in devices \cap Live : /\ IdOf(h) = id
                                                       /\ endpoints[h].enabled
                                                       /\ endpoints[h].parent = acked[id].parent
      BY DEF AckedComesBack
    <2>2. /\ pc = "idle" /\ ready /\ cur.h = NoHandle /\ cur.op = "none" /\ phase = "up"
          /\ todo = NoArray /\ ~resetting
      BY <2>1, CurFacts DEF Idle, BridgeInv, ControlInv, GoneInv
    <2>3. id \in StoredIds /\ nvInfo[id] = acked[id]
      BY <2>1 DEF AckedInv, AckedPersisted
    <2>4. acked[id].parent \in EndpointId
      BY <2>1 DEF BaseInv, ConsoleTypeOK, BridgeTypeOK, OfIds, Info
    <2>5. nvInfo[id].parent \in Aggregators(image)
      BY <2>1, <2>2, <2>3, <2>4, ParentByImage DEF BaseInv, ConsoleTypeOK, ParentsFromImage
    <2>6. PICK h \in Bridged : endpoints[h].id = id
      BY <2>2, <2>3, <2>5, NoneStored DEF BridgeInv, StoredInv
    <2>7. h \in devices /\ h \in Live
      BY <2>2 DEF BaseInv, OrphanInv
    <2>8. h # cur.h
      BY <2>2, <2>7, BridgeAssumption DEF BaseInv, ConsoleTypeOK
    <2>9. endpoints[h].parent = nvInfo[id].parent
      BY <2>2, <2>6, <2>8 DEF BridgeInv, ListedInv
    <2>10. endpoints[h].enabled
      BY <2>7 DEF BaseInv, OrphanInv
    <2>11. QED
      BY <2>3, <2>6, <2>7, <2>9, <2>10 DEF IdOf
  <1>2. QED
    BY <1>1, BaseKept, InitBridge, NextBridge, InitAcked, NextAcked, PTL DEF Spec

=============================================================================
