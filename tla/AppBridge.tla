------------------------------ MODULE AppBridge ------------------------------
(***************************************************************************)
(* The bridge applications (examples/common/app_bridge): for each bridged  *)
(* device they keep, next to the records of the library, the address of    *)
(* the device in its own network, under two NVS keys of its endpoint id.   *)
(***************************************************************************)
EXTENDS Bridge

CONSTANT Addr        \* addresses of devices in the other network

VARIABLES
    nvAddr,          \* endpoint id |-> address (key b/<id>/da)
    nvType,          \* the ids that have a device type (key b/<id>/dt)
    devices,         \* g_bridged_device_list: endpoint |-> dev_addr
    devCount,        \* g_current_bridged_device_count
    newAddr,         \* the address of the device being created or resumed
    todo,            \* the copy of the array app_bridge_initialize goes through
    ready,           \* app_bridge_initialize has returned
    told             \* history: id |-> address of devices whose creation returned, with one slot

appVars == <<nvAddr, nvType, devices, devCount, newAddr, todo, ready, told>>

vars == <<tableVars, bridgeVars, appVars>>

AppRam ==
    /\ devices = Empty /\ devCount = 0 /\ newAddr = NotFound
    /\ todo = NoArray /\ ready = FALSE

Init ==
    /\ TableInit
    /\ BridgeInit
    /\ AppRam
    /\ nvAddr = Empty /\ nvType = {} /\ told = Empty

-----------------------------------------------------------------------------
(* app_bridge_initialize.  A failure aborts the application: only Restart follows. *)

CopyArray ==
    /\ pc = "copy"
    /\ todo' = idArray
    /\ pc' = "loop"
    /\ UNCHANGED <<tableVars, idArray, nvBridge, nvAttrs, cur, history,
                   nvAddr, nvType, devices, devCount, newAddr, ready, told>>

\* The loop takes the next slot in use.
NextInLoop(s) ==
    /\ IsFirst(s, {r \in Slots : todo[r] # kInvalidEndpointId})
    /\ todo' = [todo EXCEPT ![s] = kInvalidEndpointId]

\* app_bridge_read_bridged_device_info fails: the id is passed over and its
\* slot stays taken.  Only the result of the second read counts.
SkipDevice ==
    /\ pc = "loop"
    /\ \E s \in Slots : NextInLoop(s) /\ (todo[s] \notin nvType \/ "open" \in Faults)
    /\ UNCHANGED <<tableVars, bridgeVars, nvAddr, nvType, devices, devCount, newAddr, ready, told>>

\* The library resumes the device; an address that is not in NVS stays the
\* uninitialized local variable it was.
ResumeNext ==
    /\ \E s \in Slots :
          /\ NextInLoop(s)
          /\ todo[s] \in nvType
          /\ ReadInfo(todo[s]) \/ MigrateInfo(todo[s])
          /\ newAddr' \in IF todo[s] \in DOMAIN nvAddr THEN {nvAddr[todo[s]]} ELSE Addr
    /\ UNCHANGED <<nvAddr, nvType, devices, devCount, ready, told>>

LoopDone ==
    /\ pc = "loop" /\ todo = NoArray
    /\ pc' = "idle"
    /\ ready' = TRUE
    /\ UNCHANGED <<tableVars, idArray, nvBridge, nvAttrs, cur, history,
                   nvAddr, nvType, devices, devCount, newAddr, todo, told>>

-----------------------------------------------------------------------------
(* app_bridge_create_bridged_device and app_bridge_remove_device *)

\* The callers ask for an address no device of the list has, below the aggregator.
CreateDevice(a) ==
    /\ ready
    /\ \A h \in DOMAIN devices : devices[h] # a
    /\ devCount < MaxBridged
    /\ \E h \in Handle, p \in LiveIds, t \in Types : BeginCreate(h, p, t)
    /\ newAddr' = a
    /\ UNCHANGED <<nvAddr, nvType, devices, devCount, todo, ready, told>>

\* The library returned.  With a device: it enters the list and is counted;
\* a created one goes on to be stored, a resumed one to be enabled.
Return ==
    /\ pc = "ret"
    /\ IF cur.h = NoHandle
       THEN /\ pc' = IF ready THEN "idle" ELSE "loop"
            /\ newAddr' = NotFound
            /\ UNCHANGED <<devices, devCount>>
       ELSE /\ devices' = Put(devices, cur.h, newAddr)
            /\ devCount' = (devCount + 1) % 256
            /\ pc' = IF ready THEN "a_addr" ELSE "a_enable"
            /\ UNCHANGED newAddr
    /\ UNCHANGED <<tableVars, idArray, nvBridge, nvAttrs, cur, history,
                   nvAddr, nvType, todo, ready, told>>

\* app_bridge_store_bridged_device_info: one key, then the other.  With the
\* namespace not opened neither is written; either way the creation goes on.
StoreAddr ==
    /\ pc = "a_addr"
    /\ \E o \in Outcome : /\ nvAddr' = IF o = "ok" THEN Put(nvAddr, CurId, newAddr) ELSE nvAddr
                          /\ pc' = IF o = "err" THEN "a_enable" ELSE "a_type"
    /\ UNCHANGED <<tableVars, idArray, nvBridge, nvAttrs, cur, history,
                   nvType, devices, devCount, newAddr, todo, ready, told>>

\* Mutant: the second key is not written.
StoreType_Lost ==
    /\ pc = "a_type"
    /\ pc' = "a_enable"
    /\ UNCHANGED <<tableVars, idArray, nvBridge, nvAttrs, cur, history,
                   nvAddr, nvType, devices, devCount, newAddr, todo, ready, told>>

StoreType ==
    /\ pc = "a_type"
    /\ \E o \in Outcome : nvType' = IF o = "ok" THEN nvType \cup {CurId} ELSE nvType
    /\ pc' = "a_enable"
    /\ UNCHANGED <<tableVars, idArray, nvBridge, nvAttrs, cur, history,
                   nvAddr, devices, devCount, newAddr, todo, ready, told>>

\* Two slots hold the id: one was left behind by a restart inside a creation,
\* before a factory reset of the node let the ids begin again.
Doubled(id) == \E r, s \in Slots : r # s /\ idArray[r] = id /\ idArray[s] = id

EnableDevice ==
    /\ pc = "a_enable"
    /\ Enable(cur.h)
    /\ told' = IF ready /\ ~resetting /\ ~Doubled(CurId) THEN Put(told, CurId, newAddr) ELSE told
    /\ cur' = NoDevice /\ newAddr' = NotFound
    /\ pc' = IF ready THEN "idle" ELSE "loop"
    /\ UNCHANGED <<idArray, nvBridge, nvAttrs, history,
                   nvAddr, nvType, devices, devCount, todo, ready>>

\* The device leaves the list; the count stays.
BeginRemoveDevice(h) ==
    /\ pc = "idle" /\ ready
    /\ h \in DOMAIN devices
    /\ devices' = Del(devices, h)
    /\ told' = Del(told, endpoints[h].id)
    /\ cur' = [NoDevice EXCEPT !.h = h]
    /\ pc' = "x_addr"
    /\ UNCHANGED <<tableVars, idArray, nvBridge, nvAttrs, history,
                   nvAddr, nvType, devCount, newAddr, todo, ready>>

\* app_bridge_erase_bridged_device_info
EraseAddr ==
    /\ pc = "x_addr"
    /\ \E o \in Outcome : /\ nvAddr' = IF o = "ok" THEN Del(nvAddr, CurId) ELSE nvAddr
                          /\ pc' = IF o = "err" THEN "x_remove" ELSE "x_type"
    /\ UNCHANGED <<tableVars, idArray, nvBridge, nvAttrs, cur, history,
                   nvType, devices, devCount, newAddr, todo, ready, told>>

EraseType ==
    /\ pc = "x_type"
    /\ \E o \in Outcome : nvType' = IF o = "ok" THEN nvType \ {CurId} ELSE nvType
    /\ pc' = "x_remove"
    /\ UNCHANGED <<tableVars, idArray, nvBridge, nvAttrs, cur, history,
                   nvAddr, devices, devCount, newAddr, todo, ready, told>>

\* esp_matter_bridge::remove_device
RemoveFromBridge ==
    /\ pc = "x_remove"
    /\ BeginRemove(cur.h)
    /\ UNCHANGED appVars

-----------------------------------------------------------------------------

\* Reset button or console: the keys of the bridge namespace stay.
ResetNode ==
    /\ MatterReset
    /\ told' = Empty
    /\ UNCHANGED <<nvAddr, nvType, devices, devCount, newAddr, todo, ready>>

Restart ==
    /\ BridgeReboot
    /\ devices' = Empty /\ devCount' = 0 /\ newAddr' = NotFound
    /\ todo' = NoArray /\ ready' = FALSE
    /\ UNCHANGED <<nvAddr, nvType, told>>

Next ==
    \/ NodeBoot /\ UNCHANGED appVars
    \/ LibraryStep /\ UNCHANGED appVars
    \/ CopyArray \/ SkipDevice \/ ResumeNext \/ LoopDone
    \/ \E a \in Addr : CreateDevice(a)
    \/ Return \/ StoreAddr \/ StoreType \/ EnableDevice
    \/ \E h \in Handle : BeginRemoveDevice(h)
    \/ EraseAddr \/ EraseType \/ RemoveFromBridge
    \/ ResetNode
    \/ StoreAttributes /\ UNCHANGED appVars
    \/ Restart

Spec == Init /\ [][Next]_vars

-----------------------------------------------------------------------------

\* Type invariant of the application's own records.
AppTypeOK ==
    /\ TableTypeOK /\ BridgeTypeOK
    /\ DOMAIN nvAddr \subseteq EndpointId /\ nvAddr \in [DOMAIN nvAddr -> Addr]
    /\ nvType \subseteq EndpointId
    /\ DOMAIN devices \subseteq Live /\ devices \in [DOMAIN devices -> Addr]
    /\ devCount \in 0 .. 255
    /\ newAddr \in Addr \cup {NotFound}
    /\ todo \in [Slots -> EndpointId] /\ ready \in BOOLEAN
    /\ DOMAIN told \subseteq EndpointId /\ told \in [DOMAIN told -> Addr]

Idle == ready /\ pc = "idle"

\* A device whose creation returned is in the list after any reboot, on its own
\* endpoint, enabled, and with the address it was created with: commands of a
\* controller reach the same device of the other network.  A device whose id
\* already had a slot (Doubled) is not promised this, nor the next.
ToldComesBack ==
    Idle => \A id \in DOMAIN told :
               \E h \in DOMAIN devices : /\ endpoints[h].id = id /\ endpoints[h].enabled
                                         /\ devices[h] = told[id]

\* The list never outgrows the array: each device of it that was created has
\* exactly one slot, in RAM and in NVS.
ListedHaveSlots ==
    Idle /\ ~resetting => \A h \in DOMAIN devices : endpoints[h].id \in DOMAIN told =>
        /\ endpoints[h].id \in Stored(idArray) \cap StoredIds
        /\ ~Doubled(endpoints[h].id)

\* "The device list is full" is said only when it is: the count compared with
\* MAX_BRIDGED_DEVICE_COUNT reaches it only if that many devices are listed.
FullMeansFull ==
    Idle /\ devCount >= MaxBridged => Cardinality(DOMAIN devices) >= MaxBridged

=============================================================================
