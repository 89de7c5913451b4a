------------------------------- MODULE Bridge -------------------------------
(***************************************************************************)
(* The bridge library (esp_matter_bridge.cpp): devices of another network  *)
(* shown as endpoints below an aggregator, kept in NVS and resumed after a *)
(* reboot.                                                                 *)
(*                                                                         *)
(* One task of the application calls the library.  Its operations are cut  *)
(* where they write NVS: every step makes at most one NVS write, and a     *)
(* Reboot may come between any two steps.  The programs that call the      *)
(* library (ConsoleBridge, AppBridge) extend this module; they start an    *)
(* operation when pc = "idle" (or "loop", while resuming) and take its     *)
(* result when pc = "ret".                                                 *)
(***************************************************************************)
EXTENDS EndpointTable

CONSTANTS
    AggregatorCount, \* CONFIG_ESP_MATTER_AGGREGATOR_ENDPOINT_COUNT
    Types,           \* matter device types a caller may ask for
    Supported,       \* for each image, the types its device_type_callback knows
    ResetWhen,       \* when esp_matter::factory_reset may come: "never", "idle" or "any"
    NoHandle         \* no endpoint object

\* MAX_BRIDGED_DEVICE_COUNT
MaxBridged == MaxEndpoints - 1 - AggregatorCount

Slots == 1 .. MaxBridged

ASSUME BridgeAssumption ==
    /\ AggregatorCount \in Nat
    /\ Supported \in [Images -> SUBSET Types]
    /\ ResetWhen \in {"never", "idle", "any"}
    /\ NoHandle \notin Handle
    /\ NotFound \notin [Slots -> EndpointId]

VARIABLES
    idArray,         \* bridged_endpoint_id_array
    nvArray,         \* the same array in NVS (nvs_key_allocator::endpoint_ids_array)
    nvArrayOld,      \* under the previous key, "ep_id_array"
    nvInfo,          \* endpoint id |-> device_persistent_info_t, in the bridge namespace
    nvInfoOld,       \* the same under the previous key, namespace "bridge_ep_<id>"
    nvAttrs,         \* ids under which attribute values are kept in the KVS namespace
    pc,              \* where the task is inside the library
    cur,             \* the device_t being worked on, and the operation
    resetting,       \* history: a factory reset was asked for, the restart is due
    acked,           \* history: devices whose creation returned, until removal is asked
    gone,            \* history: ids whose removal returned
    late             \* history: ids under which a value was stored after the reset's erase

nvBridge == <<nvArray, nvArrayOld, nvInfo, nvInfoOld>>
history == <<resetting, acked, gone, late>>
bridgeVars == <<idArray, nvBridge, nvAttrs, pc, cur, history>>

Info == [parent : EndpointId, type : Types]

NoDevice == [op |-> "none", h |-> NoHandle, id |-> 0, info |-> NotFound]

\* A partial function with k mapped to v, and one without k.
Put(f, k, v) == [x \in DOMAIN f \cup {k} |-> IF x = k THEN v ELSE f[x]]
Del(f, k) == [x \in DOMAIN f \ {k} |-> f[x]]
Empty == [x \in {} |-> x]

\* What an NVS write can come to: written; nvs_set failed, which the
\* library overwrites with the result of nvs_commit; nvs_open failed.
Outcome == {"ok"} \cup {o \in {"lost", "err"} :
               (o = "lost" /\ "set" \in Faults) \/ (o = "err" /\ "open" \in Faults)}

NoArray == [s \in Slots |-> kInvalidEndpointId]

Stored(array) == {array[s] : s \in Slots} \ {kInvalidEndpointId}

\* What NVS holds of the id array under the current key.
StoredIds == IF nvArray = NotFound THEN {} ELSE Stored(nvArray)

\* Mutant: the device type of the parent is not looked at.
IsAggregator_AnyType(g, p) == endpoints[g].id = p

\* The endpoint of id p, when it is live and an aggregator.
IsAggregator(g, p) == endpoints[g].id = p /\ endpoints[g].kind = "aggregator"

\* parent_endpoint_is_valid
ParentIsValid(p) == \E g \in Live : IsAggregator(g, p)

\* The bridge variables of a boot: static storage is zero.
BridgeRam ==
    /\ idArray = [s \in Slots |-> 0]
    /\ pc = "off"
    /\ cur = NoDevice

\* An older firmware that left its counter in the previous namespace also left
\* one bridged device under the previous keys.
BridgeInit ==
    /\ BridgeRam
    /\ nvArray = NotFound /\ nvInfo = Empty /\ nvAttrs = {}
    /\ resetting = FALSE /\ gone = {} /\ late = {}
    /\ IF issued = {}
       THEN nvArrayOld = NotFound /\ nvInfoOld = Empty /\ acked = Empty
       ELSE \E t \in Supported[image] :
               /\ nvInfoOld = Put(Empty, nvMinOld - 1, [parent |-> 1, type |-> t])
               /\ nvArrayOld = [NoArray EXCEPT ![1] = nvMinOld - 1]
               /\ acked = nvInfoOld

-----------------------------------------------------------------------------
(* initialize: the id array is read, migrated or created. *)

\* store_bridged_endpoint_ids with outcome o; its caller sees ESP_OK unless o = "err".
StoreArray(o) == nvArray' = IF o = "ok" THEN idArray' ELSE nvArray

\* On success the caller copies the array (get_bridged_endpoint_ids) and goes on.
Initialize ==
    /\ pc = "off" /\ phase = "up"
    /\ \/ /\ nvArray # NotFound
          /\ idArray' = nvArray /\ pc' = "copy"
          /\ UNCHANGED nvBridge
       \/ /\ nvArray = NotFound /\ nvArrayOld # NotFound
          /\ idArray' = nvArrayOld
          /\ nvArrayOld' = NotFound \/ (Faults # {} /\ nvArrayOld' = nvArrayOld)
          /\ pc' = "m_array"
          /\ UNCHANGED <<nvArray, nvInfo, nvInfoOld>>
       \/ /\ nvArray = NotFound /\ nvArrayOld = NotFound
          /\ idArray' = NoArray
          /\ \E o \in Outcome : /\ StoreArray(o)
                                /\ pc' = IF o = "err" THEN "initfail" ELSE "copy"
          /\ UNCHANGED <<nvArrayOld, nvInfo, nvInfoOld>>
       \/ /\ "open" \in Faults       \* the array cannot be read: RAM stays zero
          /\ pc' = "initfail"
          /\ UNCHANGED <<idArray, nvBridge>>
    /\ UNCHANGED <<tableVars, nvAttrs, cur, history>>

\* read_bridged_endpoint_ids, second half of the migration of the array.
FinishArrayMigration ==
    /\ pc = "m_array"
    /\ UNCHANGED <<tableVars, idArray, nvArrayOld, nvInfo, nvInfoOld, nvAttrs, cur, history>>
    /\ \E o \in Outcome : StoreArray(o)
    /\ pc' = "copy"

-----------------------------------------------------------------------------
(* create_device *)

\* The endpoint is created: an id is taken and the counter stored.  A parent
\* that is no aggregator, or a full endpoint list, changes nothing.
BeginCreate(h, parent, type) ==
    /\ pc = "idle"
    /\ ParentIsValid(parent)
    /\ Create(h, "bridged")
    /\ cur' = [op |-> "create", h |-> h, id |-> 0, info |-> [parent |-> parent, type |-> type]]
    /\ pc' = "c_type"
    /\ UNCHANGED <<idArray, nvBridge, nvAttrs, history>>

\* The endpoint's own id, of the device being worked on.
CurId == endpoints[cur.h].id

\* set_device_type: the callback adds the clusters, whose non-volatile attributes
\* are read from NVS or stored there.
SetDeviceType(id) == nvAttrs' = nvAttrs \cup {id}

\* set_device_type and set_parent_endpoint.  An unknown type leads to
\* remove_device, with device_endpoint_id still 0.
SetTypeOnCreate ==
    /\ pc = "c_type"
    /\ SetDeviceType(CurId)
    /\ IF cur.info.type \in Supported[image]
       THEN /\ \E g \in Live : IsAggregator(g, cur.info.parent) /\ SetParent(cur.h, g)
            /\ cur' = [cur EXCEPT !.id = CurId]
            /\ pc' = "c_info"
       ELSE /\ pc' = "e_array"
            /\ UNCHANGED <<tableVars, cur>>
    /\ UNCHANGED <<idArray, nvBridge, history>>

\* store_device_persistent_info
StoreInfo ==
    /\ pc = "c_info"
    /\ \E o \in Outcome :
          /\ nvInfo' = IF o = "ok" THEN Put(nvInfo, cur.id, cur.info) ELSE nvInfo
          /\ pc' = IF o = "err" THEN "e_array" ELSE "c_array"
    /\ UNCHANGED <<tableVars, idArray, nvArray, nvArrayOld, nvInfoOld, nvAttrs, cur, history>>

FreeSlots == {s \in Slots : idArray[s] = kInvalidEndpointId}

\* The first slot of a set, in the order of the loops over the array.
IsFirst(s, S) == s \in S /\ \A r \in S : s <= r

\* Mutant: the loop goes on after the first free slot.
AddToArray_NoBreak ==
    /\ pc = "c_array"
    /\ idArray' = [s \in Slots |-> IF s \in FreeSlots THEN cur.id ELSE idArray[s]]
    /\ StoreArray("ok")
    /\ acked' = IF resetting THEN acked ELSE Put(acked, cur.id, cur.info)
    /\ pc' = "ret"
    /\ UNCHANGED <<tableVars, nvArrayOld, nvInfo, nvInfoOld, nvAttrs, cur, resetting, gone, late>>

\* Mutant: a full array is not noticed.
AddToArray_Full ==
    /\ pc = "c_array"
    /\ idArray' = [s \in Slots |-> IF IsFirst(s, FreeSlots) THEN cur.id ELSE idArray[s]]
    /\ StoreArray("ok")
    /\ acked' = IF resetting THEN acked ELSE Put(acked, cur.id, cur.info)
    /\ pc' = "ret"
    /\ UNCHANGED <<tableVars, nvArrayOld, nvInfo, nvInfoOld, nvAttrs, cur, resetting, gone, late>>

\* The id goes into the first free slot and the array is stored (result
\* ignored); with no slot free the device is removed again.
AddToArray ==
    /\ pc = "c_array"
    /\ \/ /\ \E s \in Slots : /\ IsFirst(s, FreeSlots)
                              /\ idArray' = [idArray EXCEPT ![s] = cur.id]
          /\ \E o \in Outcome : StoreArray(o)
          /\ acked' = IF resetting THEN acked ELSE Put(acked, cur.id, cur.info)
          /\ pc' = "ret"
       \/ /\ FreeSlots = {}
          /\ pc' = "e_array"
          /\ UNCHANGED <<idArray, nvArray, acked>>
    /\ UNCHANGED <<tableVars, nvArrayOld, nvInfo, nvInfoOld, nvAttrs, cur, resetting, gone, late>>

-----------------------------------------------------------------------------
(* remove_device and erase_bridged_device_info *)

\* remove_device of a device the caller holds.
BeginRemove(h) ==
    /\ h \in Live /\ endpoints[h].kind = "bridged"
    /\ cur' = [op |-> "remove", h |-> h, id |-> endpoints[h].id, info |-> NotFound]
    /\ acked' = Del(acked, endpoints[h].id)
    /\ pc' = "e_array"
    /\ UNCHANGED <<tableVars, idArray, nvBridge, nvAttrs, resetting, gone, late>>

\* After the persistent info: the endpoint is destroyed, if there is one.
AfterErase == IF cur.h = NoHandle THEN "ret" ELSE "destroy"

\* Mutant: the array is changed in RAM and not stored.
EraseFromArray_RamOnly ==
    /\ pc = "e_array"
    /\ idArray' = [s \in Slots |-> IF idArray[s] = cur.id THEN kInvalidEndpointId ELSE idArray[s]]
    /\ pc' = "e_info"
    /\ UNCHANGED <<tableVars, nvBridge, nvAttrs, cur, history>>

\* Mutant: a slot is cleared to 0, as static storage is.
EraseFromArray_Zero ==
    /\ pc = "e_array"
    /\ idArray' = [s \in Slots |-> IF idArray[s] = cur.id THEN 0 ELSE idArray[s]]
    /\ StoreArray("ok")
    /\ pc' = "e_info"
    /\ UNCHANGED <<tableVars, nvArrayOld, nvInfo, nvInfoOld, nvAttrs, cur, history>>

\* Every slot that holds the id is cleared and the array stored.
EraseFromArray ==
    /\ pc = "e_array"
    /\ idArray' = [s \in Slots |-> IF idArray[s] = cur.id THEN kInvalidEndpointId ELSE idArray[s]]
    /\ \E o \in Outcome : /\ StoreArray(o)
                          /\ pc' = IF o = "err" THEN AfterErase ELSE "e_info"
    /\ UNCHANGED <<tableVars, nvArrayOld, nvInfo, nvInfoOld, nvAttrs, cur, history>>

EraseInfo ==
    /\ pc = "e_info"
    /\ \E o \in Outcome : nvInfo' = IF o = "ok" THEN Del(nvInfo, cur.id) ELSE nvInfo
    /\ pc' = AfterErase
    /\ UNCHANGED <<tableVars, idArray, nvArray, nvArrayOld, nvInfoOld, nvAttrs, cur, history>>

\* Mutant: the device keeps the pointer to the endpoint that was freed.
DestroyEndpoint_Dangling ==
    /\ pc = "destroy"
    /\ Destroy(cur.h)
    /\ nvAttrs' = nvAttrs \ {CurId}
    /\ pc' = "ret"
    /\ UNCHANGED <<idArray, nvBridge, cur, history>>

\* endpoint::destroy: the attributes' NVS keys are erased and the endpoint
\* freed; no device is left, whatever operation this ends.
DestroyEndpoint ==
    /\ pc = "destroy"
    /\ Destroy(cur.h)
    /\ nvAttrs' = nvAttrs \ {CurId} /\ late' = late \ {CurId}
    /\ gone' = IF cur.op = "remove" /\ ~resetting THEN gone \cup {CurId} ELSE gone
    /\ cur' = NoDevice
    /\ pc' = "ret"
    /\ UNCHANGED <<idArray, nvBridge, resetting, acked>>

-----------------------------------------------------------------------------
(* resume_device *)

\* read_device_persistent_info finds the info under the previous key: it is
\* erased there, and stored under the current one by the next step.
MigrateInfo(id) ==
    /\ pc = "loop"
    /\ id \notin DOMAIN nvInfo /\ id \in DOMAIN nvInfoOld
    /\ cur' = [op |-> "resume", h |-> NoHandle, id |-> id, info |-> nvInfoOld[id]]
    /\ nvInfoOld' = Del(nvInfoOld, id) \/ (Faults # {} /\ nvInfoOld' = nvInfoOld)
    /\ pc' = "m_info"
    /\ UNCHANGED <<tableVars, idArray, nvArray, nvArrayOld, nvInfo, nvAttrs, history>>

FinishInfoMigration ==
    /\ pc = "m_info"
    /\ \E o \in Outcome : nvInfo' = IF o = "ok" THEN Put(nvInfo, cur.id, cur.info) ELSE nvInfo
    /\ pc' = "r_endpoint"
    /\ UNCHANGED <<tableVars, idArray, nvArray, nvArrayOld, nvInfoOld, nvAttrs, cur, history>>

\* The info of the id is in NVS, or is not (or cannot be read): then the device
\* is given up and its slot in the array left as it is.
ReadInfo(id) ==
    /\ pc = "loop"
    /\ \/ /\ id \in DOMAIN nvInfo
          /\ cur' = [op |-> "resume", h |-> NoHandle, id |-> id, info |-> nvInfo[id]]
          /\ pc' = "r_endpoint"
       \/ /\ id \notin DOMAIN nvInfo \cup DOMAIN nvInfoOld \/ "open" \in Faults
          /\ cur' = NoDevice
          /\ pc' = "ret"
    /\ UNCHANGED <<tableVars, idArray, nvBridge, nvAttrs, history>>

\* Mutant: a device without its parent is erased like one that is refused.
ResumeEndpoint_ErasesOrphan ==
    /\ pc = "r_endpoint"
    /\ \/ /\ ~ParentIsValid(cur.info.parent) \/ ~CanResume(cur.id)
          /\ pc' = "e_array"
          /\ UNCHANGED <<tableVars, cur>>
       \/ /\ ParentIsValid(cur.info.parent)
          /\ \E h \in Handle : Resume(h, cur.id, "bridged") /\ cur' = [cur EXCEPT !.h = h]
          /\ pc' = "r_type"
    /\ UNCHANGED <<idArray, nvBridge, nvAttrs, history>>

\* parent_endpoint_is_valid, then bridged_node::resume.  A refused id is erased
\* from the array and its info with it.
ResumeEndpoint ==
    /\ pc = "r_endpoint"
    /\ \/ /\ ~ParentIsValid(cur.info.parent)
          /\ cur' = NoDevice
          /\ pc' = "ret"
          /\ UNCHANGED tableVars
       \/ /\ ParentIsValid(cur.info.parent)
          /\ ~CanResume(cur.id)
          /\ pc' = "e_array"
          /\ UNCHANGED <<tableVars, cur>>
       \/ /\ ParentIsValid(cur.info.parent)
          /\ \E h \in Handle : /\ Resume(h, cur.id, "bridged")
                               /\ cur' = [cur EXCEPT !.h = h]
          /\ pc' = "r_type"
    /\ UNCHANGED <<idArray, nvBridge, nvAttrs, history>>

\* Mutant: set_parent_endpoint is left out.
SetTypeOnResume_NoParent ==
    /\ pc = "r_type"
    /\ SetDeviceType(cur.id)
    /\ pc' = IF cur.info.type \in Supported[image] THEN "ret" ELSE "e_array"
    /\ UNCHANGED <<tableVars, idArray, nvBridge, cur, history>>

\* set_device_type and set_parent_endpoint of a resumed device; an unknown type
\* leads to remove_device.
SetTypeOnResume ==
    /\ pc = "r_type"
    /\ SetDeviceType(cur.id)
    /\ IF cur.info.type \in Supported[image]
       THEN /\ \E g \in Live : IsAggregator(g, cur.info.parent) /\ SetParent(cur.h, g)
            /\ pc' = "ret"
       ELSE /\ pc' = "e_array"
            /\ UNCHANGED tableVars
    /\ UNCHANGED <<idArray, nvBridge, cur, history>>

-----------------------------------------------------------------------------
(* Resets and restarts *)

\* esp_matter_bridge::factory_reset: the namespace is erased, the array cleared.
\* The array is cleared in RAM also when nvs_erase_all fails and NVS keeps it all.
BridgeReset ==
    /\ pc = "idle"
    /\ \/ /\ nvArray' = NotFound /\ nvArrayOld' = NotFound /\ nvInfo' = Empty
          /\ idArray' = NoArray
       \/ /\ "set" \in Faults
          /\ idArray' = NoArray
          /\ UNCHANGED <<nvArray, nvArrayOld, nvInfo>>
       \/ /\ "open" \in Faults
          /\ UNCHANGED <<idArray, nvArray, nvArrayOld, nvInfo>>
    /\ resetting' = TRUE /\ acked' = Empty /\ gone' = {}
    /\ pc' = "reset"
    /\ UNCHANGED <<tableVars, nvInfoOld, nvAttrs, cur, late>>

\* Mutant: the attribute values are kept.
MatterReset_KeepsAttrs ==
    /\ pc = "reset" \/ (ResetWhen = "idle" /\ pc = "idle") \/ ResetWhen = "any"
    /\ FactoryReset
    /\ resetting' = TRUE /\ acked' = Empty /\ gone' = {} /\ late' = {}
    /\ pc' = IF pc = "reset" THEN "idle" ELSE pc
    /\ UNCHANGED <<idArray, nvBridge, nvAttrs, cur>>

\* esp_matter::factory_reset, from the task that calls the library or (a reset
\* button) from another: the KVS namespace, with the counter and the attribute
\* values, is erased; the bridge namespace is not.
MatterReset ==
    /\ \/ pc = "reset"
       \/ ResetWhen = "idle" /\ pc = "idle"
       \/ ResetWhen = "any"
    /\ FactoryReset
    /\ nvAttrs' = {} \/ (Faults # {} /\ nvAttrs' = nvAttrs)
    /\ resetting' = TRUE /\ acked' = Empty /\ gone' = {} /\ late' = {}
    /\ pc' = IF pc = "reset" THEN "idle" ELSE pc
    /\ UNCHANGED <<idArray, nvBridge, cur>>

\* Live endpoints go on storing attribute values until the restart: set_val of a
\* non-volatile attribute, or the timer of a deferred one.
StoreAttribute(h) ==
    /\ h \in Live /\ endpoints[h].kind = "bridged"
    /\ endpoints[h].id \notin nvAttrs
    /\ nvAttrs' = nvAttrs \cup {endpoints[h].id}
    /\ late' = IF resetting THEN late \cup {endpoints[h].id} ELSE late
    /\ UNCHANGED <<tableVars, idArray, nvBridge, pc, cur, resetting, acked, gone>>

StoreAttributes == \E h \in Handle : StoreAttribute(h)

BridgeReboot ==
    /\ Reboot
    /\ idArray' = [s \in Slots |-> 0]
    /\ pc' = "off"
    /\ cur' = NoDevice
    /\ resetting' = FALSE
    /\ UNCHANGED <<nvBridge, nvAttrs, acked, gone, late>>

\* Boot of the node: the static endpoints, then start().
NodeBoot ==
    /\ (\E h \in Handle : CreateStatic(h)) \/ Start \/ FinishMigration
    /\ UNCHANGED bridgeVars

\* The steps of the library once an operation has begun.
LibraryStep ==
    \/ Initialize \/ FinishArrayMigration
    \/ SetTypeOnCreate \/ StoreInfo \/ AddToArray
    \/ EraseFromArray \/ EraseInfo \/ DestroyEndpoint
    \/ FinishInfoMigration \/ ResumeEndpoint \/ SetTypeOnResume

-----------------------------------------------------------------------------

\* f is a partial function from endpoint ids to S.
OfIds(f, S) == DOMAIN f \subseteq EndpointId /\ f \in [DOMAIN f -> S]

\* The device being worked on: its endpoint, when it has one, is live, and the
\* operation has what it goes on to use.
CurOK ==
    /\ cur \in [op : {"none", "create", "remove", "resume"}, h : Handle \cup {NoHandle},
               id : EndpointId, info : Info \cup {NotFound}]
    /\ cur.h # NoHandle => cur.h \in Live /\ endpoints[cur.h].kind = "bridged"
    /\ pc \in {"c_type", "c_info", "c_array", "r_type", "destroy"} => cur.h # NoHandle
    /\ pc \in {"c_type", "c_info", "c_array", "m_info", "r_endpoint", "r_type"}
         => cur.info \in Info

\* Type invariant of the bridge: RAM, NVS and the device being worked on.
BridgeTypeOK ==
    /\ idArray \in [Slots -> EndpointId]
    /\ nvArray = NotFound \/ nvArray \in [Slots -> EndpointId]
    /\ nvArrayOld = NotFound \/ nvArrayOld \in [Slots -> EndpointId]
    /\ OfIds(nvInfo, Info) /\ OfIds(nvInfoOld, Info) /\ OfIds(acked, Info)
    /\ nvAttrs \subseteq EndpointId /\ gone \subseteq EndpointId /\ late \subseteq EndpointId
    /\ resetting \in BOOLEAN
    /\ CurOK

\* create_device stores the info before the id array and remove_device clears
\* the array before the info: wherever the power fails, an id in the stored array has
\* its info, and the next boot finds no slot it can neither resume nor free.
ArrayHasInfo ==
    \A id \in StoredIds : \/ id \in DOMAIN nvInfo \cup DOMAIN nvInfoOld
                          \/ pc = "m_info" /\ id = cur.id

\* A device whose creation returned is in NVS, complete, from that moment until
\* its removal is asked for: slot, info and an id counter above its id.
AckedPersisted ==
    \A id \in DOMAIN acked :
        /\ id \in StoredIds
        /\ id \in DOMAIN nvInfo /\ nvInfo[id] = acked[id]
        /\ nvMin # NotFound /\ id < nvMin

\* The move of the array from its previous key to the current one is not lost
\* on the way: whenever a boot begins, one of the keys has every device.
ArrayMoveKeepsDevices ==
    pc = "off" => \A id \in DOMAIN acked :
                     \/ id \in StoredIds
                     \/ nvArrayOld # NotFound /\ id \in Stored(nvArrayOld)

\* A device whose removal returned does not come back: its id is never live
\* again, nor in the stored array, until a factory reset.
GoneStaysGone == gone \cap (LiveIds \cup StoredIds) = {}

\* erase_bridged_device_info clears what NVS has of an endpoint that is going
\* away, or that resume_device was refused: never the record of another live
\* endpoint, also when a factory reset let the ids begin again below stored ones.
ErasesOnlyRemoved ==
    pc = "e_info" => \A h \in Live \ {cur.h} :
                        endpoints[h].kind = "bridged" => endpoints[h].id # cur.id

\* A new endpoint starts from the defaults: no attribute value of an earlier
\* endpoint is left in NVS under the id that endpoint::create takes, save one
\* stored between the erase of a factory reset and the restart it schedules.
StartsClean ==
    phase = "up" /\ phase' = "up" /\ minUnused' # minUnused => minUnused \notin nvAttrs \ late

\* See StartsClean: it holds of every step.
NoLeftoverAttrs == [][StartsClean]_<<tableVars, nvAttrs>>

\* Resuming is not limited by the endpoint count as creating is, and still the
\* node never holds more endpoints than the configured maximum.
WithinLimit == Cardinality(Live) <= MaxEndpoints

\* The walk of report_parts_list_change_internal to the top of the parent
\* chain ends: a parent is a live endpoint without a parent of its own.
ParentWalkEnds ==
    \A h \in Live : \/ endpoints[h].parent = kInvalidEndpointId
                    \/ \E g \in Live : /\ endpoints[g].id = endpoints[h].parent
                                       /\ endpoints[g].parent = kInvalidEndpointId

=============================================================================
