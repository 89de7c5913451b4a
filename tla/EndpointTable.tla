--------------------------- MODULE EndpointTable ---------------------------
(***************************************************************************)
(* The endpoint list of the Matter node and the allocation of endpoint ids *)
(* (esp_matter_data_model.cpp, esp_matter_core.cpp).                       *)
(*                                                                         *)
(* Every boot creates the endpoints the firmware image declares, with ids  *)
(* 0, 1, ...; esp_matter::start() then replaces the RAM counter            *)
(* min_unused_endpoint_id by the value kept in NVS.  From then on          *)
(* endpoint::create takes the next id and writes the counter back, and     *)
(* endpoint::resume re-adds an endpoint of an earlier boot under its id.   *)
(* A reboot (power loss, crash, restart, firmware update) can come between *)
(* any two NVS writes; each NVS write is durable when it returns.          *)
(***************************************************************************)
EXTENDS Naturals, Sequences, FiniteSets

CONSTANTS
    Handle,          \* the _endpoint_t objects the heap can hold
    MaxEndpoints,    \* CONFIG_ESP_MATTER_MAX_DYNAMIC_ENDPOINT_COUNT
    Images,          \* firmware images: the kinds of endpoint each creates before start()
    Upgrades,        \* the pairs <<old, new>> of images a firmware update may install
    LegacyMin,       \* what the previous "node" namespace may hold at first
    Faults,          \* NVS failures considered: a subset of {"open", "set"}
    IdBound,         \* bound of the model: no endpoint is created beyond this id
    NotFound         \* ESP_ERR_NVS_NOT_FOUND: the key is not in NVS

Kinds == {"root", "aggregator", "other"}

kInvalidEndpointId == 65535

ASSUME ConstantsAssumption ==
    /\ MaxEndpoints \in Nat /\ MaxEndpoints > 0 /\ MaxEndpoints <= 255
    /\ Images \subseteq Seq(Kinds)
    /\ \A img \in Images : Len(img) <= MaxEndpoints
    /\ Upgrades \subseteq Images \X Images
    /\ LegacyMin \subseteq 0 .. kInvalidEndpointId \cup {NotFound}
    /\ IdBound \in Nat /\ IdBound <= kInvalidEndpointId
    /\ NotFound \notin Nat

VARIABLES
    image,           \* the firmware image that is running
    phase,           \* "boot" before start(), "migrate" inside it, "up" after it
    endpoints,       \* the endpoint list: live objects and what they hold
    minUnused,       \* node->min_unused_endpoint_id
    nvMin,           \* NVS key min_uu_ep_id in the esp_matter KVS namespace
    nvMinOld,        \* the same key in the previous "node" namespace
    issued           \* history: the ids given by create since the counter was last erased

tableVars == <<image, phase, endpoints, minUnused, nvMin, nvMinOld, issued>>

EndpointId == 0 .. kInvalidEndpointId

\* min_unused_endpoint_id++ on a uint16_t
NextId(i) == (i + 1) % (kInvalidEndpointId + 1)

Endpoint == [id : EndpointId, parent : EndpointId, enabled : BOOLEAN,
             destroyable : BOOLEAN, kind : Kinds \cup {"bridged"}]

Live == DOMAIN endpoints

LiveIds == {endpoints[h].id : h \in Live}

Free == Handle \ Live

\* node::create_raw: calloc'ed node, so an empty list and a counter of 0.
BootState(img) ==
    /\ image = img
    /\ phase = "boot"
    /\ endpoints = [h \in {} |-> h]
    /\ minUnused = 0

\* Assumed of the update from a firmware with the previous namespace: it adds no
\* static endpoint, as NonGrowing assumes of later updates, so that the counter
\* left behind is not below the ids this image uses.
LegacyFits(m) == m = NotFound \/ m >= Len(image)

\* First boot of this firmware: the ids an older one gave out, if it left its
\* counter in the previous namespace, count as issued.
TableInit ==
    /\ \E img \in Images : BootState(img)
    /\ nvMin = NotFound
    /\ nvMinOld \in {m \in LegacyMin : LegacyFits(m)}
    /\ issued = IF nvMinOld = NotFound THEN {} ELSE Len(image) .. (nvMinOld - 1)

-----------------------------------------------------------------------------

\* The new contents of the list once h holds e.
WithEndpoint(h, e) ==
    [x \in Live \cup {h} |-> IF x = h THEN e ELSE endpoints[x]]

\* nvs_set_u16 of the counter: the key is written, or (a fault) is not.
NvsPutMin(v) == nvMin' = v \/ (Faults # {} /\ nvMin' = nvMin)

\* Mutant: the counter is written before it is incremented.
StoreMinUnused_Stale == NvsPutMin(minUnused)

\* store_min_unused_endpoint_id
StoreMinUnused == NvsPutMin(minUnused')

\* endpoint::create before start(): the counter is not written to NVS.
CreateStatic(h) ==
    /\ phase = "boot"
    /\ minUnused < Len(image)
    /\ Cardinality(Live) < MaxEndpoints
    /\ h \in Free
    /\ endpoints' = WithEndpoint(h, [id |-> minUnused, parent |-> kInvalidEndpointId,
                                     enabled |-> TRUE, destroyable |-> FALSE,
                                     kind |-> image[minUnused + 1]])
    /\ minUnused' = NextId(minUnused)
    /\ UNCHANGED <<image, phase, nvMin, nvMinOld, issued>>

\* Mutant: the counter in NVS is read only if RAM has none.
ReadMinUnused_KeepsRam ==
    phase' = "up" /\ UNCHANGED <<minUnused, nvMinOld>> /\ StoreMinUnused

\* read_min_unused_endpoint_id and the rest of start().  A counter found in NVS
\* replaces the RAM one, whatever the image created.  One found in the previous
\* namespace only is erased there here, and written to the current namespace by
\* the next step (FinishMigration).  With none, the RAM counter is stored.
ReadMinUnused ==
    \/ /\ nvMin # NotFound
       /\ phase' = "up"
       /\ minUnused' = nvMin
       /\ UNCHANGED <<nvMin, nvMinOld>>
    \/ /\ nvMin = NotFound /\ nvMinOld # NotFound
       /\ phase' = "migrate"
       /\ minUnused' = nvMinOld
       /\ nvMinOld' = NotFound \/ (Faults # {} /\ nvMinOld' = nvMinOld)
       /\ UNCHANGED nvMin
    \/ /\ nvMin = NotFound /\ nvMinOld = NotFound
       /\ phase' = "up"
       /\ UNCHANGED <<minUnused, nvMinOld>>
       /\ StoreMinUnused
    \/ /\ "open" \in Faults         \* the read fails: the RAM counter is kept
       /\ phase' = "up"
       /\ UNCHANGED <<minUnused, nvMin, nvMinOld>>

\* start(): enable_all in the init task, then the counter.
Start ==
    /\ phase = "boot"
    /\ minUnused = Len(image)
    /\ endpoints' = [h \in Live |-> [endpoints[h] EXCEPT !.enabled = TRUE]]
    /\ ReadMinUnused
    /\ UNCHANGED <<image, issued>>

\* The second half of the migration: store_min_unused_endpoint_id.
FinishMigration ==
    /\ phase = "migrate"
    /\ phase' = "up"
    /\ UNCHANGED <<image, endpoints, minUnused, nvMinOld, issued>>
    /\ StoreMinUnused

\* Mutant: the endpoint count is not checked.
Create_NoLimit(h, kind) ==
    /\ phase = "up"
    /\ minUnused < IdBound
    /\ h \in Free
    /\ endpoints' = WithEndpoint(h, [id |-> minUnused, parent |-> kInvalidEndpointId,
                                     enabled |-> TRUE, destroyable |-> TRUE, kind |-> kind])
    /\ minUnused' = NextId(minUnused)
    /\ StoreMinUnused
    /\ issued' = issued \cup {minUnused}
    /\ UNCHANGED <<image, phase, nvMinOld>>

\* endpoint::create after start(): the next id, the counter written to NVS
\* (its result is ignored), the endpoint appended.
Create(h, kind) ==
    /\ phase = "up"
    /\ Cardinality(Live) < MaxEndpoints
    /\ minUnused < IdBound
    /\ h \in Free
    /\ endpoints' = WithEndpoint(h, [id |-> minUnused, parent |-> kInvalidEndpointId,
                                     enabled |-> TRUE, destroyable |-> TRUE, kind |-> kind])
    /\ minUnused' = NextId(minUnused)
    /\ StoreMinUnused
    /\ issued' = issued \cup {minUnused}
    /\ UNCHANGED <<image, phase, nvMinOld>>

\* Mutant: the list is not searched for the id.
CanResume_NoSearch(id) == id < minUnused

\* The two refusals of endpoint::resume: the id is live, or was never given out.
CanResume(id) == id \notin LiveIds /\ id < minUnused

\* endpoint::resume: calloc'ed, so disabled and with parent 0; there is no
\* check of the endpoint count here.
Resume(h, id, kind) ==
    /\ phase = "up"
    /\ CanResume(id)
    /\ h \in Free
    /\ endpoints' = WithEndpoint(h, [id |-> id, parent |-> 0, enabled |-> FALSE,
                                     destroyable |-> TRUE, kind |-> kind])
    /\ UNCHANGED <<image, phase, minUnused, nvMin, nvMinOld, issued>>

\* endpoint::destroy: disabled, shut down, its clusters freed and unlinked.
Destroy(h) ==
    /\ phase = "up"
    /\ h \in Live
    /\ endpoints[h].destroyable
    /\ endpoints' = [x \in Live \ {h} |-> endpoints[x]]
    /\ UNCHANGED <<image, phase, minUnused, nvMin, nvMinOld, issued>>

SetEnabled(h, on) ==
    /\ phase = "up"
    /\ h \in Live
    /\ endpoints' = [endpoints EXCEPT ![h].enabled = on]
    /\ UNCHANGED <<image, phase, minUnused, nvMin, nvMinOld, issued>>

Enable(h) == SetEnabled(h, TRUE)

Disable(h) == SetEnabled(h, FALSE)

\* endpoint::set_parent_endpoint: the id of the parent is copied.
SetParent(h, p) ==
    /\ phase = "up"
    /\ h \in Live /\ p \in Live
    /\ endpoints' = [endpoints EXCEPT ![h].parent = endpoints[p].id]
    /\ UNCHANGED <<image, phase, minUnused, nvMin, nvMinOld, issued>>

\* esp_matter::factory_reset: the KVS namespace is erased and a restart
\* scheduled; the program runs on until that restart (Reboot).
FactoryReset ==
    /\ phase = "up"
    /\ nvMin' = NotFound \/ (Faults # {} /\ nvMin' = nvMin)
    /\ issued' = {}
    /\ UNCHANGED <<image, phase, endpoints, minUnused, nvMinOld>>

\* A restart at any point, into the same image or into an updated one.
Reboot ==
    /\ \E img \in {image} \cup {u[2] : u \in {v \in Upgrades : v[1] = image}} :
           /\ image' = img
           /\ phase' = "boot"
           /\ endpoints' = [h \in {} |-> h]
           /\ minUnused' = 0
    /\ UNCHANGED <<nvMin, nvMinOld, issued>>

\* Callers of set_parent_endpoint put a bridged endpoint below an aggregator.
TableNext ==
    \/ \E h \in Handle :
          \/ CreateStatic(h)
          \/ Create(h, "bridged")
          \/ \E id \in 0 .. minUnused : Resume(h, id, "bridged")
          \/ Destroy(h) \/ Enable(h) \/ Disable(h)
          \/ \E p \in Live : /\ h \in Live /\ endpoints[h].kind = "bridged"
                             /\ endpoints[p].kind = "aggregator"
                             /\ SetParent(h, p)
    \/ Start \/ FinishMigration \/ FactoryReset \/ Reboot

TableSpec == TableInit /\ [][TableNext]_tableVars

-----------------------------------------------------------------------------

\* Type invariant of the endpoint list, the RAM counter and the two NVS keys.
TableTypeOK ==
    /\ image \in Images
    /\ phase \in {"boot", "migrate", "up"}
    /\ Live \subseteq Handle
    /\ endpoints \in [Live -> Endpoint]
    /\ minUnused \in EndpointId
    /\ nvMin \in EndpointId \cup {NotFound}
    /\ nvMinOld \in EndpointId \cup {NotFound}
    /\ issued \subseteq EndpointId

\* No two live endpoints share an id, so endpoint::get(id), attribute paths and
\* NVS keys, which are all built from the id, name one endpoint: neither create
\* nor resume nor the counter start() loads from NVS ever produces a second one.
UniqueIds ==
    \A g, h \in Live : g # h => endpoints[g].id # endpoints[h].id

\* Crash safety of the counter: whatever moment the power fails, the value in
\* NVS lies above every id given out so far, so the next boot starts past them.
IdsStayReserved ==
    \A id \in issued : nvMin # NotFound /\ id < nvMin

\* Only endpoint::create moves the counter of a started node.
TakesFreshId ==
    phase = "up" /\ phase' = "up" /\ minUnused' # minUnused
        => minUnused \notin issued /\ minUnused \notin LiveIds

\* The id endpoint::create takes was never given to another endpoint before,
\* in this boot or an earlier one, unless a factory reset came in between:
\* controllers keep ids across reboots and must not meet another device there.
IdsNeverReissued == [][TakesFreshId]_tableVars

=============================================================================
