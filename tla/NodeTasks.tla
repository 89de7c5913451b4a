----------------------------- MODULE NodeTasks -----------------------------
(***************************************************************************)
(* The endpoint list as several FreeRTOS tasks work on it, one access to   *)
(* shared memory or NVS at a time: esp_matter::start() in the main task    *)
(* and its init task in the Matter task, the calls of application tasks    *)
(* (endpoint::create with enable, resume, destroy, attribute::update), and *)
(* the Matter task that walks the list to serve interactions.              *)
(*                                                                         *)
(* The calls take the stack lock only around parts of their work, so their *)
(* callers hold it around the whole call, as docs/en/faq.rst asks.  Under  *)
(* that discipline the tasks together implement EndpointTable, where every *)
(* call is a single step (ImplementsTable).                                *)
(***************************************************************************)
EXTENDS StackLock, FiniteSets

CONSTANTS
    Main,            \* the application task that calls start()
    Matter,          \* the Matter event loop task
    Early,           \* application tasks that call the API while start() runs
    Holding,         \* the calls whose callers hold the stack lock
    InitResults,     \* how the init task may end: "ok", "static", "server"
    Handle,          \* the _endpoint_t objects the heap can hold
    ListHead, Nil,   \* node->endpoint_list, and the null pointer
    Static,          \* the kinds of endpoint created before start()
    MaxEndpoints, IdBound, NotFound     \* as in EndpointTable

App == Task \ {Matter}

kInvalidEndpointId == 65535

ASSUME TasksAssumption ==
    /\ Main \in Task /\ Matter \in Task /\ Main # Matter
    /\ Early \subseteq App \ {Main}
    /\ Holding \subseteq {"create", "resume", "destroy", "update"}
    /\ InitResults \subseteq {"ok", "static", "server"}
    /\ {ListHead, Nil} \cap Handle = {}
    /\ Len(Static) <= MaxEndpoints
    /\ IdBound <= kInvalidEndpointId

VARIABLES
    pc,              \* per task, the next access of the call it is in
    mine,            \* per task, the endpoint its call is about
    id,              \* per task, the id it has read
    at,              \* per task, the list cell it has walked to
    heap,            \* per object, its fields, or Nil when it is not allocated
    next,            \* the next pointers of the list
    minUnused,       \* node->min_unused_endpoint_id
    nvMin,           \* NVS key min_uu_ep_id
    started,         \* esp_matter_started
    scheduled,       \* the init task is in the queue of the Matter task
    notified,        \* the notification the main task waits for
    issued           \* history: the ids create gave on a started node

callVars == <<pc, mine, id, at>>
listVars == <<heap, next>>
idVars == <<minUnused, nvMin, issued>>
startVars == <<started, scheduled, notified>>
vars == <<lockVars, callVars, listVars, idVars, startVars>>

Cell == Handle \cup {ListHead}

\* _endpoint_t, and how often the init callbacks of its clusters have run.
Object == [id : Nat, parent : {0, kInvalidEndpointId}, enabled : BOOLEAN,
           destroyable : BOOLEAN, clusters : BOOLEAN, inits : Nat]

ASSUME NilAssumption == Nil \notin Object

Free == {h \in Handle : heap[h] = Nil}

\* A set of objects that no next pointer, nor the head, leads out of.
Closed == {S \in SUBSET Handle : \A c \in S \cup {ListHead} : next[c] \in S \cup {Nil}}

\* The objects met on the way from the head pointer, and with it the cells.
Listed == LET closed == Closed
          IN  {h \in Handle : \A S \in closed : h \in S}

Walk == Listed \cup {ListHead}

Last == CHOOSE c \in Walk : next[c] = Nil

Named(i) == {h \in Listed : heap[h].id = i}

\* node::create_raw, and no task inside a call.
Init ==
    /\ pc = [t \in Task |-> IF t = Main THEN "image" ELSE "idle"]
    /\ mine = [t \in Task |-> Nil]
    /\ id = [t \in Task |-> 0]
    /\ at = [t \in Task |-> ListHead]
    /\ heap = [h \in Handle |-> Nil]
    /\ next = [c \in Cell |-> Nil]
    /\ minUnused = 0 /\ nvMin = NotFound /\ issued = {}
    /\ started = FALSE /\ scheduled = FALSE /\ notified = FALSE
    /\ LockInit

Goto(t, l) == pc' = [pc EXCEPT ![t] = l]

\* Power loss, crash or restart: only NVS survives.
Reboot ==
    /\ pc' = [t \in Task |-> IF t = Main THEN "image" ELSE "idle"]
    /\ mine' = [t \in Task |-> Nil]
    /\ id' = [t \in Task |-> 0]
    /\ at' = [t \in Task |-> ListHead]
    /\ heap' = [h \in Handle |-> Nil]
    /\ next' = [c \in Cell |-> Nil]
    /\ minUnused' = 0
    /\ started' = FALSE /\ scheduled' = FALSE /\ notified' = FALSE
    /\ holder' = NoTask
    /\ scopes' = [t \in Task |-> <<>>]
    /\ UNCHANGED <<nvMin, issued>>

\* The main task is inside start(), or has not called it yet.
Starting == pc[Main] \in {"image", "wait", "read", "store"}
-----------------------------------------------------------------------------
(* esp_matter::start() *)

\* endpoint::create before start(), with the data model elements added; no
\* other task uses the data model yet.  After the last one, chip_init
\* schedules the init task on the Matter task and waits.
CreateStatic ==
    /\ pc[Main] = "image" /\ minUnused < Len(Static)
    /\ \E h \in Free :
          /\ heap' = [heap EXCEPT ![h] = [id |-> minUnused, parent |-> kInvalidEndpointId,
                                          enabled |-> TRUE, destroyable |-> FALSE,
                                          clusters |-> TRUE, inits |-> 0]]
          /\ next' = [next EXCEPT ![Last] = h]
    /\ minUnused' = minUnused + 1
    /\ UNCHANGED <<lockVars, callVars, nvMin, issued, startVars>>

\* Mutant: chip_init waits with the stack lock held.
ChipInit_Locked ==
    /\ pc[Main] = "image" /\ minUnused = Len(Static)
    /\ scheduled' = TRUE
    /\ Lock(Main)
    /\ Goto(Main, "wait")
    /\ UNCHANGED <<mine, id, at, listVars, idVars, started, notified>>

ChipInit ==
    /\ pc[Main] = "image" /\ minUnused = Len(Static)
    /\ scheduled' = TRUE
    /\ Goto(Main, "wait")
    /\ UNCHANGED <<lockVars, mine, id, at, listVars, idVars, started, notified>>

\* The init task up to Server::Init, whose provider::Startup runs the init
\* callbacks of the clusters of every endpoint in the list.  When the static
\* resources fail ("static") the task returns and does not notify; when
\* Server::Init fails ("server") that is logged and the task goes on.
ServerInit ==
    /\ pc[Matter] = "dispatch" /\ scheduled
    /\ scheduled' = FALSE
    /\ \E result \in InitResults :
          /\ heap' = [h \in Handle |-> IF result = "ok" /\ h \in Listed
                                       THEN [heap[h] EXCEPT !.inits = @ + 1] ELSE heap[h]]
          /\ Goto(Matter, IF result = "static" THEN "leave" ELSE "enable_all")
    /\ UNCHANGED <<lockVars, mine, id, at, next, idVars, started, notified>>

\* Mutant: enable() runs the init callbacks also before the node has started.
EnableAll_Callbacks ==
    /\ pc[Matter] = "enable_all"
    /\ heap' = [h \in Handle |-> IF h \in Listed THEN [heap[h] EXCEPT !.enabled = TRUE, !.inits = @ + 1]
                                 ELSE heap[h]]
    /\ notified' = TRUE
    /\ Goto(Matter, "leave")
    /\ UNCHANGED <<lockVars, mine, id, at, next, idVars, started, scheduled>>

\* The rest of the init task: endpoint::enable_all, then xTaskNotifyGive.
EnableAll ==
    /\ pc[Matter] = "enable_all"
    /\ heap' = [h \in Handle |-> IF h \in Listed THEN [heap[h] EXCEPT !.enabled = TRUE] ELSE heap[h]]
    /\ notified' = TRUE
    /\ Goto(Matter, "leave")
    /\ UNCHANGED <<lockVars, mine, id, at, next, idVars, started, scheduled>>

\* xTaskNotifyWait returns, and start() marks the node started.
Started ==
    /\ pc[Main] = "wait" /\ notified
    /\ started' = TRUE
    /\ Goto(Main, "read")
    /\ UNCHANGED <<lockVars, mine, id, at, listVars, idVars, scheduled, notified>>

\* read_min_unused_endpoint_id: the counter in NVS replaces the one in RAM.
ReadMin ==
    /\ pc[Main] = "read"
    /\ IF nvMin = NotFound
       THEN Goto(Main, "store") /\ UNCHANGED minUnused
       ELSE Goto(Main, "idle") /\ minUnused' = nvMin
    /\ UNCHANGED <<lockVars, mine, id, at, listVars, nvMin, issued, startVars>>

\* store_min_unused_endpoint_id, when NVS had none; start() returns.
StoreMin ==
    /\ pc[Main] = "store"
    /\ nvMin' = minUnused
    /\ Goto(Main, "idle")
    /\ UNCHANGED <<lockVars, mine, id, at, listVars, minUnused, issued, startVars>>

Start == CreateStatic \/ ChipInit \/ ServerInit \/ EnableAll \/ Started \/ ReadMin \/ StoreMin
-----------------------------------------------------------------------------
(* The Matter task *)

\* The event loop takes the mutex for the events it dispatches.
Dispatch ==
    /\ pc[Matter] = "idle" /\ pc[Main] # "image"
    /\ Lock(Matter)
    /\ Goto(Matter, "dispatch")
    /\ UNCHANGED <<mine, id, at, listVars, idVars, startVars>>

\* An interaction: provider::Endpoints walks the list from its head, and the
\* clusters of each endpoint it meets.
Serve ==
    /\ pc[Matter] = "dispatch" /\ ~ scheduled
    /\ at' = [at EXCEPT ![Matter] = next[ListHead]]
    /\ Goto(Matter, "serve")
    /\ UNCHANGED <<lockVars, mine, id, listVars, idVars, startVars>>

ServeNext ==
    /\ pc[Matter] = "serve" /\ at[Matter] # Nil
    /\ at' = [at EXCEPT ![Matter] = next[@]]
    /\ UNCHANGED <<lockVars, pc, mine, id, listVars, idVars, startVars>>

Leave ==
    /\ \/ pc[Matter] = "leave"
       \/ pc[Matter] = "serve" /\ at[Matter] = Nil
    /\ Unlock(Matter)
    /\ Goto(Matter, "idle")
    /\ UNCHANGED <<mine, id, at, listVars, idVars, startVars>>

MatterTask == Dispatch \/ Serve \/ ServeNext \/ Leave
-----------------------------------------------------------------------------
(* Calls of an application task t, inside a scope of its caller or not *)

Call(t, l) ==
    /\ pc[t] = "idle"
    /\ Starting => t \in Early /\ pc[Main] # "image"
    /\ IF l \in Holding THEN Lock(t) ELSE UNCHANGED lockVars
    /\ Goto(t, l)
    /\ UNCHANGED <<mine, id, at, listVars, idVars, startVars>>

Return(t) ==
    /\ pc[t] = "return"
    /\ IF scopes[t] # <<>> THEN Unlock(t) ELSE UNCHANGED lockVars
    /\ Goto(t, "idle")
    /\ mine' = [mine EXCEPT ![t] = Nil]
    /\ id' = [id EXCEPT ![t] = 0]
    /\ at' = [at EXCEPT ![t] = ListHead]
    /\ UNCHANGED <<listVars, idVars, startVars>>

\* A scope opened inside the call, and one access made under it as it closes.
Enter(t, l, inside) ==
    /\ pc[t] = l
    /\ Lock(t)
    /\ Goto(t, inside)
    /\ UNCHANGED <<mine, id, at, listVars, idVars, startVars>>

Within(t, inside, l) ==
    /\ pc[t] = inside
    /\ Unlock(t)
    /\ Goto(t, l)
    /\ UNCHANGED <<mine, id, at, next, idVars, startVars>>

\* An access that only moves on, or only changes the local variables.
Quiet(t, l) == Goto(t, l) /\ UNCHANGED <<lockVars, listVars, idVars, startVars>>

\* endpoint::create: the count, and the object.
CreateCount(t) ==
    /\ pc[t] = "create"
    /\ UNCHANGED <<lockVars, id, at, idVars, startVars>>
    /\ \/ /\ Cardinality(Listed) < MaxEndpoints
          /\ \E h \in Free :
                /\ mine' = [mine EXCEPT ![t] = h]
                /\ heap' = [heap EXCEPT ![h] = [id |-> 0, parent |-> kInvalidEndpointId,
                                                enabled |-> TRUE, destroyable |-> TRUE,
                                                clusters |-> FALSE, inits |-> 0]]
                /\ next' = [next EXCEPT ![h] = Nil]
          /\ Goto(t, "take")
       \/ /\ Cardinality(Listed) >= MaxEndpoints
          /\ Goto(t, "return")
          /\ UNCHANGED <<mine, listVars>>

\* min_unused_endpoint_id++ reads the counter ...
CreateTake(t) ==
    /\ pc[t] = "take"
    /\ id' = [id EXCEPT ![t] = minUnused]
    /\ UNCHANGED <<mine, at>>
    /\ Quiet(t, "bump")

\* ... and writes it back.
CreateBump(t) ==
    /\ pc[t] = "bump"
    /\ minUnused' = id[t] + 1
    /\ heap' = [heap EXCEPT ![mine[t]].id = id[t]]
    /\ Goto(t, "save")
    /\ UNCHANGED <<lockVars, mine, id, at, next, nvMin, issued, startVars>>

\* Mutant: the id is stored, not the counter.
CreateSave_Id(t) ==
    /\ pc[t] = "save"
    /\ nvMin' = IF started THEN id[t] ELSE nvMin
    /\ issued' = IF started THEN issued \cup {id[t]} ELSE issued
    /\ Goto(t, "walk")
    /\ UNCHANGED <<lockVars, mine, id, at, listVars, minUnused, startVars>>

\* store_min_unused_endpoint_id, on a started node.
CreateSave(t) ==
    /\ pc[t] = "save"
    /\ nvMin' = IF started THEN minUnused ELSE nvMin
    /\ issued' = IF started THEN issued \cup {id[t]} ELSE issued
    /\ Goto(t, "walk")
    /\ UNCHANGED <<lockVars, mine, id, at, listVars, minUnused, startVars>>

\* SinglyLinkedList::append (and the search of resume): the last cell ...
AppendWalk(t) ==
    /\ pc[t] = "walk"
    /\ at' = [at EXCEPT ![t] = Last]
    /\ UNCHANGED <<mine, id>>
    /\ Quiet(t, "link")

\* ... and its next pointer.  The caller then adds the clusters.
AppendLink(t) ==
    /\ pc[t] = "link"
    /\ next' = [next EXCEPT ![at[t]] = mine[t]]
    /\ Goto(t, "build")
    /\ UNCHANGED <<lockVars, mine, id, at, heap, idVars, startVars>>

Build(t) ==
    /\ pc[t] = "build"
    /\ heap' = [heap EXCEPT ![mine[t]].clusters = TRUE]
    /\ Goto(t, "enable")
    /\ UNCHANGED <<lockVars, mine, id, at, next, idVars, startVars>>

\* endpoint::resume: refused for an id in the list or never given out.
ResumeSearch(t) ==
    /\ pc[t] = "resume"
    /\ UNCHANGED <<lockVars, id, at, idVars, startVars>>
    /\ \E i \in 0 .. minUnused :
          IF Named(i) = {} /\ i < minUnused
          THEN \E h \in Free :
                  /\ mine' = [mine EXCEPT ![t] = h]
                  /\ heap' = [heap EXCEPT ![h] = [id |-> i, parent |-> 0,
                                                  enabled |-> FALSE, destroyable |-> TRUE,
                                                  clusters |-> FALSE, inits |-> 0]]
                  /\ next' = [next EXCEPT ![h] = Nil]
                  /\ Goto(t, "walk")
          ELSE Goto(t, "return") /\ UNCHANGED <<mine, listVars>>

\* endpoint::enable: the flag; on a started node also the init callbacks,
\* under the lock.
EnableFlag(t) ==
    /\ pc[t] = "enable"
    /\ heap' = [heap EXCEPT ![mine[t]].enabled = TRUE]
    /\ Goto(t, IF started THEN "init lock" ELSE "return")
    /\ UNCHANGED <<lockVars, mine, id, at, next, idVars, startVars>>

EnableInit(t) ==
    /\ Within(t, "init", "return")
    /\ heap' = [heap EXCEPT ![mine[t]].inits = @ + 1]

\* endpoint::destroy of an endpoint its caller has in hand: disable() clears
\* the flag, then reports and shuts the clusters down under the lock.
DestroyFlag(t) ==
    /\ pc[t] = "destroy"
    /\ UNCHANGED <<lockVars, id, at, next, idVars, startVars>>
    /\ \/ \E h \in {g \in Listed : heap[g].destroyable} :
             /\ mine' = [mine EXCEPT ![t] = h]
             /\ heap' = [heap EXCEPT ![h].enabled = FALSE]
             /\ Goto(t, "report lock")
       \/ /\ \A g \in Listed : ~ heap[g].destroyable
          /\ Goto(t, "return")
          /\ UNCHANGED <<mine, heap>>

DestroyReport(t) == Within(t, "report", "find") /\ UNCHANGED heap

\* The cell before the endpoint.
DestroyFind(t) ==
    /\ pc[t] = "find"
    /\ IF mine[t] \in Listed
       THEN /\ at' = [at EXCEPT ![t] = CHOOSE c \in Walk : next[c] = mine[t]]
            /\ Quiet(t, "shutdown lock")
       ELSE Quiet(t, "return") /\ UNCHANGED at
    /\ UNCHANGED <<mine, id>>

DestroyShutdown(t) == Within(t, "shutdown", "clusters") /\ UNCHANGED heap

\* The clusters are freed, the endpoint unlinked, and freed: outside the scope.
DestroyClusters(t) ==
    /\ pc[t] = "clusters"
    /\ heap' = [heap EXCEPT ![mine[t]].clusters = FALSE]
    /\ Goto(t, "unlink")
    /\ UNCHANGED <<lockVars, mine, id, at, next, idVars, startVars>>

DestroyUnlink(t) ==
    /\ pc[t] = "unlink"
    /\ next' = [next EXCEPT ![at[t]] = next[mine[t]]]
    /\ Goto(t, "free")
    /\ UNCHANGED <<lockVars, mine, id, at, heap, idVars, startVars>>

DestroyFree(t) ==
    /\ pc[t] = "free"
    /\ heap' = [heap EXCEPT ![mine[t]] = Nil]
    /\ Goto(t, "return")
    /\ UNCHANGED <<lockVars, mine, id, at, next, idVars, startVars>>

\* attribute::update: the attribute is looked up first, the lock taken then,
\* and the value written through the pointer found.
UpdateLookup(t) ==
    /\ pc[t] = "update"
    /\ \/ \E h \in {g \in Listed : heap[g].clusters} :
             mine' = [mine EXCEPT ![t] = h] /\ Quiet(t, "set lock")
       \/ mine' = mine /\ Quiet(t, "return")
    /\ UNCHANGED <<id, at>>

UpdateSet(t) == Within(t, "set", "return") /\ UNCHANGED heap

CallStep(t) ==
    \/ CreateCount(t) \/ CreateTake(t) \/ CreateBump(t) \/ CreateSave(t)
    \/ ResumeSearch(t) \/ AppendWalk(t) \/ AppendLink(t) \/ Build(t)
    \/ EnableFlag(t) \/ Enter(t, "init lock", "init") \/ EnableInit(t)
    \/ DestroyFlag(t) \/ Enter(t, "report lock", "report") \/ DestroyReport(t)
    \/ DestroyFind(t) \/ Enter(t, "shutdown lock", "shutdown") \/ DestroyShutdown(t)
    \/ DestroyClusters(t) \/ DestroyUnlink(t) \/ DestroyFree(t)
    \/ UpdateLookup(t) \/ Enter(t, "set lock", "set") \/ UpdateSet(t)
    \/ Return(t)

Calls(t) ==
    \/ minUnused < IdBound /\ Call(t, "create")
    \/ \E l \in {"resume", "destroy", "update"} : Call(t, l)

Next ==
    \/ Start \/ MatterTask \/ Reboot
    \/ \E t \in App : Calls(t) \/ CallStep(t)

Spec == Init /\ [][Next]_vars
-----------------------------------------------------------------------------

\* The scheduler runs every task that can run, and a task that waits for the
\* mutex gets it when it is released time and again: the Matter task sleeps
\* between events and FreeRTOS hands the mutex to a waiting task.
\* Nothing makes an application call the API or the power fail.
Fairness ==
    /\ WF_vars(Start) /\ WF_vars(Serve \/ ServeNext \/ Leave)
    /\ SF_vars(Dispatch)
    /\ \A t \in App : SF_vars(CallStep(t))

FairSpec == Spec /\ Fairness
-----------------------------------------------------------------------------

\* Type invariant of the tasks, the heap and the counter.
TasksTypeOK ==
    /\ LockTypeOK
    /\ mine \in [Task -> Handle \cup {Nil}]
    /\ at \in [Task -> Cell \cup {Nil}]
    /\ heap \in [Handle -> Object \cup {Nil}]
    /\ next \in [Cell -> Handle \cup {Nil}]
    /\ minUnused \in 0 .. IdBound
    /\ nvMin \in 0 .. IdBound \cup {NotFound}

\* The objects a task is about to read or write through a pointer it holds.
Reached(t) ==
    CASE pc[t] = "serve" -> {at[t]} \ {Nil}
      [] pc[t] = "set" -> {mine[t]}
      [] pc[t] \in {"report", "init"} -> {mine[t]}
      [] pc[t] \in {"link", "unlink"} -> {at[t], mine[t]} \ {ListHead}
      [] pc[t] \in {"bump", "build", "enable", "clusters", "free"} -> {mine[t]}
      [] OTHER -> {}

\* No task follows a pointer into memory another task has freed: the Matter task
\* walking the list, attribute::update with the attribute it looked up before it
\* took the lock, and append or destroy with the cell they walked to, all find
\* the object allocated, and the walk and the update find its clusters too.
NoDangling ==
    \A t \in Task :
        /\ \A h \in Reached(t) : heap[h] # Nil
        /\ pc[t] \in {"serve", "set"} => \A h \in Reached(t) : heap[h].clusters

\* The init callbacks of an endpoint run once: in provider::Startup for the ones
\* created before start(), in enable() for later ones, and when start() or the
\* call that adds an endpoint has returned they have run.
InitOnce ==
    \A h \in Handle : heap[h] # Nil =>
        /\ heap[h].inits <= 1
        /\ ~ Starting /\ (\A t \in Task : mine[t] # h) => heap[h].inits = 1

\* The init task returned before Server::Init, having failed to set up its static
\* resources: no init callback has run, and nothing will notify the main task.
InitGaveUp ==
    /\ pc[Main] = "wait" /\ ~ scheduled /\ ~ notified
    /\ pc[Matter] # "enable_all"
    /\ \A h \in Listed : heap[h].inits = 0

\* chip_init waits without a timeout: start() returns, because the init task gets
\* the mutex and notifies, unless it gives up before Server::Init; then, and only
\* then, start() waits for ever (esp_matter_core.cpp:186).
StartReturns == pc[Main] = "wait" ~> ~ Starting \/ pc[Main] = "image" \/ InitGaveUp

\* Every call returns: a call whose caller holds the lock does not wait for
\* itself in the scopes it opens, and leaves the mutex free when it is done.
CallsReturn ==
    \A t \in App : pc[t] \notin {"idle", "image", "wait", "read", "store"}
                       ~> pc[t] \in {"idle", "image"}

\* The call that has changed the counter in RAM and not in NVS yet; and the one
\* whose endpoint counts as created, though the list does not show it yet.
Unsaved == {t \in App : pc[t] = "save"}
Unlinked == {t \in App : pc[t] \in {"walk", "link"} /\ heap[mine[t]].parent # 0}

TableView ==
    [h \in Listed \cup {mine[t] : t \in Unlinked} |->
        [id |-> heap[h].id, parent |-> heap[h].parent, enabled |-> heap[h].enabled,
         destroyable |-> heap[h].destroyable,
         kind |-> IF heap[h].destroyable THEN "bridged" ELSE Static[heap[h].id + 1]]]

Table == INSTANCE EndpointTable WITH
    Images <- {Static}, Upgrades <- {}, LegacyMin <- {NotFound}, Faults <- {},
    image <- Static,
    phase <- IF Starting THEN "boot" ELSE "up",
    endpoints <- TableView,
    minUnused <- IF Unsaved # {} THEN id[CHOOSE t \in Unsaved : TRUE] ELSE minUnused,
    nvMinOld <- NotFound

\* Refinement: callers that hold the lock make every call one step.  The calls,
\* start() and the Matter task, access by access and with a power loss between
\* any two, do nothing that EndpointTable does not do.
ImplementsTable == Table!TableSpec

\* endpoint::create adds an endpoint "with a unique endpoint_id": no two
\* endpoints of the list share one, also when a task calls create while start()
\* has marked the node started and has not read the counter yet.
UniqueInList == \A g, h \in Listed : g # h => heap[g].id # heap[h].id

=============================================================================
