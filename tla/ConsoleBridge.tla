---------------------------- MODULE ConsoleBridge ----------------------------
(***************************************************************************)
(* The "matter esp bridge" console (esp_matter_console_bridge.cpp): the    *)
(* program that adds and removes bridged devices by command and resumes    *)
(* them at boot.  A factory reset can also come from a button, whose       *)
(* callback runs in another task.                                          *)
(***************************************************************************)
EXTENDS Bridge

VARIABLES
    todo,            \* the copy of the array bridge_initialize goes through, done slots cleared
    ready,           \* bridge_initialize has returned
    devices          \* cli_device: the endpoints of the devices the console holds

consoleVars == <<todo, ready, devices>>

vars == <<tableVars, bridgeVars, consoleVars>>

Init ==
    /\ TableInit
    /\ BridgeInit
    /\ todo = NoArray /\ ready = FALSE /\ devices = {}

\* get_bridged_endpoint_ids
CopyArray ==
    /\ pc = "copy"
    /\ todo' = idArray
    /\ pc' = "loop"
    /\ UNCHANGED <<tableVars, idArray, nvBridge, nvAttrs, cur, history, ready, devices>>

\* bridge_register_commands ignores the result of bridge_initialize.
InitFailed ==
    /\ pc = "initfail"
    /\ pc' = "idle"
    /\ ready' = TRUE
    /\ UNCHANGED <<tableVars, idArray, nvBridge, nvAttrs, cur, history, todo, devices>>

\* The loop of bridge_initialize: resume_device for the next slot in use.
ResumeNext ==
    /\ \E s \in Slots :
          /\ IsFirst(s, {r \in Slots : todo[r] # kInvalidEndpointId})
          /\ ReadInfo(todo[s]) \/ MigrateInfo(todo[s])
          /\ todo' = [todo EXCEPT ![s] = kInvalidEndpointId]
    /\ UNCHANGED <<ready, devices>>

LoopDone ==
    /\ pc = "loop" /\ todo = NoArray
    /\ pc' = "idle"
    /\ ready' = TRUE
    /\ UNCHANGED <<tableVars, idArray, nvBridge, nvAttrs, cur, history, todo, devices>>

\* Mutant: the device is not enabled.
Return_NotEnabled ==
    /\ pc = "ret"
    /\ devices' = IF cur.h # NoHandle THEN devices \cup {cur.h} ELSE devices \cap Live
    /\ cur' = NoDevice
    /\ pc' = IF ready THEN "idle" ELSE "loop"
    /\ UNCHANGED <<tableVars, idArray, nvBridge, nvAttrs, history, todo, ready>>

\* The library returned.  A device is enabled and put in the list; without one
\* (failed, or removed) the list loses the endpoint that was destroyed.
Return ==
    /\ pc = "ret"
    /\ IF cur.h # NoHandle
       THEN Enable(cur.h) /\ devices' = devices \cup {cur.h}
       ELSE UNCHANGED tableVars /\ devices' = devices \cap Live
    /\ cur' = NoDevice
    /\ pc' = IF ready THEN "idle" ELSE "loop"
    /\ UNCHANGED <<idArray, nvBridge, nvAttrs, history, todo, ready>>

\* add_bridge_device_handler: unknown types are refused before anything is done.
AddDevice ==
    /\ \E h \in Handle, p \in LiveIds, t \in Supported[image] : BeginCreate(h, p, t)
    /\ UNCHANGED consoleVars

\* remove_bridge_device_handler
RemoveDevice ==
    /\ pc = "idle"
    /\ \E h \in devices : BeginRemove(h)
    /\ UNCHANGED consoleVars

\* reset_bridge_handler: the bridge's namespace, then the node's.
ResetBridge == BridgeReset /\ UNCHANGED consoleVars

\* The second half of it, the factoryreset command, or the reset button.
ResetNode == MatterReset /\ UNCHANGED consoleVars

Restart ==
    /\ BridgeReboot
    /\ todo' = NoArray /\ ready' = FALSE /\ devices' = {}

Next ==
    \/ NodeBoot /\ UNCHANGED consoleVars
    \/ LibraryStep /\ UNCHANGED consoleVars
    \/ CopyArray \/ InitFailed \/ ResumeNext \/ LoopDone \/ Return
    \/ AddDevice \/ RemoveDevice
    \/ ResetBridge \/ ResetNode
    \/ StoreAttributes /\ UNCHANGED consoleVars
    \/ Restart

Spec == Init /\ [][Next]_vars

-----------------------------------------------------------------------------

\* Type invariant of the console, with those of the list and of the bridge.
ConsoleTypeOK ==
    /\ TableTypeOK /\ BridgeTypeOK
    /\ todo \in [Slots -> EndpointId]
    /\ ready \in BOOLEAN
    /\ devices \subseteq Handle

Idle == ready /\ pc = "idle"

IdOf(h) == endpoints[h].id

\* Every device whose creation once returned is there again after any reboot,
\* enabled and under its aggregator, when the console takes commands; a
\* firmware without that aggregator hides it but does not lose it.
AckedComesBack ==
    Idle => \A id \in DOMAIN acked : ParentIsValid(acked[id].parent) =>
               \E h \in devices \cap Live : /\ IdOf(h) = id
                                            /\ endpoints[h].enabled
                                            /\ endpoints[h].parent = acked[id].parent

\* Between commands the three records of what is bridged agree: the RAM array
\* (one slot per device), the array in NVS, and the console's list, which lacks
\* only the devices whose aggregator this firmware does not have.
RecordsAgree ==
    Idle /\ ~resetting =>
        /\ nvArray = idArray
        /\ {IdOf(h) : h \in devices} =
               {id \in Stored(idArray) : id \in DOMAIN nvInfo => ParentIsValid(nvInfo[id].parent)}
        /\ \A r, s \in Slots : idArray[r] = idArray[s] /\ r # s => idArray[r] = kInvalidEndpointId

\* Whatever NVS write or read fails on the way, an add, a remove and a resume
\* end with a bridged endpoint that the console holds and that is enabled, or
\* with none: no endpoint is left on the node that no command can remove.
NoOrphans ==
    Idle => /\ {h \in Live : endpoints[h].kind = "bridged"} = devices
            /\ \A h \in devices : endpoints[h].enabled /\ ParentIsValid(endpoints[h].parent)

=============================================================================
