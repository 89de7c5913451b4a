---------------------------- MODULE ZigbeeBridge ----------------------------
(***************************************************************************)
(* The two tasks and the two locks of the Zigbee bridge                    *)
(* (examples/bridge_apps/zigbee_bridge).  The Zigbee task runs the         *)
(* callbacks of the Zigbee stack while it holds the Zigbee lock; the       *)
(* callback for a light that was found creates its endpoint, and           *)
(* endpoint::enable takes the Matter stack lock.  The Matter task holds    *)
(* the stack lock while it handles a command; the attribute callback takes *)
(* the Zigbee lock to pass the command to the light.                       *)
(***************************************************************************)
EXTENDS StackLock

CONSTANTS
    Zigbee, Matter,  \* the two tasks: Task = {Zigbee, Matter}
    Light            \* Zigbee lights, by short address

VARIABLES
    zbHolder,        \* the task that holds the Zigbee lock
    pc,              \* per task, where it is
    bridged,         \* the lights with a Matter endpoint
    commands         \* commands of controllers that are not handled yet

zbVars == <<lockVars, zbHolder, pc, bridged, commands>>

Init ==
    /\ LockInit
    /\ zbHolder = NoTask
    /\ pc = [t \in Task |-> "idle"]
    /\ bridged = {} /\ commands = {}

Goto(t, l) == pc' = [pc EXCEPT ![t] = l]

\* esp_zb_lock_acquire(portMAX_DELAY) and esp_zb_lock_release
AcquireZb(t) == zbHolder = NoTask /\ zbHolder' = t
ReleaseZb(t) == zbHolder = t /\ zbHolder' = NoTask

\* esp_zb_main_loop_iteration: the Zigbee task enters its stack ...
ZigbeeEvent ==
    /\ pc[Zigbee] = "idle"
    /\ AcquireZb(Zigbee)
    /\ Goto(Zigbee, "callback")
    /\ UNCHANGED <<lockVars, bridged, commands>>

\* ... which calls zigbee_bridge_find_bridged_on_off_light_cb: a known light
\* needs nothing, a new one is given an endpoint, which is then enabled.
LightFound(l) ==
    /\ pc[Zigbee] = "callback"
    /\ bridged' = bridged \cup {l}
    /\ Goto(Zigbee, IF l \in bridged THEN "leave" ELSE "enable")
    /\ UNCHANGED <<lockVars, zbHolder, commands>>

\* endpoint::enable: the init callbacks run under the stack lock.
EnableLock ==
    /\ pc[Zigbee] = "enable"
    /\ Lock(Zigbee)
    /\ Goto(Zigbee, "init")
    /\ UNCHANGED <<zbHolder, bridged, commands>>

EnableInit ==
    /\ pc[Zigbee] = "init"
    /\ Unlock(Zigbee)
    /\ Goto(Zigbee, "leave")
    /\ UNCHANGED <<zbHolder, bridged, commands>>

ZigbeeLeave ==
    /\ pc[Zigbee] = "leave"
    /\ ReleaseZb(Zigbee)
    /\ Goto(Zigbee, "idle")
    /\ UNCHANGED <<lockVars, bridged, commands>>

\* A controller sends a command to the endpoint of a light.
Command(l) ==
    /\ l \in bridged
    /\ commands' = commands \cup {l}
    /\ UNCHANGED <<lockVars, zbHolder, pc, bridged>>

\* The Matter task dispatches it under the stack lock, up to PRE_UPDATE.
Dispatch ==
    /\ pc[Matter] = "idle" /\ commands # {}
    /\ Lock(Matter)
    /\ Goto(Matter, "pre_update")
    /\ UNCHANGED <<zbHolder, bridged, commands>>

\* zigbee_bridge_attribute_update: the command goes out under the Zigbee lock.
AttributeUpdate ==
    /\ pc[Matter] = "pre_update"
    /\ AcquireZb(Matter)
    /\ Goto(Matter, "send")
    /\ UNCHANGED <<lockVars, bridged, commands>>

SendCommand(l) ==
    /\ pc[Matter] = "send" /\ l \in commands
    /\ commands' = commands \ {l}
    /\ ReleaseZb(Matter)
    /\ Goto(Matter, "leave")
    /\ UNCHANGED <<lockVars, bridged>>

MatterLeave ==
    /\ pc[Matter] = "leave"
    /\ Unlock(Matter)
    /\ Goto(Matter, "idle")
    /\ UNCHANGED <<zbHolder, bridged, commands>>

Next ==
    \/ ZigbeeEvent \/ EnableLock \/ EnableInit \/ ZigbeeLeave
    \/ Dispatch \/ AttributeUpdate \/ MatterLeave
    \/ \E l \in Light : LightFound(l) \/ Command(l) \/ SendCommand(l)

Spec == Init /\ [][Next]_zbVars
-----------------------------------------------------------------------------

\* A bridged light stays controllable from Matter, as the README of the example
\* says: the Matter task never waits, with the stack lock, for the Zigbee lock
\* while the Zigbee task waits, with that lock, for the stack lock.
NoCircularWait ==
    ~ /\ pc[Matter] = "pre_update" /\ zbHolder = Zigbee
      /\ pc[Zigbee] = "enable" /\ holder = Matter

=============================================================================
