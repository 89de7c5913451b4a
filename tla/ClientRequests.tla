--------------------------- MODULE ClientRequests ---------------------------
(***************************************************************************)
(* The client side: requests that wait for a session with their peer       *)
(* (esp_matter_client.cpp) and the command objects of the controller, the  *)
(* classes subscribe_command, read_command, write_command and              *)
(* cluster_command.  Such an object is allocated by the call that sends    *)
(* it; no one keeps a pointer to it but the SDK's callback lists and       *)
(* interaction clients, and it deletes itself in the callback that ends    *)
(* it.  All callbacks run on the Matter task, one at a time.               *)
(*                                                                         *)
(* A Callback object of the SDK is in one list at most: handing it over    *)
(* again takes it out of the list it was in.  A command has Callback       *)
(* objects of its own; client::connect() has one static pair for all       *)
(* requests, Shared here, whose context is the request handle.             *)
(***************************************************************************)
EXTENDS Naturals, FiniteSets

CONSTANTS
    Peer,           \* remote nodes
    Handle,         \* request_handle_t objects that connect() allocates
    Command,        \* command objects of the controller
    Shared,         \* the static Callback pair of connect()
    NoPeer,
    NoHandle,
    MaxRetries,     \* k_max_resubscribe_retries
    MaxInvokes      \* bound: invokes not answered yet that carry one address

ASSUME ClientAssumption ==
    /\ MaxRetries \in Nat
    /\ MaxInvokes \in Nat
    /\ NoPeer \notin Peer
    /\ NoHandle \notin Handle \cup Command
    /\ Shared \notin Command
    /\ Handle \cap Command = {}

VARIABLES
    live,       \* the allocated handles and commands
    target,     \* the peer each object was made for
    context,    \* mContext of the static Callback pair
    waiting,    \* the peer whose session a Callback waits for
    session,    \* peers with a secure session
    kind,       \* the class of a command
    auto,       \* m_auto_resubscribe
    retries,    \* m_resubscribe_retries
    reader,     \* the interaction client that calls the command back
    invokes,    \* the CommandSenders whose callbacks carry the command's address
    attempts,   \* resubscriptions sent since the subscription last stood
    told        \* what the application was told of a command

cmdVars == <<kind, auto, retries, reader, invokes, attempts, told>>
vars == <<live, target, context, waiting, session, cmdVars>>

\* subscribe_command, read_command or write_command, cluster_command.
Kinds == {"subscribe", "access", "invoke"}

Registered(cb) == waiting[cb] # NoPeer

Waiters(p) == {c \in Command : waiting[c] = p}

ClientInit ==
    /\ live = {}
    /\ target = [o \in Handle \cup Command |-> NoPeer]
    /\ context = NoHandle
    /\ waiting = [cb \in Command \cup {Shared} |-> NoPeer]
    /\ session = {}
    /\ kind = [c \in Command |-> "invoke"]
    /\ auto = [c \in Command |-> FALSE]
    /\ retries = [c \in Command |-> 0]
    /\ reader = [c \in Command |-> "none"]
    /\ invokes = [c \in Command |-> 0]
    /\ attempts = [c \in Command |-> 0]
    /\ told = [c \in Command |-> {}]

-----------------------------------------------------------------------------
(* client::connect().  The handle is copied to the heap and becomes the    *)
(* context of the static callbacks.                                        *)

Connect(h, p) ==
    /\ h \notin live
    /\ target' = [target EXCEPT ![h] = p]
    /\ context' = h
    /\ \/ \* the session stands: the request is sent and the handle deleted
          /\ p \in session
          /\ waiting' = [waiting EXCEPT ![Shared] = NoPeer]
          /\ UNCHANGED live
       \/ \* the callbacks wait for the session
          /\ p \notin session
          /\ waiting' = [waiting EXCEPT ![Shared] = p]
          /\ live' = live \cup {h}
       \/ \* no session can be set up: the failure callback deletes the handle
          /\ p \notin session
          /\ UNCHANGED <<waiting, live>>
    /\ UNCHANGED <<session, cmdVars>>

-----------------------------------------------------------------------------
(* The commands.                                                           *)

\* A bug: a command that cannot be sent is left behind.
Dropped_Leak(cs, failing) == {c \in cs : kind[c] = "invoke"}

\* What on_device_connected_fcn deletes of the commands cs, those in failing
\* being the ones that cannot be sent: a cluster_command always, as its
\* callbacks do not need it any more, another only when it cannot be sent.
Dropped(cs, failing) == failing \cup {c \in cs : kind[c] = "invoke"}

\* The interaction clients afterwards.  A cluster_command has none: the
\* custom_command_callback of its CommandSender carries the address it had.
Sent(cs, failing) ==
    [c \in Command |-> IF c \in cs \ (failing \cup {d \in cs : kind[d] = "invoke"})
                       THEN "requested" ELSE reader[c]]

Invoked(cs, failing) ==
    [c \in Command |-> IF c \in cs \ failing /\ kind[c] = "invoke"
                       THEN invokes[c] + 1 ELSE invokes[c]]

\* send_command() of a new command c of class k for the peer p, with every
\* way the SDK may answer FindOrEstablishSession().
SendCommand(c, p, k, a) ==
    /\ c \notin live
    /\ k = "invoke" => invokes[c] < MaxInvokes
    /\ target' = [target EXCEPT ![c] = p]
    /\ kind' = [kind EXCEPT ![c] = k]
    /\ auto' = [auto EXCEPT ![c] = a /\ k = "subscribe"]
    /\ retries' = [retries EXCEPT ![c] = 0]
    /\ attempts' = [attempts EXCEPT ![c] = 0]
    /\ \/ \* the session stands and the request goes out
          /\ p \in session
          /\ told' = [told EXCEPT ![c] = {}]
          /\ live' = IF k = "invoke" THEN live ELSE live \cup {c}
          /\ reader' = [reader EXCEPT ![c] = IF k = "invoke" THEN "none" ELSE "requested"]
          /\ invokes' = [invokes EXCEPT ![c] = IF k = "invoke" THEN @ + 1 ELSE @]
          /\ UNCHANGED waiting
       \/ \* the command is deleted at once: send_request() or
          \* GetConnectedDevice() fails, or the command is for a group
          /\ told' = [told EXCEPT ![c] = {}]
          /\ UNCHANGED <<live, reader, invokes, waiting>>
       \/ \* on_device_connection_failure_fcn
          /\ p \notin session
          /\ told' = [told EXCEPT ![c] = {"failed"}]
          /\ UNCHANGED <<live, reader, invokes, waiting>>
       \/ /\ p \notin session
          /\ told' = [told EXCEPT ![c] = {}]
          /\ live' = live \cup {c}
          /\ waiting' = [waiting EXCEPT ![c] = p]
          /\ UNCHANGED <<reader, invokes>>
    /\ UNCHANGED <<context, session>>

\* The SDK takes the callbacks that wait for p out of its list.
Resolved(p) == [cb \in Command \cup {Shared} |->
                  IF waiting[cb] = p THEN NoPeer ELSE waiting[cb]]

\* The handle that the static callbacks delete, if they wait for p: the last
\* one handed to connect(), whether or not it is the one that waits for p.
Released(p) == IF waiting[Shared] = p THEN {context} ELSE {}

\* The session with p is set up: the success callback of every waiter runs.
SessionUp(p) ==
    /\ p \notin session
    /\ session' = session \cup {p}
    /\ waiting' = Resolved(p)
    /\ \E failing \in SUBSET Waiters(p) :
          /\ live' = live \ (Dropped(Waiters(p), failing) \cup Released(p))
          /\ reader' = Sent(Waiters(p), failing)
          /\ invokes' = Invoked(Waiters(p), failing)
    /\ UNCHANGED <<target, context, kind, auto, retries, attempts, told>>

\* It cannot be set up: the failure callback of every waiter runs.
SessionFail(p) ==
    /\ p \notin session
    /\ \E cb \in Command \cup {Shared} : waiting[cb] = p
    /\ waiting' = Resolved(p)
    /\ live' = live \ (Waiters(p) \cup Released(p))
    /\ told' = [c \in Command |-> IF waiting[c] = p THEN told[c] \cup {"failed"}
                                                    ELSE told[c]]
    /\ UNCHANGED <<target, context, session, kind, auto, retries, reader, invokes,
                   attempts>>

SessionLost(p) ==
    /\ p \in session
    /\ session' = session \ {p}
    /\ UNCHANGED <<live, target, context, waiting, cmdVars>>

-----------------------------------------------------------------------------
(* What the interaction client of a command calls.                         *)

\* A bug: the object goes, and no callback tells of its end.
OnDone_Silent(cs) ==
    /\ live' = live \ cs
    /\ reader' = [c \in Command |-> IF c \in cs THEN "none" ELSE reader[c]]
    /\ UNCHANGED told

\* OnDone: the application is told, the client and the command are deleted.
OnDone(cs) ==
    /\ live' = live \ cs
    /\ reader' = [c \in Command |-> IF c \in cs THEN "none" ELSE reader[c]]
    /\ told' = [c \in Command |-> IF c \in cs THEN told[c] \cup {"terminated"}
                                              ELSE told[c]]

\* OnSubscriptionEstablished.
Established(c) ==
    /\ kind[c] = "subscribe"
    /\ reader[c] = "requested"
    /\ reader' = [reader EXCEPT ![c] = "active"]
    /\ retries' = [retries EXCEPT ![c] = 0]
    /\ attempts' = [attempts EXCEPT ![c] = 0]
    /\ told' = [told EXCEPT ![c] = @ \cup {"established"}]
    /\ UNCHANGED <<live, target, context, waiting, session, kind, auto, invokes>>

\* A bug: the deleter callback goes without passing OnDone on.
Finished_NotForwarded(c) ==
    /\ kind[c] = "access"
    /\ reader[c] = "requested"
    /\ reader' = [reader EXCEPT ![c] = "none"]
    /\ UNCHANGED <<live, told, target, context, waiting, session, kind, auto, retries, invokes,
                   attempts>>

\* The answer to a read or a write, or its error or its timeout.
Finished(c) ==
    /\ kind[c] = "access"
    /\ reader[c] = "requested"
    /\ OnDone({c})
    /\ UNCHANGED <<target, context, waiting, session, kind, auto, retries, invokes, attempts>>

\* The answer to an invoke, or its error or its timeout: the callbacks of the
\* application get the address of the command as their context, and the
\* CommandSender goes.
InvokeDone(c) ==
    /\ invokes[c] > 0
    /\ invokes' = [invokes EXCEPT ![c] = @ - 1]
    /\ UNCHANGED <<live, target, context, waiting, session, kind, auto, retries, reader,
                   attempts, told>>

\* A bug: one attempt too many.
Lost_OneMore(c) ==
    /\ kind[c] = "subscribe"
    /\ reader[c] \in {"requested", "active"}
    /\ auto[c]
    /\ retries[c] <= MaxRetries
    /\ retries' = [retries EXCEPT ![c] = @ + 1]
    /\ reader' = [reader EXCEPT ![c] = "backoff"]
    /\ UNCHANGED <<live, told, target, context, waiting, session, kind, auto, invokes,
                   attempts>>

\* No report came in time, or the request was not answered: the client asks
\* OnResubscriptionNeeded, and is done when it says no, when
\* DefaultResubscribePolicy cannot set its timer, or when it is not asked.
Lost(c) ==
    /\ kind[c] = "subscribe"
    /\ reader[c] \in {"requested", "active"}
    /\ \/ /\ auto[c]
          /\ retries' = [retries EXCEPT ![c] = @ + 1]
          /\ \/ OnDone({c})
             \/ /\ retries[c] + 1 <= MaxRetries
                /\ reader' = [reader EXCEPT ![c] = "backoff"]
                /\ UNCHANGED <<live, told>>
       \/ /\ ~auto[c]
          /\ OnDone({c})
          /\ UNCHANGED retries
    /\ UNCHANGED <<target, context, waiting, session, kind, auto, invokes, attempts>>

\* The timer of DefaultResubscribePolicy fires.
Resubscribe(c) ==
    /\ reader[c] = "backoff"
    /\ reader' = [reader EXCEPT ![c] = "requested"]
    /\ attempts' = [attempts EXCEPT ![c] = @ + 1]
    /\ UNCHANGED <<live, target, context, waiting, session, kind, auto, retries, invokes, told>>

Subscribers(p) == {c \in Command : /\ kind[c] = "subscribe"
                                   /\ reader[c] # "none"
                                   /\ target[c] = p}

\* send_shutdown_subscription: one that stands, by its id.
ShutdownOne(c) ==
    /\ kind[c] = "subscribe"
    /\ reader[c] = "active"
    /\ OnDone({c})
    /\ UNCHANGED <<target, context, waiting, session, kind, auto, retries, invokes, attempts>>

\* send_shutdown_subscriptions of a node, send_shutdown_all_subscriptions.
Shutdown(ps) ==
    /\ \E p \in ps : Subscribers(p) # {}
    /\ OnDone(UNION {Subscribers(p) : p \in ps})
    /\ UNCHANGED <<target, context, waiting, session, kind, auto, retries, invokes, attempts>>

-----------------------------------------------------------------------------
Next ==
    \/ \E p \in Peer :
          \/ \E h \in Handle : Connect(h, p)
          \/ \E c \in Command, k \in Kinds, a \in BOOLEAN : SendCommand(c, p, k, a)
          \/ SessionUp(p)
          \/ SessionFail(p)
          \/ SessionLost(p)
          \/ Shutdown({p})
    \/ \E c \in Command :
          \/ Established(c)
          \/ Finished(c)
          \/ InvokeDone(c)
          \/ Lost(c)
          \/ Resubscribe(c)
          \/ ShutdownOne(c)
    \/ Shutdown(Peer)

Spec == ClientInit /\ [][Next]_vars

\* The SDK ends every session set-up and every exchange, with an answer or by
\* its timer, and its resubscription timer fires.  Nothing says a session
\* stays, a peer answers or an application ever asks for anything.
Fairness ==
    /\ \A p \in Peer : WF_vars((\E cb \in Command \cup {Shared} : waiting[cb] = p)
                               /\ (SessionUp(p) \/ SessionFail(p)))
    /\ \A c \in Command :
          /\ WF_vars(reader[c] = "requested" /\ (Established(c) \/ Finished(c) \/ Lost(c)))
          /\ WF_vars(Resubscribe(c))

FairSpec == Spec /\ Fairness

-----------------------------------------------------------------------------
ClientTypeOK ==
    /\ live \subseteq Handle \cup Command
    /\ target \in [Handle \cup Command -> Peer \cup {NoPeer}]
    /\ context \in Handle \cup {NoHandle}
    /\ waiting \in [Command \cup {Shared} -> Peer \cup {NoPeer}]
    /\ session \subseteq Peer
    /\ kind \in [Command -> Kinds]
    /\ auto \in [Command -> BOOLEAN]
    /\ retries \in [Command -> Nat]
    /\ reader \in [Command -> {"none", "requested", "active", "backoff"}]
    /\ invokes \in [Command -> Nat]
    /\ attempts \in [Command -> Nat]
    /\ told \in [Command -> SUBSET {"established", "failed", "terminated"}]

\* What of the SDK keeps the address of a command: the callbacks that wait for
\* its session, its interaction client, the callbacks of an invoke.
Referrers(c) ==
    (IF Registered(c) THEN {"session"} ELSE {})
        \cup (IF reader[c] # "none" THEN {"client"} ELSE {})
        \cup (IF invokes[c] > 0 THEN {"invoke"} ELSE {})

\* A command object that is allocated has exactly one of the callbacks that
\* will delete it, so none is leaked and none deleted twice.  One that was
\* deleted is called by nothing: all that may still carry its address is an
\* invoke, as a context that it passes on to the application's callbacks and
\* does not follow (subscribe_command.cpp:38-63,180-188,
\* cluster_command.cpp:39-51, esp_matter_client.h:285-320).
CommandOwned ==
    \A c \in Command :
        IF c \in live THEN Cardinality(Referrers(c) \ {"invoke"}) = 1
                     ELSE Referrers(c) \subseteq {"invoke"}

\* "This callback will be called when `connect()` or `cluster_update()` is
\* called and the connection completes" (esp_matter_client.h:75): no request
\* is still held, its callback not called, when the session it asked for
\* stands (esp_matter_client.cpp:66-103).
CalledWhenConnected == \A h \in live \cap Handle : target[h] \notin session

\* An application that was told that its subscription stands is told when it
\* has ended, and is never told that the connection failed
\* (subscribe_command.cpp:157-188).
EndIsTold ==
    \A c \in Command :
        "established" \in told[c] => /\ c \in live \/ "terminated" \in told[c]
                                     /\ "failed" \notin told[c]

\* Between two times that a subscription stands, the client asks again
\* MaxRetries times at most (subscribe_command.cpp:169-178).
RetriesBounded == \A c \in Command : attempts[c] <= MaxRetries

\* A command that was sent comes to its end or to a subscription that stands,
\* though no peer ever answers (subscribe_command.cpp:169-188).
CommandsSettle ==
    \A c \in Command : (c \in live) ~> (c \notin live \/ reader[c] = "active")

=============================================================================
