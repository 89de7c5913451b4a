------------------------ MODULE ClientRequests_proofs ------------------------
(***************************************************************************)
(* Proofs about ClientRequests, for any peers, commands and retry limit.   *)
(***************************************************************************)
EXTENDS ClientRequests, FiniteSetTheorems, TLAPS

\* The leaves are for Zenon; those that need arithmetic cite SMT.
USE Zenon

\* The count of retries runs ahead of the resubscriptions that were sent by
\* the one that waits for its timer, and a command lives within the limit.
RetryInv ==
    \A c \in Command :
        /\ attempts[c] <= MaxRetries
        /\ c \in live => /\ retries[c] <= MaxRetries
                         /\ attempts[c] <= retries[c]
                         /\ reader[c] = "backoff" => attempts[c] < retries[c]

\* Nothing is told of a command that still waits for its session, and a live
\* command did not fail.
ToldInv ==
    \A c \in Command :
        /\ Registered(c) => told[c] = {}
        /\ c \in live => "failed" \notin told[c]

\* CommandOwned, without the count of the referrers.
OwnedInv ==
    \A c \in Command :
        /\ c \in live <=> Registered(c) \/ reader[c] # "none"
        /\ ~(Registered(c) /\ reader[c] # "none")

IInv == ClientTypeOK /\ OwnedInv /\ RetryInv /\ ToldInv /\ EndIsTold

-----------------------------------------------------------------------------
\* The initial state satisfies the invariant.
LEMMA InitInv == ClientInit => IInv
  BY SMT, ClientAssumption
  DEF ClientInit, IInv, ClientTypeOK, OwnedInv, RetryInv, ToldInv, EndIsTold,
      Registered, Kinds

\* Every step keeps the types.
LEMMA TypePreserved == ClientTypeOK /\ [Next]_vars => ClientTypeOK'
<1> SUFFICES ASSUME ClientTypeOK, [Next]_vars PROVE ClientTypeOK'
  OBVIOUS
<1> USE ClientAssumption DEF ClientTypeOK
<1>1. ASSUME NEW h \in Handle, NEW p \in Peer, Connect(h, p) PROVE ClientTypeOK'
  BY SMT, <1>1 DEF Connect, cmdVars
<1>2. ASSUME NEW c \in Command, NEW p \in Peer, NEW k \in Kinds, NEW a \in BOOLEAN,
             SendCommand(c, p, k, a)
      PROVE  ClientTypeOK'
  <2>1. (a /\ k = "subscribe") \in BOOLEAN
    OBVIOUS
  <2>2. auto' \in [Command -> BOOLEAN]
    BY <1>2, <2>1 DEF SendCommand
  <2>3. invokes' \in [Command -> Nat]
    BY SMT, <1>2 DEF SendCommand
  <2>4. /\ live' \subseteq Handle \cup Command
        /\ target' \in [Handle \cup Command -> Peer \cup {NoPeer}]
        /\ waiting' \in [Command \cup {Shared} -> Peer \cup {NoPeer}]
        /\ reader' \in [Command -> {"none", "requested", "active", "backoff"}]
        /\ told' \in [Command -> SUBSET {"established", "failed", "terminated"}]
    BY SMT, <1>2 DEF SendCommand
  <2>5. /\ kind' \in [Command -> Kinds] /\ retries' \in [Command -> Nat]
        /\ attempts' \in [Command -> Nat] /\ UNCHANGED <<context, session>>
    BY SMT, <1>2 DEF SendCommand
  <2> QED
    BY <2>2, <2>3, <2>4, <2>5
<1>3. ASSUME NEW p \in Peer, SessionUp(p) PROVE ClientTypeOK'
  <2>1. invokes' \in [Command -> Nat]
    BY SMT, <1>3 DEF SessionUp, Invoked
  <2> QED
    BY <1>3, <2>1 DEF SessionUp, Resolved, Sent
<1>4. ASSUME NEW p \in Peer, SessionFail(p) PROVE ClientTypeOK'
  BY <1>4 DEF SessionFail, Resolved
<1>5. ASSUME NEW p \in Peer, SessionLost(p) PROVE ClientTypeOK'
  BY <1>5 DEF SessionLost, cmdVars
<1>6. ASSUME NEW ps \in SUBSET Peer, Shutdown(ps) PROVE ClientTypeOK'
  BY <1>6 DEF Shutdown, OnDone
<1>7. ASSUME NEW c \in Command, Established(c) PROVE ClientTypeOK'
  BY <1>7 DEF Established
<1>8. ASSUME NEW c \in Command, Finished(c) PROVE ClientTypeOK'
  BY <1>8 DEF Finished, OnDone
<1>9. ASSUME NEW c \in Command, Lost(c) PROVE ClientTypeOK'
  BY SMT, <1>9 DEF Lost, OnDone
<1>10. ASSUME NEW c \in Command, Resubscribe(c) PROVE ClientTypeOK'
  BY SMT, <1>10 DEF Resubscribe
<1>11. ASSUME NEW c \in Command, ShutdownOne(c) PROVE ClientTypeOK'
  BY <1>11 DEF ShutdownOne, OnDone
<1>15. ASSUME NEW c \in Command, InvokeDone(c) PROVE ClientTypeOK'
  BY SMT, <1>15 DEF InvokeDone
<1>12. CASE UNCHANGED vars
  BY <1>12 DEF vars, cmdVars
<1>13. \A p \in Peer : Shutdown({p}) => ClientTypeOK'
  BY <1>6
<1>14. Shutdown(Peer) => ClientTypeOK'
  BY <1>6
<1> HIDE DEF ClientTypeOK
<1> QED
  BY <1>1, <1>2, <1>3, <1>4, <1>5, <1>7, <1>8, <1>9, <1>10, <1>11, <1>12, <1>13, <1>14,
     <1>15
  DEF Next

\* Every step keeps the rest of the invariant, command by command.
LEMMA StepPreserved == IInv /\ [Next]_vars => (OwnedInv /\ RetryInv /\ ToldInv /\ EndIsTold)'
<1> SUFFICES ASSUME IInv, [Next]_vars
             PROVE  (OwnedInv /\ RetryInv /\ ToldInv /\ EndIsTold)'
  OBVIOUS
<1> DEFINE G == (OwnedInv /\ RetryInv /\ ToldInv /\ EndIsTold)'
<1> USE ClientAssumption
    DEF IInv, ClientTypeOK, OwnedInv, RetryInv, ToldInv, EndIsTold, Registered
<1>1. ASSUME NEW h \in Handle, NEW p \in Peer, Connect(h, p) PROVE G
  BY SMT, <1>1 DEF Connect, cmdVars
<1>2. ASSUME NEW c \in Command, NEW p \in Peer, NEW k \in Kinds, NEW a \in BOOLEAN,
             SendCommand(c, p, k, a)
      PROVE  G
  <2>1. ~Registered(c) /\ reader[c] = "none"
    BY <1>2 DEF SendCommand
  <2>2. \A d \in Command \ {c} :
            /\ d \in live' <=> d \in live
            /\ waiting'[d] = waiting[d] /\ reader'[d] = reader[d] /\ told'[d] = told[d]
            /\ retries'[d] = retries[d] /\ attempts'[d] = attempts[d]
    BY SMT, <1>2 DEF SendCommand
  <2>3. /\ retries'[c] = 0 /\ attempts'[c] = 0
        /\ told'[c] \in {{}, {"failed"}}
        /\ c \in live' => told'[c] = {}
        /\ reader'[c] \in {"none", "requested"}
        /\ c \in live' <=> waiting'[c] # NoPeer \/ reader'[c] # "none"
        /\ waiting'[c] # NoPeer => reader'[c] = "none"
    BY SMT, <1>2, <2>1 DEF SendCommand
  <2> QED
    BY SMT, <2>2, <2>3
<1>3. ASSUME NEW p \in Peer, SessionUp(p) PROVE G
  <2>1. PICK failing \in SUBSET Waiters(p) :
            /\ live' = live \ (Dropped(Waiters(p), failing) \cup Released(p))
            /\ reader' = Sent(Waiters(p), failing)
    BY <1>3 DEF SessionUp
  <2>2. \A c \in Command : c \notin Released(p)
    BY SMT DEF Released
  <2>3. \A c \in Command : waiting'[c] = IF waiting[c] = p THEN NoPeer ELSE waiting[c]
    BY <1>3 DEF SessionUp, Resolved
  <2>4. \A c \in Command : waiting[c] # p =>
            (c \in live' <=> c \in live) /\ reader'[c] = reader[c]
    BY <2>1, <2>2 DEF Dropped, Sent, Waiters
  <2>5. \A c \in Command : waiting[c] = p =>
            (c \in live' <=> reader'[c] # "none") /\ reader'[c] \in {"none", "requested"}
    BY <2>1, <2>2 DEF Dropped, Sent, Waiters
  <2>6. UNCHANGED <<retries, attempts, told>>
    BY <1>3 DEF SessionUp
  <2> QED
    BY SMT, <2>3, <2>4, <2>5, <2>6
<1>4. ASSUME NEW p \in Peer, SessionFail(p) PROVE G
  <2>1. \A c \in Command : c \notin Released(p)
    BY SMT DEF Released
  <2>2. \A c \in Command : waiting[c] = p =>
            /\ c \notin live' /\ waiting'[c] = NoPeer /\ told'[c] = {"failed"}
            /\ reader'[c] = "none"
    BY <1>4 DEF SessionFail, Resolved, Waiters
  <2>3. \A c \in Command : waiting[c] # p =>
            /\ c \in live' <=> c \in live
            /\ waiting'[c] = waiting[c] /\ told'[c] = told[c] /\ reader'[c] = reader[c]
    BY <1>4, <2>1 DEF SessionFail, Resolved, Waiters
  <2>4. UNCHANGED <<retries, attempts>>
    BY <1>4 DEF SessionFail
  <2> QED
    BY SMT, <2>2, <2>3, <2>4
<1>5. ASSUME NEW p \in Peer, SessionLost(p) PROVE G
  BY <1>5 DEF SessionLost, cmdVars
<1>6. ASSUME NEW cs \in SUBSET Command, OnDone(cs),
             \A c \in cs : reader[c] # "none",
             UNCHANGED <<waiting, kind, auto, retries, attempts>>
      PROVE  G
  BY <1>6 DEF OnDone
<1>7. ASSUME NEW ps \in SUBSET Peer, Shutdown(ps) PROVE G
  BY SMT, <1>6, <1>7 DEF Shutdown, Subscribers
<1>8. ASSUME NEW c \in Command, Established(c) PROVE G
  BY SMT, <1>8 DEF Established
<1>9. ASSUME NEW c \in Command, Finished(c) PROVE G
  BY SMT, <1>6, <1>9 DEF Finished
<1>10. ASSUME NEW c \in Command, Lost(c) PROVE G
  BY SMT, <1>10 DEF Lost, OnDone
<1>11. ASSUME NEW c \in Command, Resubscribe(c) PROVE G
  BY SMT, <1>11 DEF Resubscribe
<1>12. ASSUME NEW c \in Command, ShutdownOne(c) PROVE G
  BY SMT, <1>6, <1>12 DEF ShutdownOne
<1>17. ASSUME NEW c \in Command, InvokeDone(c) PROVE G
  BY <1>17 DEF InvokeDone
<1>13. ASSUME UNCHANGED vars PROVE G
  BY <1>13 DEF vars, cmdVars
<1>14. \A p \in Peer : Shutdown({p}) => G
  BY <1>7
<1>15. Shutdown(Peer) => G
  BY <1>7
<1> HIDE DEF G, IInv, ClientTypeOK, OwnedInv, RetryInv, ToldInv, EndIsTold
<1>16. G
  BY <1>1, <1>2, <1>3, <1>4, <1>5, <1>8, <1>9, <1>10, <1>11, <1>12, <1>13, <1>14, <1>15,
     <1>17
  DEF Next
<1> QED
  BY <1>16 DEF G

LEMMA Invariant == Spec => []IInv
<1>1. IInv /\ [Next]_vars => IInv'
  BY TypePreserved, StepPreserved DEF IInv
<1> QED
  BY InitInv, <1>1, PTL DEF Spec

-----------------------------------------------------------------------------
\* No callback that reads a command reaches one that was deleted, and no
\* command is left without one that deletes it, whatever fails and whenever:
\* only the callbacks of an invoke carry the address of a command that is gone.
THEOREM CommandsOwned == Spec => []CommandOwned
<1>1. ASSUME IInv PROVE CommandOwned
  <2> SUFFICES ASSUME NEW c \in Command
               PROVE  IF c \in live THEN Cardinality(Referrers(c) \ {"invoke"}) = 1
                                   ELSE Referrers(c) \subseteq {"invoke"}
    BY DEF CommandOwned
  <2>1. CASE c \in live
    <3>1. \/ Referrers(c) \ {"invoke"} = {"session"}
          \/ Referrers(c) \ {"invoke"} = {"client"}
      BY <1>1, <2>1 DEF IInv, OwnedInv, Referrers
    <3> QED
      BY <2>1, <3>1, FS_Singleton
  <2>2. CASE c \notin live
    BY <1>1, <2>2 DEF IInv, OwnedInv, Referrers
  <2> QED
    BY <2>1, <2>2
<1> QED
  BY Invariant, <1>1, PTL

\* A subscription asks again MaxRetries times at most before it ends or stands.
THEOREM RetriesAreBounded == Spec => []RetriesBounded
<1>1. IInv => RetriesBounded
  BY DEF IInv, RetryInv, RetriesBounded
<1> QED
  BY Invariant, <1>1, PTL

\* An application that was told of a subscription is told of its end.
THEOREM EndsAreTold == Spec => []EndIsTold
  BY Invariant, PTL DEF IInv

=============================================================================
