----------------------------- MODULE OtaService -----------------------------
(***************************************************************************)
(* What the OTA provider promises its requestors, without its tasks,       *)
(* queues, caches and connections: it works on one query at a time and     *)
(* answers it; it offers a node only a version that applies to the one the *)
(* node has; it sends an image to one node at a time.                      *)
(***************************************************************************)
EXTENDS Naturals

CONSTANTS
    Node,            \* the requestors
    Query,           \* their queries: node, product and version
    Ledger,          \* product |-> the versions that can be offered
    None

VARIABLES
    pending,         \* None, or the query being worked on
    slot,            \* None, or the node that may download
    answer           \* the answer given in this step, with the query it answers

serviceVars == <<pending, slot, answer>>

Answer(q, status, offer) == [query |-> q, status |-> status, offer |-> offer]

\* The versions of the ledger for a device of the product that has version cur.
Fitting(p, cur) == {r \in Ledger[p] : r.ver > cur /\ r.min <= cur /\ cur <= r.max}

Init == pending = None /\ slot = None /\ answer = None

\* A query is taken on if none is being worked on.
Accept(q) ==
    /\ pending = None
    /\ pending' = q /\ answer' = None
    /\ UNCHANGED slot

\* Otherwise its node is told to come back later.
Refuse(q) ==
    /\ pending # None
    /\ answer' = Answer(q, "busy", None)
    /\ UNCHANGED <<pending, slot>>

\* The node gets the slot with the offer, unless another node has it.
Offer ==
    /\ pending # None
    /\ slot \in {None, pending.node}
    /\ \E r \in Fitting(pending.product, pending.ver) :
          answer' = Answer(pending, "available", r.ver)
    /\ slot' = pending.node
    /\ pending' = None

\* There is nothing to offer, or the slot is taken by another node, or the
\* download cannot be prepared; the node has the slot all the same.
Decline ==
    /\ pending # None
    /\ \/ answer' = Answer(pending, "none", None) /\ UNCHANGED slot
       \/ /\ slot \notin {None, pending.node}
          /\ answer' = Answer(pending, "busy", None)
          /\ UNCHANGED slot
       \/ /\ slot \in {None, pending.node}
          /\ answer' = Answer(pending, "failure", None)
          /\ slot' = pending.node
    /\ pending' = None

\* A query is declined at once.
DeclineAtOnce(q) ==
    /\ pending = None
    /\ answer' = Answer(q, "none", None)
    /\ UNCHANGED <<pending, slot>>

\* The download ends, for whatever reason.
Release ==
    /\ slot # None
    /\ slot' = None /\ answer' = None
    /\ UNCHANGED pending

\* Something happens that the requestors do not see.
Internal == answer' = None /\ UNCHANGED <<pending, slot>>

\* The provider restarts.
Restart ==
    /\ pending' = None /\ slot' = None /\ answer' = None

Next ==
    \/ \E q \in Query : Accept(q) \/ Refuse(q) \/ DeclineAtOnce(q)
    \/ Offer \/ Decline \/ Release \/ Internal \/ Restart

Spec == Init /\ [][Next]_serviceVars

\* A query that was taken on is answered, unless the provider restarts.
FairSpec == Spec /\ WF_serviceVars(pending # None /\ (Offer \/ Decline \/ Restart))

=============================================================================
