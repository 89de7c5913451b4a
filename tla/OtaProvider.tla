---------------------------- MODULE OtaProvider ----------------------------
(***************************************************************************)
(* The OTA provider (esp_matter_ota_provider.cpp) composed with its        *)
(* candidate task and its BDX sender.                                      *)
(*                                                                         *)
(* HandleQueryImage keeps a handle to the command and passes the query to  *)
(* the candidate task.  FetchImageDoneCallback, on that task, writes what  *)
(* was found into the entry of the requestor, then takes the stack lock    *)
(* and answers.  The Matter task holds the lock while it handles commands, *)
(* also while it waits for room in the queue.  The SDK keeps a command     *)
(* alive as long as the provider has its handle.  Answers can get lost on  *)
(* their way to the node.                                                  *)
(***************************************************************************)
EXTENDS OtaCandidates, OtaBdxSender

CONSTANTS
    Query,           \* the queries nodes make: node, product and software version
    Managed,         \* the nodes the application enables, disables and removes
    AllowedDefault,  \* mOtaAllowedDefault
    Backends         \* what init_ota_candidates may come to

ASSUME ProviderAssumption ==
    /\ Query \subseteq [node : Node, product : Product, ver : Nat]
    /\ Managed \subseteq Node
    /\ AllowedDefault \in BOOLEAN
    /\ Backends \subseteq {"ok", "noqueue"}
    /\ \A p \in Product : \A r \in Dcl[p] : <<p, r.ver>> \in Url
    /\ Url \subseteq Product \X Nat
    /\ None \notin Node /\ None \notin Query

VARIABLES
    backend,         \* "noqueue" if xQueueCreate failed
    handle,          \* mAsyncCommandHandle: None, or the query it belongs to
    peer,            \* mPeerNodeId and mSubjectDescriptor
    sending,         \* the Matter task is in xQueueSend, with the stack lock
    entries,         \* mOtaRequestorList: node |-> [allowed, once, img]
    held,            \* the image each node holds the update token of its entry for
    answer,          \* the answer given in the last step, with its query, or None
    offered,         \* history: the last answer that made an offer, or None
    orphaned         \* history: the entry was removed while its query was in progress

provVars == <<backend, handle, peer, sending, entries, held, offered, orphaned>>

vars == <<candVars, bdxVars, provVars, answer>>

Entry == [allowed : BOOLEAN, once : BOOLEAN, img : Url \cup {NoUrl}]

Answer(q, status, offer) == [query |-> q, status |-> status, offer |-> offer]

ProvInit ==
    /\ handle = None /\ peer = None
    /\ sending = FALSE
    /\ entries = [n \in {} |-> n]
    /\ held = [n \in Node |-> NoUrl]
    /\ answer = None /\ offered = None
    /\ orphaned = FALSE

\* EspOtaProvider::Init
Init ==
    /\ CandInit /\ BdxInit /\ ProvInit
    /\ backend \in Backends

-----------------------------------------------------------------------------
(* The requestor list *)

\* CreateOtaRequestorEntry: a new entry is zero but for mOtaAllowed.
Created(n) ==
    [m \in DOMAIN entries \cup {n} |->
        IF m \in DOMAIN entries THEN entries[m]
        ELSE [allowed |-> AllowedDefault, once |-> FALSE, img |-> NoUrl]]

\* EnableOtaForNode, for one node or for all.
EnableOtaForNode(scope, forOnlyOnce) ==
    /\ ~sending
    /\ entries' = [n \in DOMAIN entries |->
                      IF n \in scope
                      THEN [allowed |-> entries[n].allowed \/ ~forOnlyOnce,
                            once |-> entries[n].once \/ forOnlyOnce, img |-> entries[n].img]
                      ELSE entries[n]]
    /\ UNCHANGED <<candVars, bdxVars, backend, handle, peer, sending, held, offered, orphaned>>
    /\ answer' = None

\* DisableOtaForNode
DisableOtaForNode(scope) ==
    /\ ~sending
    /\ entries' = [n \in DOMAIN entries |->
                      IF n \in scope
                      THEN [allowed |-> FALSE, once |-> FALSE, img |-> entries[n].img]
                      ELSE entries[n]]
    /\ UNCHANGED <<candVars, bdxVars, backend, handle, peer, sending, held, offered, orphaned>>
    /\ answer' = None

\* RemoveOtaRequestorEntry: the entry is freed, also when the candidate task has
\* found it and is about to write it.
RemoveOtaRequestorEntry(n) ==
    /\ ~sending
    /\ n \in DOMAIN entries
    /\ entries' = [m \in DOMAIN entries \ {n} |-> entries[m]]
    /\ held' = [held EXCEPT ![n] = NoUrl]
    /\ orphaned' = (orphaned \/ (handle # None /\ peer = n))
    /\ task' = IF task # None /\ task.step = "write" /\ peer = n
               THEN [step |-> "stray", found |-> task.found] ELSE task
    /\ answer' = None
    /\ UNCHANGED <<cache, queue, bdxVars, backend, handle, peer, sending, offered>>

-----------------------------------------------------------------------------
(* Queries *)

\* Mutant: a second query is taken on as well.
HandleQueryImage_NoBusy(q) ==
    /\ ~sending
    /\ entries' = Created(q.node)
    /\ backend = "ok"
    /\ handle' = q /\ peer' = q.node
    /\ sending' = TRUE
    /\ orphaned' = FALSE /\ answer' = None
    /\ UNCHANGED <<candVars, bdxVars, backend, held, offered>>

\* HandleQueryImage up to xQueueSend.  With a query in progress the node is told
\* that the provider is busy; without a queue, that there is no update.
HandleQueryImage(q) ==
    /\ ~sending
    /\ entries' = Created(q.node)
    /\ \/ /\ handle # None
          /\ answer' = Answer(q, "busy", None)
          /\ UNCHANGED <<handle, peer, sending, orphaned>>
       \/ /\ handle = None /\ backend = "ok"
          /\ handle' = q /\ peer' = q.node
          /\ sending' = TRUE
          /\ orphaned' = FALSE /\ answer' = None
       \/ /\ handle = None /\ backend = "noqueue"
          /\ peer' = q.node
          /\ answer' = Answer(q, "none", None)
          /\ orphaned' = FALSE
          /\ UNCHANGED <<handle, sending>>
    /\ UNCHANGED <<candVars, bdxVars, backend, held, offered>>

\* fetch_ota_candidate: the Matter task puts the query into the queue.
FetchOtaCandidate ==
    /\ sending
    /\ QueueSend([product |-> handle.product, ver |-> handle.ver])
    /\ sending' = FALSE /\ answer' = None
    /\ UNCHANGED <<cache, task, bdxVars, backend, handle, peer, entries, held, offered, orphaned>>

\* FetchImageDoneCallback, without the lock: the entry of the peer is looked for.
FindEntry ==
    /\ task # None /\ task.step = "fill"
    /\ task' = [step |-> IF peer \in DOMAIN entries /\ task.found # None THEN "write" ELSE "send",
                found |-> task.found]
    /\ answer' = None
    /\ UNCHANGED <<cache, queue, bdxVars, provVars>>

\* The entry of n with the URL and the version that were found.
FilledIn(n) == [entries EXCEPT ![n].img = <<task.found.product, task.found.ver>>]

\* Mutant: an entry that has a URL keeps it.
WriteEntry_Once ==
    /\ task # None /\ task.step \in {"write", "stray"}
    /\ \/ task.step = "write" /\ entries' = IF entries[peer].img = NoUrl THEN FilledIn(peer) ELSE entries
       \/ task.step = "stray" /\ entries' = entries
    /\ task' = [step |-> "send", found |-> task.found]
    /\ answer' = None
    /\ UNCHANGED <<cache, queue, bdxVars, backend, handle, peer, sending, held, offered, orphaned>>

\* FetchImageDoneCallback, still without the lock: the entry that was found gets
\* the URL and the version.  If it was freed since, the write goes to memory that
\* is free or that an entry made since has got, which has no URL yet.
WriteEntry ==
    /\ task # None /\ task.step \in {"write", "stray"}
    /\ \/ task.step = "write" /\ entries' = FilledIn(peer)
       \/ task.step = "stray" /\ entries' = entries
       \/ task.step = "stray" /\ \E n \in DOMAIN entries : entries[n].img = NoUrl /\ entries' = FilledIn(n)
    /\ task' = [step |-> "send", found |-> task.found]
    /\ answer' = None
    /\ UNCHANGED <<cache, queue, bdxVars, backend, handle, peer, sending, held, offered, orphaned>>

\* LockChipStack in FetchImageDoneCallback.
MaySend == task # None /\ task.step = "send" /\ ~sending

\* SendQueryImageResponse finds an update and the entry of an allowed requestor.
MayOffer ==
    /\ task.found # None
    /\ peer \in DOMAIN entries
    /\ entries[peer].allowed \/ entries[peer].once

\* SendQueryImageResponse with nothing to offer.
SendNotAvailable ==
    /\ MaySend /\ ~MayOffer
    /\ answer' = Answer(handle, "none", None)
    /\ handle' = None /\ task' = None
    /\ UNCHANGED <<cache, queue, bdxVars, backend, peer, sending, entries, held, offered, orphaned>>

\* Another BDX transfer in progress.
SendBusy ==
    /\ MaySend /\ MayOffer
    /\ entries[peer].img # NoUrl
    /\ TakenFrom(peer)
    /\ answer' = Answer(handle, "busy", None)
    /\ handle' = None /\ task' = None
    /\ UNCHANGED <<cache, queue, bdxVars, backend, peer, sending, entries, held, offered, orphaned>>

\* The transfer is prepared and the image offered, with a new update token.  The
\* node gets the answer or it is lost.
SendUpdateAvailable ==
    /\ MaySend /\ MayOffer
    /\ entries[peer].img # NoUrl
    /\ InitializeTransfer(peer, entries[peer].img, "waiting")
    /\ answer' = Answer(handle, "available", entries[peer].img[2])
    /\ offered' = answer'
    /\ \E token \in {entries[peer].img, NoUrl} : held' = [held EXCEPT ![peer] = token]
    /\ handle' = None /\ task' = None
    /\ UNCHANGED <<cache, queue, backend, peer, sending, entries, orphaned>>

\* PrepareForTransfer fails: the sender stays initialised.
SendFailure ==
    /\ MaySend /\ MayOffer
    /\ entries[peer].img # NoUrl
    /\ InitializeTransfer(peer, entries[peer].img, "none")
    /\ answer' = Answer(handle, "failure", None)
    /\ handle' = None /\ task' = None
    /\ UNCHANGED <<cache, queue, backend, peer, sending, entries, held, offered, orphaned>>

\* The URL is empty, strrchr returns nullptr and is dereferenced: the device
\* faults and restarts.
Crash ==
    /\ MaySend /\ MayOffer
    /\ entries[peer].img = NoUrl
    /\ cache' = [i \in Slots |-> None] /\ queue' = <<>> /\ task' = None
    /\ Reset
    /\ handle' = None /\ peer' = None /\ sending' = FALSE
    /\ entries' = [n \in {} |-> n] /\ held' = [n \in Node |-> NoUrl]
    /\ answer' = None /\ offered' = None /\ orphaned' = FALSE
    /\ backend' \in Backends

-----------------------------------------------------------------------------
(* The other commands *)

\* HandleNotifyUpdateApplied: a node that reports the update it was offered is
\* not allowed once any more.  HandleApplyUpdateRequest makes the same test of
\* token and version and changes no state the answer depends on.
HandleNotifyUpdateApplied(n) ==
    /\ ~sending
    /\ n \in DOMAIN entries
    /\ held[n] # NoUrl
    /\ held[n][2] = entries[n].img[2]
    /\ entries' = [entries EXCEPT ![n].once = FALSE]
    /\ answer' = None
    /\ UNCHANGED <<candVars, bdxVars, backend, handle, peer, sending, held, offered, orphaned>>

\* The task, its queue and the timer.
CandidateTask ==
    /\ backend = "ok"
    /\ QueueReceive
    /\ answer' = None
    /\ UNCHANGED <<bdxVars, provVars>>

UpdateTimer ==
    /\ backend = "ok"
    /\ PeriodicUpdate
    /\ answer' = None
    /\ UNCHANGED <<bdxVars, provVars>>

\* The BDX sender, on the Matter task.
Transfer ==
    /\ ~sending
    /\ BdxNext
    /\ answer' = None
    /\ UNCHANGED <<candVars, provVars>>

Send == SendNotAvailable \/ SendBusy \/ SendUpdateAvailable \/ SendFailure \/ Crash

Next ==
    \/ \E q \in Query : HandleQueryImage(q)
    \/ FetchOtaCandidate \/ CandidateTask \/ UpdateTimer \/ FindEntry \/ WriteEntry \/ Send
    \/ Transfer
    \/ \E n \in Node : HandleNotifyUpdateApplied(n)
    \/ \E n \in Managed : RemoveOtaRequestorEntry(n)
    \/ \E scope \in {{n} : n \in Managed} \cup {Managed} :
          \/ \E forOnlyOnce \in BOOLEAN : EnableOtaForNode(scope, forOnlyOnce)
          \/ DisableOtaForNode(scope)

Spec == Init /\ [][Next]_vars

EndOfTransfer == Begun /\ ~sending /\ EndTransfer /\ answer' = None /\ UNCHANGED <<candVars, provVars>>

\* The candidate task runs whenever it can; the lock is handed on.  The Matter
\* task gets its turn at the queue: it competes with a timer of 36 hours only.
\* A transfer that was begun ends or times out (5 minutes) between other events;
\* a session that waits for its node to begin may do so for ever.
FairSpec ==
    /\ Spec
    /\ SF_vars(FetchOtaCandidate)
    /\ WF_vars(CandidateTask) /\ WF_vars(FindEntry) /\ WF_vars(WriteEntry) /\ WF_vars(Send)
    /\ SF_vars(EndOfTransfer)

-----------------------------------------------------------------------------

\* Type invariant.
ProvTypeOK ==
    /\ CandTypeOK /\ BdxTypeOK
    /\ backend \in Backends
    /\ handle \in Query \cup {None} /\ peer \in Node \cup {None}
    /\ sending \in BOOLEAN
    /\ DOMAIN entries \subseteq Node /\ \A n \in DOMAIN entries : entries[n] \in Entry
    /\ held \in [Node -> Url \cup {NoUrl}]
    /\ orphaned \in BOOLEAN

\* The Matter task, which has the stack lock, never waits for room in the queue
\* while the candidate task, which makes the room, waits for the lock.
NeverBothWait == ~(sending /\ task # None)

\* A version is offered only if the ledger has it for the product the query
\* names and it applies to the version the query names, whatever the cache, its
\* periodic update and other queries did meanwhile.
OfferFits ==
    answer # None /\ answer.status = "available" =>
        \E r \in Dcl[answer.query.product] :
            r.ver = answer.offer /\ IsCandidateValid(r, answer.query.ver)

\* The entry that is about to be read for an offer has been filled in from the
\* record found for this query, though it is looked for and written without the
\* lock; it can have no URL, never an old one or that of another query, and that
\* only if the entry was removed while the query was in progress.
FilledBeforeOffered ==
    task # None /\ task.step = "send" /\ MayOffer =>
        \/ entries[peer].img = <<task.found.product, task.found.ver>>
        \/ entries[peer].img = NoUrl /\ orphaned

\* What is sent is what was offered last, to the node it was offered to, and it
\* applies to the version this node asked with: also when the node asks again
\* during the download, when its entry is removed, and when the answer was lost
\* and the node begins with an earlier offer, whose image it does not get then.
DownloadIsOffer ==
    session # "none" =>
        /\ offered.query.node = bdxNode
        /\ url = <<offered.query.product, offered.offer>>
        /\ \E r \in Dcl[offered.query.product] :
              r.ver = offered.offer /\ IsCandidateValid(r, offered.query.ver)

\* A node that is told that another transfer is in progress waits for one that
\* is: one that is prepared or running.
BusyMeansTransfer == [][SendBusy => session # "none"]_vars

\* A transfer that its node has begun comes to an end, whatever the node, the
\* connection and other queries do: the sender is free again, unless the node has
\* asked anew and the sender waits for its next transfer.
TransferEnds == Begun ~> session \in {"none", "waiting"}

\* The provider as its requestors see it.
Service == INSTANCE OtaService WITH
    Ledger <- Dcl,
    pending <- handle,
    slot <- IF initialized THEN bdxNode ELSE None

\* The provider with its tasks, queue, cache and connection does what OtaService
\* promises, and answers every query it takes on.
ImplementsService == Service!FairSpec

=============================================================================
