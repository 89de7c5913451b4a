---------------------------- MODULE OtaBdxSender ----------------------------
(***************************************************************************)
(* The BDX sender of the OTA provider and the HTTP download it feeds from  *)
(* (esp_matter_ota_bdx_sender.cpp, esp_matter_ota_http_downloader.cpp).    *)
(*                                                                         *)
(* The provider prepares a transfer for one node (InitializeTransfer); the *)
(* node starts it, asks for one block after the other and acknowledges the *)
(* last.  Each block is read from the HTTP connection when it is asked     *)
(* for.  The sender reacts to output events of the TransferSession of the  *)
(* Matter SDK, whose state is modelled from how it is used.  Everything    *)
(* runs on the Matter task.                                                *)
(***************************************************************************)
EXTENDS Naturals, Sequences

CONSTANTS
    Node,            \* peers: fabric index and node id
    Url,             \* images the HTTP server holds
    ImageLen,        \* size of an image, in units of its header
    BlockLen,        \* GetTransferBlockSize, in the same units
    HttpFaults,      \* whether reads can return less than was asked for
    NoUrl,           \* an empty mOtaImageUrl
    NoNode           \* mNodeId has no value

ASSUME BdxAssumption ==
    /\ ImageLen \in Nat /\ ImageLen > 1
    /\ BlockLen \in Nat /\ BlockLen > 0
    /\ HttpFaults \in BOOLEAN
    /\ NoUrl \notin Url
    /\ NoNode \notin Node

VARIABLES
    initialized,     \* mInitialized
    bdxNode,         \* mFabricIndex and mNodeId
    url,             \* mOtaImageUrl
    size,            \* mOtaImageSize
    sent,            \* mNumBytesSent
    session,         \* mTransfer: "none", "waiting" for the init message, "stalled"
                     \* (not accepted), "active", "eof" (last block sent) or "aborted"
    http,            \* mHttpDownloader is set
    pos,             \* how much of the image was read from the connection
    got              \* what the node has received since its init message

bdxVars == <<initialized, bdxNode, url, size, sent, session, http, pos, got>>

Unit == (Url \X Nat) \cup {<<NoUrl, 0>>}

\* The units of an image, the header first; and what an unwritten buffer holds.
Image(u) == [i \in 1 .. ImageLen |-> <<u, i>>]
Junk == <<NoUrl, 0>>

BdxInit ==
    /\ initialized = FALSE
    /\ bdxNode = NoNode /\ url = NoUrl
    /\ size = 0 /\ sent = 0
    /\ session = "none"
    /\ http = FALSE /\ pos = 0
    /\ got = <<>>

Smaller(a, b) == IF a < b THEN a ELSE b

-----------------------------------------------------------------------------

\* What Reset does to the counts and the connection.
Clear ==
    /\ size' = 0 /\ sent' = 0
    /\ http' = FALSE /\ pos' = 0
    /\ got' = <<>>

\* OtaBdxSender::Reset
Reset ==
    /\ initialized' = FALSE
    /\ bdxNode' = NoNode /\ url' = NoUrl
    /\ session' = "none"
    /\ Clear

\* Mutant: the sender is given to whoever asks.
TakenFrom_Never(n) == FALSE

\* InitializeTransfer refuses: the sender is initialised for another node.
TakenFrom(n) == initialized /\ bdxNode # n

\* Mutant: the transfer the node had is not reset.
InitializeTransfer_NoReset(n, u, s) ==
    /\ ~TakenFrom(n)
    /\ UNCHANGED <<size, sent, http, pos, got>>
    /\ initialized' = TRUE
    /\ bdxNode' = n /\ url' = u
    /\ session' = s

\* Mutant: the node keeps the transfer it had.
InitializeTransfer_Keeps(n, u, s) ==
    /\ ~TakenFrom(n)
    /\ UNCHANGED <<size, sent, http, pos, got>>
    /\ initialized' = TRUE
    /\ bdxNode' = n
    /\ IF initialized THEN UNCHANGED <<url, session>> ELSE url' = u /\ session' = s

\* InitializeTransfer and the calls that follow it in SendQueryImageResponse,
\* SetOtaImageUrl and PrepareForTransfer; s is "none" if the latter fails.  A
\* transfer the node had is reset first.
InitializeTransfer(n, u, s) ==
    /\ ~TakenFrom(n)
    /\ IF initialized THEN Clear ELSE UNCHANGED <<size, sent, http, pos, got>>
    /\ initialized' = TRUE
    /\ bdxNode' = n /\ url' = u
    /\ session' = s

\* kInitReceived: the transfer is accepted and the connection opened, after an
\* earlier one is closed; without a connection the transfer is aborted.  If the
\* transfer is not accepted the handler returns and the session stays as it is.
\* The file the init message names is not looked at.
InitReceived ==
    /\ session = "waiting"
    /\ \/ session' = "active" /\ http' = TRUE
       \/ session' = "aborted" /\ http' = FALSE
       \/ session' = "stalled" /\ http' = http
    /\ pos' = 0 /\ got' = <<>>
    /\ UNCHANGED <<initialized, bdxNode, url, size, sent>>

\* The lengths of the reads of one call of _http_client_read for n units, of
\* which each returns at least one (bound of the model: at most two reads).
\* They add up to n unless the connection is lost.
Splits(n) ==
    {<<>>} \cup {<<k>> : k \in 1 .. n} \cup {r \in (1 .. n) \X (1 .. n) : r[1] + r[2] <= n}

\* What is read for a block: the block, or the rest of the image.
Reads ==
    LET want == Smaller(BlockLen, ImageLen - pos)
    IN {r \in Splits(want) : HttpFaults \/ r = <<want>>}

Total(r) == IF r = <<>> THEN 0 ELSE IF Len(r) = 1 THEN r[1] ELSE r[1] + r[2]

\* The buffer after these reads.  Each goes to the beginning of the buffer: data
\* is not advanced.
Buffer(r) ==
    LET last  == IF Len(r) = 2 THEN pos + r[1] ELSE pos
        isNew == IF Len(r) = 2 THEN r[2] ELSE Total(r)
    IN [i \in 1 .. Total(r) |->
           CASE i <= isNew -> <<url, last + i>>
             [] i > isNew /\ i <= r[1] -> <<url, pos + i>>
             [] OTHER -> Junk]

\* ParseOtaImageHeader: the block begins with the header of an image.
HeaderOK(buf) == buf # <<>> /\ buf[1] = <<url, 1>>

\* kQueryReceived without a buffer for the block, or with a read that fails.
QueryFails ==
    /\ session = "active"
    /\ session' = "aborted"
    /\ UNCHANGED <<initialized, bdxNode, url, size, sent, http, pos, got>>

\* kQueryReceived: one block is read and sent.  It is the last one if it is
\* shorter than a block or completes the image.  A block that does not begin with
\* the header, or that the session does not take, aborts the transfer.
QueryReceived(r) ==
    LET buf    == Buffer(r)
        total  == IF size = 0 /\ sent = 0 THEN ImageLen ELSE size
        length == Smaller(Len(buf), total - sent)
    IN /\ session = "active"
       /\ pos' = pos + Total(r)
       /\ \/ /\ size = 0 /\ sent = 0 /\ ~HeaderOK(buf)
             /\ session' = "aborted"
             /\ UNCHANGED <<size, sent, got>>
          \/ /\ size = 0 /\ sent = 0 => HeaderOK(buf)
             /\ size' = total
             /\ sent' = sent + length
             /\ \/ /\ got' = got \o SubSeq(buf, 1, length)
                   /\ session' = IF length < BlockLen \/ sent + length = total THEN "eof" ELSE "active"
                \/ /\ got' = got
                   /\ session' = "aborted"
       /\ UNCHANGED <<initialized, bdxNode, url, http>>

\* Mutant: the error that a session reports after it was aborted is ignored.
EndTransfer_NotAborted ==
    /\ session \notin {"none", "aborted"}
    /\ Reset

\* Events after which the sender is reset: the node acknowledges the last block
\* or reports an error, a message cannot be sent, the session times out, or it
\* reports its error after it was aborted.
EndTransfer ==
    /\ session # "none"
    /\ Reset

\* The sender runs a transfer that its node has begun.  Only then does the
\* session report its end by itself: it times out while it awaits a message of
\* the node, which it does from the acceptance on, and reports that it was
\* aborted.  Before the init message, and if that was not accepted, no timer runs.
Begun == session \in {"active", "eof", "aborted"}

BdxNext ==
    \/ InitReceived
    \/ QueryFails
    \/ session = "active" /\ \E r \in Reads : QueryReceived(r)
    \/ EndTransfer

-----------------------------------------------------------------------------

\* Type invariant.
BdxTypeOK ==
    /\ initialized \in BOOLEAN
    /\ bdxNode \in Node \cup {NoNode} /\ url \in Url \cup {NoUrl}
    /\ size \in {0, ImageLen} /\ sent \in 0 .. ImageLen
    /\ session \in {"none", "waiting", "stalled", "active", "eof", "aborted"}
    /\ http \in BOOLEAN /\ pos \in 0 .. ImageLen
    /\ got \in Seq(Unit) /\ Len(got) <= ImageLen

\* A transfer has its owner, its image and, from the init message on, its
\* connection; without an owner nothing is left of the last one.
SlotConsistent ==
    /\ initialized <=> bdxNode # NoNode
    /\ session # "none" => initialized /\ url \in Url
    /\ session \in {"active", "eof"} => http
    /\ ~initialized => url = NoUrl /\ size = 0 /\ sent = 0 /\ ~http

\* The blocks the node has received are a beginning of the image it was promised
\* and, when the block marked as the last is sent, the whole image.
BlocksAreImage ==
    session \in {"active", "eof"} =>
        /\ \A i \in DOMAIN got : got[i] = Image(url)[i]
        /\ session = "eof" => Len(got) = ImageLen

=============================================================================
