---------------------------- MODULE Bridge_proofs ----------------------------
(***************************************************************************)
(* Lemmas about the bridge library that hold whichever program calls it,   *)
(* and what the list of endpoints keeps of the tree below the root.        *)
(***************************************************************************)
EXTENDS Bridge, EndpointTable_proofs

\* The leaves are for Zenon; those that need arithmetic cite SMT.
USE Zenon

Same(h) == h \in Live' /\ endpoints'[h].kind = endpoints[h].kind

\* A step of the endpoint list that neither destroys h nor reboots leaves h in
\* the list, an endpoint of the same kind.
LEMMA Kept ==
    ASSUME TableTypeOK, NEW h \in Live
    PROVE  /\ \A g \in Handle : CreateStatic(g) => Same(h)
           /\ \A g \in Handle : Create(g, "bridged") => Same(h)
           /\ \A id : \A g \in Handle : Resume(g, id, "bridged") => Same(h)
           /\ Start \/ FinishMigration \/ FactoryReset => Same(h)
           /\ \A g, on : SetEnabled(g, on) => Same(h)
           /\ \A g, p : SetParent(g, p) => Same(h)
  <1> USE DEF Same, Live
  <1>1. ASSUME NEW g \in Free, NEW e, endpoints' = WithEndpoint(g, e) PROVE Same(h)
    BY <1>1 DEF Free, WithEndpoint
  <1>2. QED
    BY SMT, <1>1 DEF CreateStatic, Create, Resume, Start, FinishMigration, FactoryReset, SetEnabled,
                SetParent, TableTypeOK, Endpoint

\* Adding a key to a partial function from ids keeps it one.
LEMMA PutType ==
    ASSUME NEW f, NEW S, OfIds(f, S), NEW k \in EndpointId, NEW v \in S
    PROVE  OfIds(Put(f, k, v), S)
  BY DEF OfIds, Put

\* The same for taking a key away.
LEMMA DelType ==
    ASSUME NEW f, NEW S, OfIds(f, S), NEW k
    PROVE  OfIds(Del(f, k), S)
  BY DEF OfIds, Del

\* The empty partial function is one.
LEMMA EmptyType == ASSUME NEW S PROVE OfIds(Empty, S)
  BY DEF OfIds, Empty

\* The empty array, and the zeroed one, are arrays of ids.
LEMMA ArrayType ==
    /\ NoArray \in [Slots -> EndpointId]
    /\ [s \in Slots |-> 0] \in [Slots -> EndpointId]
  BY IdRange DEF NoArray

\* Nothing but the "ok" outcome is left when NVS works.
LEMMA OnlyOk == ASSUME ReliableNvs PROVE Outcome = {"ok"}
  BY DEF ReliableNvs, Outcome

\* Before and after a step that keeps the array, the stored ids are the same.
LEMMA SameStored == UNCHANGED nvArray => StoredIds' = StoredIds
  BY DEF StoredIds, Stored

\* The bridge is well typed at first, also with the device an older firmware left.
LEMMA BridgeInitType ==
    ASSUME TableInit, BridgeInit
    PROVE  BridgeTypeOK
  <1>1. TableTypeOK
    BY InitType
  <1>2. /\ idArray \in [Slots -> EndpointId] /\ nvArray = NotFound
        /\ OfIds(nvInfo, Info) /\ nvAttrs \subseteq EndpointId
        /\ gone \subseteq EndpointId /\ late \subseteq EndpointId
        /\ resetting \in BOOLEAN /\ CurOK
    BY ArrayType, EmptyType, IdRange DEF BridgeInit, BridgeRam, CurOK, NoDevice
  <1>3. /\ nvArrayOld = NotFound \/ nvArrayOld \in [Slots -> EndpointId]
        /\ OfIds(nvInfoOld, Info) /\ OfIds(acked, Info)
    <2>1. CASE issued = {}
      BY <2>1, EmptyType DEF BridgeInit
    <2>2. CASE issued # {}
      <3>1. image \in Images /\ Len(image) \in Nat
        BY <1>1, ImageLength DEF TableTypeOK
      <3>2. nvMinOld # NotFound /\ issued = Len(image) .. (nvMinOld - 1)
        BY <2>2 DEF TableInit
      <3>3. nvMinOld \in EndpointId
        BY <1>1, <3>2 DEF TableTypeOK
      <3>4. nvMinOld - 1 \in EndpointId
        <4>1. PICK i \in issued : TRUE
          BY <2>2
        <4>2. nvMinOld \in Nat /\ nvMinOld <= kInvalidEndpointId /\ 0 <= nvMinOld - 1
          BY SMT, <3>1, <3>2, <3>3, <4>1, IdRange DEF EndpointId
        <4>3. QED
          BY SMT, <4>2, IdRange DEF EndpointId
      <3>5. 1 \in EndpointId
        BY SMT, IdRange DEF EndpointId
      <3>6. PICK t \in Supported[image] :
               /\ nvInfoOld = Put(Empty, nvMinOld - 1, [parent |-> 1, type |-> t])
               /\ nvArrayOld = [NoArray EXCEPT ![1] = nvMinOld - 1]
               /\ acked = nvInfoOld
        BY <2>2 DEF BridgeInit
      <3>7. [parent |-> 1, type |-> t] \in Info
        BY <3>1, <3>5, BridgeAssumption DEF Info
      <3>8. OfIds(nvInfoOld, Info)
        BY <3>4, <3>6, <3>7, EmptyType, PutType
      <3>9. QED
        BY <3>4, <3>6, <3>8, ArrayType
    <2>3. QED
      BY <2>1, <2>2
  <1>4. QED
    BY <1>1, <1>2, <1>3 DEF BridgeTypeOK

-----------------------------------------------------------------------------

\* A library step keeps the types of the bridge: one case per step.
LEMMA LibraryType ==
    ASSUME TableTypeOK, BridgeTypeOK, LibraryStep
    PROVE  BridgeTypeOK'
  <1>i. kInvalidEndpointId \in EndpointId /\ 0 \in EndpointId
    BY IdRange
  <1>l. \A h \in Live : endpoints[h].id \in EndpointId
    BY DEF TableTypeOK, Endpoint
  <1>k. ASSUME UNCHANGED tableVars PROVE Live' = Live /\ endpoints' = endpoints
    BY <1>k DEF tableVars, Live
  <1>s. \A o : StoreArray(o) /\ idArray' \in [Slots -> EndpointId]
                 => nvArray' = NotFound \/ nvArray' \in [Slots -> EndpointId]
    BY DEF StoreArray, BridgeTypeOK
  <1> USE DEF BridgeTypeOK, nvBridge, history
  <1>1. CASE Initialize
    <2>1. idArray' \in [Slots -> EndpointId]
      BY <1>1, ArrayType DEF Initialize
    <2>2. CurOK'
      BY <1>1, <1>k DEF Initialize, CurOK
    <2>3. QED
      BY <1>1, <1>s, <2>1, <2>2 DEF Initialize
  <1>2. CASE FinishArrayMigration
    <2>1. CurOK'
      BY <1>2, <1>k DEF FinishArrayMigration, CurOK
    <2>2. QED
      BY <1>2, <1>s, <2>1 DEF FinishArrayMigration
  <1>3. CASE SetTypeOnCreate
    <2>1. cur.h \in Live /\ CurId \in EndpointId
      BY <1>3, <1>l DEF SetTypeOnCreate, CurOK, CurId
    <2>2. Same(cur.h)
      BY <1>3, <1>k, <2>1, Kept DEF SetTypeOnCreate, Same
    <2>3. CurOK'
      BY <1>3, <2>1, <2>2 DEF SetTypeOnCreate, CurOK, Same
    <2>4. QED
      BY <1>3, <2>1, <2>3 DEF SetTypeOnCreate, SetDeviceType
  <1>4. CASE StoreInfo
    <2>1. OfIds(nvInfo', Info)
      BY SMT, <1>4, PutType DEF StoreInfo, CurOK
    <2>2. CurOK'
      BY <1>4, <1>k DEF StoreInfo, CurOK
    <2>3. QED
      BY <1>4, <2>1, <2>2 DEF StoreInfo
  <1>5. CASE AddToArray
    <2>1. idArray' \in [Slots -> EndpointId]
      BY <1>5 DEF AddToArray, CurOK
    <2>2. OfIds(acked', Info)
      BY SMT, <1>5, PutType DEF AddToArray, CurOK
    <2>3. CurOK'
      BY <1>5, <1>k DEF AddToArray, CurOK
    <2>4. QED
      BY <1>5, <1>s, <2>1, <2>2, <2>3 DEF AddToArray
  <1>6. CASE EraseFromArray
    <2>1. idArray' \in [Slots -> EndpointId]
      BY <1>6, <1>i DEF EraseFromArray
    <2>2. CurOK'
      BY <1>6, <1>k DEF EraseFromArray, AfterErase, CurOK
    <2>3. QED
      BY <1>6, <1>s, <2>1, <2>2 DEF EraseFromArray
  <1>7. CASE EraseInfo
    <2>1. OfIds(nvInfo', Info)
      BY <1>7, DelType DEF EraseInfo
    <2>2. CurOK'
      BY <1>7, <1>k DEF EraseInfo, AfterErase, CurOK
    <2>3. QED
      BY <1>7, <2>1, <2>2 DEF EraseInfo
  <1>8. CASE DestroyEndpoint
    <2>1. CurOK'
      BY <1>8, <1>i DEF DestroyEndpoint, CurOK, NoDevice
    <2>2. cur.h \in Live /\ CurId \in EndpointId
      BY <1>8, <1>l DEF DestroyEndpoint, CurOK, CurId
    <2>3. QED
      BY <1>8, <2>1, <2>2 DEF DestroyEndpoint
  <1>9. CASE FinishInfoMigration
    <2>1. OfIds(nvInfo', Info)
      BY SMT, <1>9, PutType DEF FinishInfoMigration, CurOK
    <2>2. CurOK'
      BY <1>9, <1>k DEF FinishInfoMigration, CurOK
    <2>3. QED
      BY <1>9, <2>1, <2>2 DEF FinishInfoMigration
  <1>10. CASE ResumeEndpoint
    <2>1. ASSUME NEW h \in Handle, Resume(h, cur.id, "bridged"), cur' = [cur EXCEPT !.h = h],
                 pc' = "r_type"
          PROVE  CurOK'
      <3>1. h \in Live' /\ endpoints'[h].kind = "bridged"
        BY <2>1 DEF Resume, WithEndpoint, Live
      <3>2. cur'.h = h /\ cur'.id = cur.id /\ cur'.info = cur.info
        BY SMT, <2>1
      <3>3. QED
        BY <1>10, <2>1, <3>1, <3>2, BridgeAssumption DEF ResumeEndpoint, CurOK
    <2>2. ASSUME UNCHANGED tableVars, cur' = NoDevice, pc' = "ret" PROVE CurOK'
      BY <2>2, <1>i DEF CurOK, NoDevice
    <2>3. ASSUME UNCHANGED tableVars, cur' = cur, pc' = "e_array" PROVE CurOK'
      BY <2>3, <1>k DEF CurOK
    <2>4. CurOK'
      BY <1>10, <2>1, <2>2, <2>3 DEF ResumeEndpoint
    <2>5. QED
      BY <1>10, <2>4 DEF ResumeEndpoint
  <1>11. CASE SetTypeOnResume
    <2>1. cur.h \in Live
      BY <1>11 DEF SetTypeOnResume, CurOK
    <2>2. Same(cur.h)
      BY <1>11, <1>k, <2>1, Kept DEF SetTypeOnResume, Same
    <2>3. CurOK'
      BY <1>11, <2>1, <2>2 DEF SetTypeOnResume, CurOK, Same
    <2>4. QED
      BY <1>11, <2>3 DEF SetTypeOnResume, SetDeviceType, CurOK
  <1>12. QED
    BY <1>1, <1>2, <1>3, <1>4, <1>5, <1>6, <1>7, <1>8, <1>9, <1>10, <1>11 DEF LibraryStep

-----------------------------------------------------------------------------
(* The endpoints created before start() stay as they are for the whole boot. *)

Bridged == {h \in Live : endpoints[h].kind = "bridged"}

\* The endpoints that are not bridged are those the image declares: they have
\* its ids and kinds, no parent, cannot be destroyed, and after start() all of
\* them are there.
StaticInv ==
    /\ \A h \in Live \ Bridged :
          /\ ~endpoints[h].destroyable /\ endpoints[h].parent = kInvalidEndpointId
          /\ endpoints[h].id < Len(image) /\ endpoints[h].kind = image[endpoints[h].id + 1]
    /\ phase = "boot" => Bridged = {} /\ minUnused <= Len(image)
    /\ \A i \in Nat : i < (IF phase = "boot" THEN minUnused ELSE Len(image))
                        => \E h \in Live \ Bridged : endpoints[h].id = i

\* A step keeps these endpoints and all of them but the enabled flag.
SameStatics ==
    /\ (Live \ Bridged)' = Live \ Bridged
    /\ \A h \in Live \ Bridged :
          /\ endpoints'[h].id = endpoints[h].id /\ endpoints'[h].kind = endpoints[h].kind
          /\ endpoints'[h].parent = endpoints[h].parent
          /\ endpoints'[h].destroyable = endpoints[h].destroyable

\* Creating and resuming add one bridged endpoint and leave the others alone.
LEMMA BridgedAdded ==
    ASSUME TableTypeOK, NEW h \in Free, NEW e \in Endpoint, e.kind = "bridged",
           endpoints' = WithEndpoint(h, e)
    PROVE  /\ h \notin Live /\ Live' = Live \cup {h} /\ Bridged' = Bridged \cup {h}
           /\ endpoints'[h] = e
           /\ \A x \in Live : endpoints'[x] = endpoints[x]
           /\ SameStatics
  <1>1. h \in Handle /\ h \notin Live
    BY DEF Free
  <1>2. /\ Live' = Live \cup {h}
        /\ endpoints'[h] = e
        /\ \A x \in Live : endpoints'[x] = endpoints[x]
    BY <1>1 DEF WithEndpoint, Live
  <1>3. Bridged' = Bridged \cup {h}
    BY <1>2 DEF Bridged
  <1>4. QED
    BY <1>1, <1>2, <1>3 DEF SameStatics

\* What endpoint::create gives: the next id, which lies below 65535.
LEMMA Created ==
    ASSUME TableTypeOK, NEW h \in Handle, Create(h, "bridged")
    PROVE  /\ h \notin Live /\ Live' = Live \cup {h} /\ Bridged' = Bridged \cup {h}
           /\ endpoints'[h].id = minUnused /\ endpoints'[h].parent = kInvalidEndpointId
           /\ \A x \in Live : endpoints'[x] = endpoints[x]
           /\ SameStatics
           /\ minUnused' = minUnused + 1
           /\ phase = "up" /\ phase' = "up" /\ image' = image
  <1> DEFINE e == [id |-> minUnused, parent |-> kInvalidEndpointId, enabled |-> TRUE,
                   destroyable |-> TRUE, kind |-> "bridged"]
  <1>1. e \in Endpoint
    BY IdRange DEF TableTypeOK, Endpoint
  <1>2. endpoints' = WithEndpoint(h, e) /\ h \in Free
    BY DEF Create
  <1>3. e.kind = "bridged" /\ e.id = minUnused /\ e.parent = kInvalidEndpointId
    OBVIOUS
  <1>4. minUnused' = minUnused + 1 /\ phase = "up" /\ phase' = "up" /\ image' = image
    <2>1. minUnused \in EndpointId /\ minUnused < kInvalidEndpointId
      BY SMT, IdRange, ConstantsAssumption DEF Create, TableTypeOK
    <2>2. QED
      BY <2>1, NextIdRange DEF Create
  <1> HIDE DEF e
  <1>5. QED
    BY <1>1, <1>2, <1>3, <1>4, BridgedAdded

\* What endpoint::resume gives: a disabled endpoint of that id with parent 0.
LEMMA Resumed ==
    ASSUME TableTypeOK, NEW h \in Handle, NEW id \in EndpointId, Resume(h, id, "bridged")
    PROVE  /\ h \notin Live /\ Live' = Live \cup {h} /\ Bridged' = Bridged \cup {h}
           /\ endpoints'[h].id = id /\ endpoints'[h].parent = 0
           /\ \A x \in Live : endpoints'[x] = endpoints[x]
           /\ SameStatics
           /\ phase = "up" /\ UNCHANGED <<image, phase, minUnused, nvMin, nvMinOld, issued>>
  <1> DEFINE e == [id |-> id, parent |-> 0, enabled |-> FALSE,
                   destroyable |-> TRUE, kind |-> "bridged"]
  <1>1. e \in Endpoint
    BY IdRange DEF Endpoint
  <1>2. endpoints' = WithEndpoint(h, e) /\ h \in Free
    BY DEF Resume
  <1>3. e.kind = "bridged" /\ e.id = id /\ e.parent = 0
    OBVIOUS
  <1>4. phase = "up" /\ UNCHANGED <<image, phase, minUnused, nvMin, nvMinOld, issued>>
    BY DEF Resume
  <1> HIDE DEF e
  <1>5. QED
    BY <1>1, <1>2, <1>3, <1>4, BridgedAdded

\* endpoint::destroy takes a bridged endpoint away and leaves the others alone.
LEMMA Destroyed ==
    ASSUME TableTypeOK, StaticInv, NEW h \in Handle, Destroy(h)
    PROVE  /\ h \in Bridged /\ Live' = Live \ {h} /\ Bridged' = Bridged \ {h}
           /\ \A x \in Live \ {h} : endpoints'[x] = endpoints[x]
           /\ SameStatics
           /\ phase = "up" /\ UNCHANGED <<image, phase, minUnused, nvMin, nvMinOld, issued>>
  <1>1. h \in Live /\ endpoints[h].destroyable
    BY DEF Destroy
  <1>2. h \in Bridged
    BY <1>1 DEF StaticInv
  <1>3. Live' = Live \ {h} /\ \A x \in Live \ {h} : endpoints'[x] = endpoints[x]
    BY DEF Destroy, Live
  <1>4. Bridged' = Bridged \ {h}
    BY <1>3 DEF Bridged
  <1>5. phase = "up" /\ UNCHANGED <<image, phase, minUnused, nvMin, nvMinOld, issued>>
    BY DEF Destroy
  <1>6. QED
    BY <1>2, <1>3, <1>4, <1>5 DEF SameStatics

\* set_parent_endpoint of a bridged endpoint copies the id of the parent and
\* changes nothing else.
LEMMA Reparented ==
    ASSUME TableTypeOK, NEW h \in Bridged, NEW g \in Live, SetParent(h, g)
    PROVE  /\ Live' = Live /\ Bridged' = Bridged
           /\ endpoints'[h].parent = endpoints[g].id /\ endpoints'[h].id = endpoints[h].id
           /\ endpoints'[h].enabled = endpoints[h].enabled
           /\ \A x \in Live \ {h} : endpoints'[x] = endpoints[x]
           /\ SameStatics
           /\ phase = "up" /\ UNCHANGED <<image, phase, minUnused, nvMin, nvMinOld, issued>>
  <1>1. h \in Live /\ endpoints' = [endpoints EXCEPT ![h].parent = endpoints[g].id]
    BY DEF SetParent, Bridged
  <1>2. /\ Live' = Live
        /\ endpoints'[h].parent = endpoints[g].id /\ endpoints'[h].id = endpoints[h].id
        /\ endpoints'[h].enabled = endpoints[h].enabled /\ endpoints'[h].kind = endpoints[h].kind
        /\ \A x \in Live \ {h} : endpoints'[x] = endpoints[x]
    BY <1>1 DEF TableTypeOK, Live, Endpoint
  <1>3. Bridged' = Bridged
    BY <1>2 DEF Bridged
  <1>4. phase = "up" /\ UNCHANGED <<image, phase, minUnused, nvMin, nvMinOld, issued>>
    BY DEF SetParent
  <1>5. QED
    BY <1>2, <1>3, <1>4 DEF SameStatics

\* Enabling and disabling change the flag of one endpoint.
LEMMA Flagged ==
    ASSUME TableTypeOK, NEW h \in Handle, NEW on \in BOOLEAN, SetEnabled(h, on)
    PROVE  /\ Live' = Live /\ Bridged' = Bridged
           /\ endpoints'[h].enabled = on
           /\ \A x \in Live : /\ endpoints'[x].id = endpoints[x].id
                              /\ endpoints'[x].parent = endpoints[x].parent
           /\ \A x \in Live \ {h} : endpoints'[x] = endpoints[x]
           /\ SameStatics
           /\ phase = "up" /\ UNCHANGED <<image, phase, minUnused, nvMin, nvMinOld, issued>>
  <1>1. h \in Live /\ endpoints' = [endpoints EXCEPT ![h].enabled = on]
    BY DEF SetEnabled
  <1>2. /\ Live' = Live /\ endpoints'[h].enabled = on
        /\ \A x \in Live : /\ endpoints'[x].id = endpoints[x].id
                           /\ endpoints'[x].kind = endpoints[x].kind
                           /\ endpoints'[x].parent = endpoints[x].parent
                           /\ endpoints'[x].destroyable = endpoints[x].destroyable
        /\ \A x \in Live \ {h} : endpoints'[x] = endpoints[x]
    BY <1>1 DEF TableTypeOK, Live, Endpoint
  <1>3. Bridged' = Bridged
    BY <1>2 DEF Bridged
  <1>4. phase = "up" /\ UNCHANGED <<image, phase, minUnused, nvMin, nvMinOld, issued>>
    BY DEF SetEnabled
  <1>5. QED
    BY <1>2, <1>3, <1>4 DEF SameStatics

\* A step that keeps these endpoints, the image and the phase keeps the invariant.
LEMMA SameStatic ==
    ASSUME StaticInv, SameStatics, image' = image, phase # "boot", phase' # "boot"
    PROVE  StaticInv'
  <1>1. \A h \in Live' \ Bridged' :
          /\ ~endpoints'[h].destroyable /\ endpoints'[h].parent = kInvalidEndpointId
          /\ endpoints'[h].id < Len(image) /\ endpoints'[h].kind = image[endpoints'[h].id + 1]
    BY DEF StaticInv, SameStatics
  <1>2. \A i \in Nat : i < Len(image) => \E h \in Live' \ Bridged' : endpoints'[h].id = i
    BY SMT DEF StaticInv, SameStatics
  <1>3. QED
    BY <1>1, <1>2 DEF StaticInv

\* There is no endpoint when the node is created.
LEMMA EmptyStatic ==
    ASSUME image \in Images, Live = {}, phase = "boot", minUnused = 0
    PROVE  StaticInv
  BY SMT, ImageLength DEF StaticInv, Bridged

\* Every step of the list keeps StaticInv, with any NVS failures.
LEMMA NextStatic == TableTypeOK /\ StaticInv /\ [TableNext]_tableVars => StaticInv'
  <1> SUFFICES ASSUME TableTypeOK, StaticInv, [TableNext]_tableVars PROVE StaticInv'
    OBVIOUS
  <1>l. /\ Len(image) \in Nat /\ Len(image) <= 255 /\ image \in Seq(Kinds)
        /\ minUnused \in Nat /\ \A h \in Live : endpoints[h].id \in Nat
    BY ImageLength, ConstantsAssumption, IdRange DEF TableTypeOK, Endpoint
  <1>1. CASE UNCHANGED tableVars
    <2>1. UNCHANGED <<image, phase, endpoints, minUnused>>
      BY <1>1 DEF tableVars
    <2>2. Live' = Live /\ Bridged' = Bridged
      BY <2>1 DEF Live, Bridged
    <2>3. QED
      BY <2>1, <2>2 DEF StaticInv
  <1>2. ASSUME NEW h \in Handle, CreateStatic(h) PROVE StaticInv'
    <2> DEFINE e == [id |-> minUnused, parent |-> kInvalidEndpointId, enabled |-> TRUE,
                     destroyable |-> FALSE, kind |-> image[minUnused + 1]]
    <2>1. /\ phase = "boot" /\ minUnused < Len(image) /\ h \notin Live /\ endpoints' = WithEndpoint(h, e)
          /\ image' = image /\ phase' = phase
      BY <1>2 DEF CreateStatic, Free
    <2>2. minUnused' = minUnused + 1
      BY SMT, <1>2, <1>l, <2>1, NextIdRange, IdRange DEF CreateStatic, TableTypeOK
    <2>3. /\ e.id = minUnused /\ e.parent = kInvalidEndpointId /\ ~e.destroyable
          /\ e.kind = image[minUnused + 1] /\ e.kind # "bridged"
      <3>1. image[minUnused + 1] \in Kinds
        BY SMT, <1>l, <2>1
      <3>2. QED
        BY <3>1 DEF Kinds
    <2> HIDE DEF e
    <2>4. /\ Live' = Live \cup {h} /\ endpoints'[h] = e
          /\ \A x \in Live : endpoints'[x] = endpoints[x]
      BY <2>1 DEF WithEndpoint, Live
    <2>5. Bridged = {} /\ Bridged' = {}
      <3>1. Bridged = {}
        BY <2>1 DEF StaticInv
      <3>2. QED
        BY <2>3, <2>4, <3>1 DEF Bridged
    <2>6. \A x \in Live' : /\ ~endpoints'[x].destroyable /\ endpoints'[x].parent = kInvalidEndpointId
                           /\ endpoints'[x].id < Len(image)
                           /\ endpoints'[x].kind = image[endpoints'[x].id + 1]
      <3>1. ASSUME NEW x \in Live
            PROVE  /\ ~endpoints'[x].destroyable /\ endpoints'[x].parent = kInvalidEndpointId
                   /\ endpoints'[x].id < Len(image)
                   /\ endpoints'[x].kind = image[endpoints'[x].id + 1]
        BY <2>4, <2>5 DEF StaticInv
      <3>2. QED
        BY <2>1, <2>3, <2>4, <3>1
    <2>7. \A i \in Nat : i < minUnused' => \E x \in Live' : endpoints'[x].id = i
      <3>1. SUFFICES ASSUME NEW i \in Nat, i < minUnused' PROVE \E x \in Live' : endpoints'[x].id = i
        OBVIOUS
      <3>2. CASE i = minUnused
        BY <2>3, <2>4, <3>2
      <3>3. CASE i < minUnused
        <4>1. PICK x \in Live : endpoints[x].id = i
          BY <2>1, <3>3 DEF StaticInv
        <4>2. QED
          BY <2>4, <4>1
      <3>4. QED
        BY SMT, <1>l, <2>2, <3>1, <3>2, <3>3
    <2>8. minUnused' <= Len(image')
      BY SMT, <1>l, <2>1, <2>2
    <2>9. QED
      BY <2>1, <2>5, <2>6, <2>7, <2>8 DEF StaticInv
  <1>3. ASSUME NEW h \in Handle, Create(h, "bridged") PROVE StaticInv'
    BY <1>3, Created, SameStatic
  <1>4. ASSUME NEW h \in Handle, NEW id \in 0 .. minUnused, Resume(h, id, "bridged")
        PROVE  StaticInv'
    <2>1. id \in EndpointId
      BY SMT, IdRange DEF TableTypeOK, EndpointId
    <2>2. QED
      BY <1>4, <2>1, Resumed, SameStatic
  <1>5. ASSUME NEW h \in Handle, Destroy(h) PROVE StaticInv'
    BY <1>5, Destroyed, SameStatic
  <1>6. ASSUME NEW h \in Handle, NEW on \in BOOLEAN, SetEnabled(h, on) PROVE StaticInv'
    BY <1>6, Flagged, SameStatic
  <1>7. ASSUME NEW h \in Live, NEW p \in Live, endpoints[h].kind = "bridged", SetParent(h, p)
        PROVE  StaticInv'
    <2>1. h \in Bridged
      BY <1>7 DEF Bridged
    <2>2. QED
      BY <1>7, <2>1, Reparented, SameStatic
  <1>8. CASE Start
    <2>1. /\ Live' = Live
          /\ \A x \in Live : /\ endpoints'[x].id = endpoints[x].id
                             /\ endpoints'[x].kind = endpoints[x].kind
                             /\ endpoints'[x].parent = endpoints[x].parent
                             /\ endpoints'[x].destroyable = endpoints[x].destroyable
      BY <1>8 DEF Start, Live, TableTypeOK, Endpoint
    <2>2. Bridged' = Bridged
      BY <2>1 DEF Bridged
    <2>3. phase = "boot" /\ minUnused = Len(image) /\ image' = image /\ phase' # "boot"
      BY <1>8 DEF Start, ReadMinUnused
    <2>4. \A i \in Nat : i < Len(image) => \E h \in Live' \ Bridged' : endpoints'[h].id = i
      BY SMT, <2>1, <2>2, <2>3 DEF StaticInv
    <2>5. \A h \in Live' \ Bridged' :
             /\ ~endpoints'[h].destroyable /\ endpoints'[h].parent = kInvalidEndpointId
             /\ endpoints'[h].id < Len(image) /\ endpoints'[h].kind = image[endpoints'[h].id + 1]
      BY SMT, <2>1, <2>2 DEF StaticInv
    <2>6. QED
      BY <2>3, <2>4, <2>5 DEF StaticInv
  <1>9. CASE FinishMigration \/ FactoryReset
    <2>1. endpoints' = endpoints /\ image' = image /\ phase # "boot" /\ phase' # "boot"
      BY <1>9 DEF FinishMigration, FactoryReset
    <2>2. SameStatics
      BY <2>1 DEF SameStatics, Live, Bridged
    <2>3. QED
      BY <2>1, <2>2, SameStatic
  <1>10. CASE Reboot
    <2>1. TableTypeOK'
      BY <1>10, NextType DEF TableNext
    <2>2. Live' = {} /\ phase' = "boot" /\ minUnused' = 0
      BY <1>10 DEF Reboot, Live
    <2>3. Bridged' = {} /\ Len(image') \in Nat
      BY <2>1, <2>2, ImageLength DEF Bridged, TableTypeOK
    <2>4. QED
      BY SMT, <2>2, <2>3 DEF StaticInv
  <1>11. QED
    BY <1>1, <1>2, <1>3, <1>4, <1>5, <1>6, <1>7, <1>8, <1>9, <1>10 DEF TableNext, Enable, Disable

\* The aggregators of an image, by endpoint id.
Aggregators(img) == {p \in Nat : p < Len(img) /\ img[p + 1] = "aggregator"}

ParentsFromImage == \A p \in EndpointId : ParentIsValid(p) <=> p \in Aggregators(image)

\* Once started, the valid parents are the aggregators of the image.
LEMMA ParentByImage == TableTypeOK /\ StaticInv /\ phase # "boot" => ParentsFromImage
  <1> SUFFICES ASSUME TableTypeOK, StaticInv, phase # "boot", NEW p \in EndpointId
               PROVE  ParentIsValid(p) <=> p \in Aggregators(image)
    BY DEF ParentsFromImage
  <1>l. Len(image) \in Nat /\ p \in Nat /\ \A h \in Live : endpoints[h].id \in Nat
    BY ImageLength, IdRange DEF TableTypeOK, Endpoint
  <1>1. ASSUME ParentIsValid(p) PROVE p \in Aggregators(image)
    <2>1. PICK g \in Live : endpoints[g].id = p /\ endpoints[g].kind = "aggregator"
      BY <1>1 DEF ParentIsValid, IsAggregator
    <2>2. g \in Live \ Bridged
      BY <2>1 DEF Bridged
    <2>3. QED
      BY <1>l, <2>1, <2>2 DEF StaticInv, Aggregators
  <1>2. ASSUME p \in Aggregators(image) PROVE ParentIsValid(p)
    <2>1. p < Len(image) /\ image[p + 1] = "aggregator"
      BY <1>2 DEF Aggregators
    <2>2. PICK g \in Live \ Bridged : endpoints[g].id = p
      BY <1>l, <2>1 DEF StaticInv
    <2>3. endpoints[g].kind = "aggregator"
      BY <2>1, <2>2 DEF StaticInv
    <2>4. QED
      BY <2>2, <2>3 DEF ParentIsValid, IsAggregator
  <1>3. QED
    BY <1>1, <1>2

\* node::create makes the root endpoint before anything else.
RootFirst == \A img \in Images : Len(img) > 0

\* The parent of a bridged endpoint: none yet, an aggregator, or (resume
\* allocates a zeroed endpoint) the root.
ParentsInv ==
    \A h \in Bridged : endpoints[h].parent \in {0, kInvalidEndpointId} \cup Aggregators(image)

\* Every step of the list keeps ParentsInv: an aggregator is never destroyed.
LEMMA NextParents ==
    TableTypeOK /\ StaticInv /\ ParentsInv /\ [TableNext]_tableVars => ParentsInv'
  <1> SUFFICES ASSUME TableTypeOK, StaticInv, ParentsInv, [TableNext]_tableVars
               PROVE  ParentsInv'
    OBVIOUS
  <1>t. StaticInv'
    BY NextStatic
  <1>b. \A h \in Bridged : h \in Live
    BY DEF Bridged
  <1>1. CASE UNCHANGED tableVars
    BY <1>1 DEF tableVars, ParentsInv, Bridged, Live
  <1>2. ASSUME NEW h \in Handle, CreateStatic(h) PROVE ParentsInv'
    <2>1. phase' = "boot"
      BY <1>2 DEF CreateStatic
    <2>2. Bridged' = {}
      BY <1>t, <2>1 DEF StaticInv
    <2>3. QED
      BY <2>2 DEF ParentsInv
  <1>3. ASSUME NEW h \in Handle, Create(h, "bridged") PROVE ParentsInv'
    <2>1. /\ Bridged' = Bridged \cup {h} /\ endpoints'[h].parent = kInvalidEndpointId
          /\ \A x \in Live : endpoints'[x] = endpoints[x]
          /\ phase = "up" /\ phase' = "up" /\ image' = image
      BY <1>3, Created
    <2>2. QED
      BY <1>b, <2>1 DEF ParentsInv
  <1>4. ASSUME NEW h \in Handle, NEW id \in 0 .. minUnused, Resume(h, id, "bridged")
        PROVE  ParentsInv'
    <2>1. id \in EndpointId
      BY SMT, IdRange DEF TableTypeOK, EndpointId
    <2>2. /\ Bridged' = Bridged \cup {h} /\ endpoints'[h].parent = 0
          /\ \A x \in Live : endpoints'[x] = endpoints[x]
          /\ phase = "up" /\ phase' = phase /\ image' = image
      BY <1>4, <2>1, Resumed
    <2>3. QED
      BY <1>b, <2>2 DEF ParentsInv
  <1>5. ASSUME NEW h \in Handle, Destroy(h) PROVE ParentsInv'
    <2>1. /\ Bridged' = Bridged \ {h}
          /\ \A x \in Live \ {h} : endpoints'[x] = endpoints[x]
          /\ phase = "up" /\ phase' = phase /\ image' = image
      BY <1>5, Destroyed
    <2>2. QED
      BY <1>b, <2>1 DEF ParentsInv
  <1>6. ASSUME NEW h \in Handle, NEW on \in BOOLEAN, SetEnabled(h, on) PROVE ParentsInv'
    <2>1. /\ Bridged' = Bridged
          /\ \A x \in Live : endpoints'[x].parent = endpoints[x].parent
          /\ phase = "up" /\ phase' = phase /\ image' = image
      BY <1>6, Flagged
    <2>2. QED
      BY <1>b, <2>1 DEF ParentsInv
  <1>7. ASSUME NEW h \in Live, NEW g \in Live, endpoints[h].kind = "bridged",
               endpoints[g].kind = "aggregator", SetParent(h, g)
        PROVE  ParentsInv'
    <2>1. h \in Bridged
      BY <1>7 DEF Bridged
    <2>2. /\ Bridged' = Bridged /\ Live' = Live
          /\ endpoints'[h].parent = endpoints[g].id
          /\ \A x \in Live \ {h} : endpoints'[x] = endpoints[x]
          /\ phase = "up" /\ phase' = phase /\ image' = image
      BY <1>7, <2>1, Reparented
    <2>3. endpoints'[h].parent \in Aggregators(image)
      <3>1. ParentIsValid(endpoints[g].id) /\ endpoints[g].id \in EndpointId
        BY <1>7 DEF ParentIsValid, IsAggregator, TableTypeOK, Endpoint
      <3>2. QED
        BY <2>2, <3>1, ParentByImage DEF ParentsFromImage
    <2>4. QED
      BY <1>b, <2>2, <2>3 DEF ParentsInv
  <1>8. CASE Start \/ Reboot
    <2>1. Bridged' = {}
      <3>1. CASE Reboot
        BY <3>1 DEF Reboot, Bridged, Live
      <3>2. CASE Start
        <4>1. Bridged = {}
          BY <3>2 DEF Start, StaticInv
        <4>2. Live' = Live /\ \A x \in Live : endpoints'[x].kind = endpoints[x].kind
          BY <3>2 DEF Start, Live, TableTypeOK, Endpoint
        <4>3. QED
          BY <4>1, <4>2 DEF Bridged
      <3>3. QED
        BY <1>8, <3>1, <3>2
    <2>2. QED
      BY <2>1 DEF ParentsInv
  <1>9. CASE FinishMigration \/ FactoryReset
    <2>1. endpoints' = endpoints /\ image' = image /\ phase # "boot" /\ phase' # "boot"
      BY <1>9 DEF FinishMigration, FactoryReset
    <2>2. Bridged' = Bridged
      BY <2>1 DEF Bridged, Live
    <2>3. QED
      BY <2>1, <2>2 DEF ParentsInv
  <1>10. QED
    BY <1>1, <1>2, <1>3, <1>4, <1>5, <1>6, <1>7, <1>8, <1>9 DEF TableNext, Enable, Disable

\* StaticInv holds in every state of the endpoint list: what the image declares
\* is neither destroyed nor moved below another endpoint.
LEMMA StaticsStand == TableSpec => [](TableTypeOK /\ StaticInv)
  <1>1. TableInit => StaticInv
    <2>1. SUFFICES ASSUME TableInit PROVE StaticInv
      OBVIOUS
    <2>2. image \in Images /\ Live = {} /\ phase = "boot" /\ minUnused = 0
      BY <2>1, InitType DEF TableInit, BootState, Live, TableTypeOK
    <2>3. QED
      BY <2>2, EmptyStatic
  <1>2. QED
    BY <1>1, InitType, NextType, NextStatic, PTL DEF TableSpec

\* The walk from any endpoint to the top of its tree ends after one step at
\* most, at a live endpoint without a parent, whatever is created, resumed,
\* destroyed and reset, in every boot and with any NVS failures.
THEOREM WalksEnd ==
    ASSUME RootFirst
    PROVE  TableSpec => []ParentWalkEnds
  <1>1. TableInit => ParentsInv
    BY DEF TableInit, BootState, ParentsInv, Bridged, Live
  <1>2. TableTypeOK /\ StaticInv /\ ParentsInv => ParentWalkEnds
    <2>1. SUFFICES ASSUME TableTypeOK, StaticInv, ParentsInv, NEW h \in Live
                   PROVE  \/ endpoints[h].parent = kInvalidEndpointId
                          \/ \E g \in Live : /\ endpoints[g].id = endpoints[h].parent
                                             /\ endpoints[g].parent = kInvalidEndpointId
      BY DEF ParentWalkEnds
    <2>2. CASE h \notin Bridged
      BY <2>1, <2>2 DEF StaticInv
    <2>3. CASE h \in Bridged /\ endpoints[h].parent = 0
      <3>1. phase # "boot" /\ 0 < Len(image)
        BY <2>1, <2>3 DEF StaticInv, TableTypeOK, RootFirst
      <3>2. PICK g \in Live \ Bridged : endpoints[g].id = 0
        BY <2>1, <3>1 DEF StaticInv
      <3>3. QED
        BY <2>1, <2>3, <3>2 DEF StaticInv
    <2>4. CASE h \in Bridged /\ endpoints[h].parent \in Aggregators(image)
      <3>0. ParentIsValid(endpoints[h].parent)
        <4>1. phase # "boot" /\ endpoints[h].parent \in EndpointId
          BY <2>1, <2>4 DEF StaticInv, TableTypeOK, Endpoint
        <4>2. QED
          BY <2>1, <2>4, <4>1, ParentByImage DEF ParentsFromImage
      <3>1. PICK g \in Live : endpoints[g].id = endpoints[h].parent /\ endpoints[g].kind = "aggregator"
        BY <3>0 DEF ParentIsValid, IsAggregator
      <3>2. g \in Live \ Bridged
        BY <3>1 DEF Bridged
      <3>3. QED
        BY <2>1, <3>1, <3>2 DEF StaticInv
    <2>5. QED
      BY <2>1, <2>2, <2>3, <2>4 DEF ParentsInv
  <1>3. QED
    BY <1>1, <1>2, StaticsStand, NextParents, PTL DEF TableSpec

-----------------------------------------------------------------------------
(* The array of ids and its copy in NVS. *)

\* Once initialize has run, RAM and NVS hold the same array, or the bridge was
\* reset and both are empty.
SameArray ==
    pc # "off" => \/ nvArray = idArray
                  \/ nvArray = NotFound /\ idArray = NoArray

\* What ArrayHasInfo needs to be inductive: in create_device the info is there
\* before the array is touched, in remove_device the slot is gone before the info.
ArrayInv ==
    /\ nvArrayOld = NotFound /\ DOMAIN nvInfoOld = {}
    /\ SameArray
    /\ StoredIds \subseteq DOMAIN nvInfo
    /\ pc = "c_array" => cur.id \in DOMAIN nvInfo
    /\ pc = "e_info" => cur.id \notin StoredIds

\* The array and the infos are empty at first.
LEMMA InitArray ==
    ASSUME ReliableNvs, TableInit, BridgeInit
    PROVE  ArrayInv
  <1>1. nvMinOld = NotFound /\ issued = {}
    BY DEF TableInit, ReliableNvs
  <1>2. QED
    BY <1>1 DEF BridgeInit, BridgeRam, Empty, ArrayInv, SameArray, StoredIds

\* What is stored is what RAM holds, once initialize has run.
LEMMA StoredRam ==
    ASSUME idArray \in [Slots -> EndpointId], SameArray, pc # "off"
    PROVE  StoredIds = Stored(idArray)
  BY BridgeAssumption DEF SameArray, StoredIds, Stored, NoArray

\* Each library step keeps ArrayInv.
LEMMA LibraryArray ==
    ASSUME ReliableNvs, TableTypeOK, BridgeTypeOK, ArrayInv, LibraryStep
    PROVE  ArrayInv'
  <1> USE DEF ArrayInv
  <1>f. Faults = {} /\ \A o \in Outcome : o = "ok"
    BY OnlyOk DEF ReliableNvs
  <1>s. ASSUME NEW o \in Outcome, StoreArray(o), idArray' \in [Slots -> EndpointId]
        PROVE  nvArray' = idArray' /\ StoredIds' = Stored(idArray')
    BY <1>f, <1>s, BridgeAssumption DEF StoreArray, StoredIds, Stored
  <1>r. pc # "off" => Stored(idArray) = StoredIds
    BY StoredRam DEF BridgeTypeOK
  <1>1. CASE Initialize
    <2>1. CASE nvArray # NotFound /\ idArray' = nvArray /\ UNCHANGED nvBridge
      BY <1>1, <2>1, SameStored DEF Initialize, nvBridge, SameArray
    <2>2. CASE nvArray = NotFound /\ idArray' = NoArray /\ UNCHANGED <<nvArrayOld, nvInfo, nvInfoOld>>
      <3>1. PICK o \in Outcome : StoreArray(o) /\ pc' \in {"initfail", "copy"}
        BY <1>1, <1>f, <2>2 DEF Initialize
      <3>2. QED
        BY SMT, <1>1, <1>s, <2>2, <3>1, ArrayType DEF Initialize, SameArray, Stored, NoArray
    <2>3. QED
      BY <1>1, <1>f, <2>1, <2>2 DEF Initialize
  <1>2. CASE FinishArrayMigration
    <2>1. StoredIds' = StoredIds /\ nvArray' = idArray'
      BY <1>2, <1>s, <1>r DEF FinishArrayMigration, BridgeTypeOK, Stored
    <2>2. QED
      BY <1>2, <2>1 DEF FinishArrayMigration, SameArray
  <1>3. CASE SetTypeOnCreate \/ DestroyEndpoint \/ ResumeEndpoint \/ SetTypeOnResume
    BY <1>3, SameStored DEF SetTypeOnCreate, DestroyEndpoint, ResumeEndpoint, SetTypeOnResume,
                            nvBridge, SameArray
  <1>4. CASE StoreInfo
    BY <1>4, <1>f, SameStored DEF StoreInfo, Put, SameArray
  <1>5. CASE AddToArray
    <2>1. CASE FreeSlots = {} /\ pc' = "e_array" /\ UNCHANGED <<idArray, nvArray, acked>>
      BY <1>5, <2>1, SameStored DEF AddToArray, SameArray
    <2>2. CASE \E s \in Slots : /\ IsFirst(s, FreeSlots)
                                /\ idArray' = [idArray EXCEPT ![s] = cur.id]
      <3>1. PICK s \in Slots : idArray' = [idArray EXCEPT ![s] = cur.id] /\ s \in FreeSlots
        BY <2>2 DEF IsFirst
      <3>2. idArray' \in [Slots -> EndpointId]
        BY <3>1 DEF BridgeTypeOK, CurOK
      <3>3. Stored(idArray') \subseteq Stored(idArray) \cup {cur.id}
        BY <3>1 DEF Stored, BridgeTypeOK
      <3>4. FreeSlots # {}
        BY <3>1
      <3>5. PICK o \in Outcome : StoreArray(o) /\ pc' = "ret"
        BY <1>5, <3>4 DEF AddToArray
      <3>6. StoredIds' \subseteq DOMAIN nvInfo
        BY <1>5, <1>r, <1>s, <3>2, <3>3, <3>5 DEF AddToArray
      <3>7. QED
        BY <1>5, <1>s, <3>2, <3>5, <3>6 DEF AddToArray, SameArray
    <2>3. QED
      BY <1>5, <2>1, <2>2 DEF AddToArray
  <1>6. CASE EraseFromArray
    <2>1. idArray' \in [Slots -> EndpointId]
      BY <1>6, IdRange DEF EraseFromArray, BridgeTypeOK
    <2>2. Stored(idArray') \subseteq Stored(idArray) \ {cur.id}
      BY <1>6, <2>1 DEF EraseFromArray, Stored
    <2>3. PICK o \in Outcome : StoreArray(o) /\ pc' = "e_info"
      BY <1>6, <1>f DEF EraseFromArray
    <2>4. StoredIds' \subseteq StoredIds \ {cur.id} /\ nvArray' = idArray'
      BY <1>6, <1>r, <1>s, <2>1, <2>2, <2>3 DEF EraseFromArray
    <2>5. QED
      BY <1>6, <2>3, <2>4 DEF EraseFromArray, SameArray
  <1>7. CASE EraseInfo
    BY <1>7, <1>f, SameStored DEF EraseInfo, AfterErase, Del, SameArray
  <1>8. CASE FinishInfoMigration
    BY <1>8, <1>f, SameStored DEF FinishInfoMigration, Put, SameArray
  <1>9. QED
    BY <1>1, <1>2, <1>3, <1>4, <1>5, <1>6, <1>7, <1>8 DEF LibraryStep

\* No id is in two slots.
Distinct(a) == \A r, s \in Slots : a[r] = a[s] /\ r # s => a[r] = kInvalidEndpointId

\* Clearing one slot in use takes its id out of the array.
LEMMA SlotTaken ==
    ASSUME NEW a \in [Slots -> EndpointId], Distinct(a),
           NEW s \in Slots, a[s] # kInvalidEndpointId,
           NEW b, b = [a EXCEPT ![s] = kInvalidEndpointId]
    PROVE  Distinct(b) /\ Stored(b) = Stored(a) \ {a[s]}
  <1>1. b[s] = kInvalidEndpointId /\ \A r \in Slots \ {s} : b[r] = a[r]
    OBVIOUS
  <1>2. \A r \in Slots \ {s} : a[r] # a[s]
    BY DEF Distinct
  <1>3. Stored(b) = Stored(a) \ {a[s]}
    BY <1>1, <1>2 DEF Stored
  <1>4. Distinct(b)
    BY <1>1 DEF Distinct
  <1>5. QED
    BY <1>3, <1>4

\* Writing a new id into a free slot adds it to the array.
LEMMA SlotFilled ==
    ASSUME NEW a \in [Slots -> EndpointId], Distinct(a),
           NEW s \in Slots, a[s] = kInvalidEndpointId,
           NEW id \in EndpointId, id # kInvalidEndpointId, id \notin Stored(a),
           NEW b, b = [a EXCEPT ![s] = id]
    PROVE  Distinct(b) /\ Stored(b) = Stored(a) \cup {id}
  <1>1. b[s] = id /\ \A r \in Slots \ {s} : b[r] = a[r]
    OBVIOUS
  <1>2. \A r \in Slots : a[r] # id
    BY DEF Stored
  <1>3. Stored(b) = Stored(a) \cup {id}
    BY <1>1 DEF Stored
  <1>4. Distinct(b)
    BY <1>1, <1>2 DEF Distinct
  <1>5. QED
    BY <1>3, <1>4

\* Clearing every slot that holds an id takes it out of the array.
LEMMA SlotsCleared ==
    ASSUME NEW a \in [Slots -> EndpointId], Distinct(a), NEW id,
           NEW b, b = [s \in Slots |-> IF a[s] = id THEN kInvalidEndpointId ELSE a[s]]
    PROVE  Distinct(b) /\ Stored(b) = Stored(a) \ {id}
  <1>1. \A s \in Slots : b[s] = IF a[s] = id THEN kInvalidEndpointId ELSE a[s]
    OBVIOUS
  <1>2. Stored(b) = Stored(a) \ {id}
    BY <1>1 DEF Stored
  <1>3. Distinct(b)
    BY <1>1 DEF Distinct
  <1>4. QED
    BY <1>2, <1>3

\* The array without ids.
LEMMA NoneStored == Stored(NoArray) = {} /\ Distinct(NoArray)
  BY DEF Stored, Distinct, NoArray

\* What the earlier invariants say of ids: those of the live endpoints are
\* distinct and below the counter, those of bridged ones above the image's.
LEMMA BridgeIdFacts ==
    ASSUME TableTypeOK, BridgeTypeOK, ReservedInv, StaticInv, ArrayInv
    PROVE  /\ minUnused \in Nat /\ minUnused <= kInvalidEndpointId /\ Len(image) \in Nat
           /\ \A h \in Live : endpoints[h].id \in EndpointId /\ endpoints[h].id < minUnused
           /\ \A h \in Live : endpoints[h].parent \in EndpointId
           /\ \A h \in Bridged : h \in Live /\ Len(image) <= endpoints[h].id
           /\ \A g, h \in Live : endpoints[g].id = endpoints[h].id => g = h
           /\ StoredIds \subseteq EndpointId /\ StoredIds \subseteq DOMAIN nvInfo
           /\ phase = "up" /\ nvMin # NotFound => nvMin = minUnused
           /\ phase # "boot" => Len(image) <= minUnused
  <1>1. TableTypeOK /\ BridgeTypeOK /\ CounterAbove /\ UniqueIds
    BY DEF ReservedInv, UniqueInv
  <1>2. minUnused \in Nat /\ minUnused <= kInvalidEndpointId /\ Len(image) \in Nat
    BY SMT, <1>1, ImageLength, IdRange DEF TableTypeOK, EndpointId
  <1>3. \A h \in Live : /\ endpoints[h].id \in EndpointId /\ endpoints[h].id < minUnused
                        /\ endpoints[h].parent \in EndpointId
    BY <1>1 DEF TableTypeOK, Endpoint, CounterAbove
  <1>4. \A g, h \in Live : endpoints[g].id = endpoints[h].id => g = h
    BY <1>1 DEF UniqueIds
  <1>5. ASSUME NEW h \in Bridged PROVE h \in Live /\ Len(image) <= endpoints[h].id
    <2>1. h \in Live /\ phase # "boot" /\ endpoints[h].id \in Nat
      BY <1>3, IdRange DEF Bridged, StaticInv
    <2>2. ASSUME endpoints[h].id < Len(image) PROVE FALSE
      <3>1. PICK g \in Live \ Bridged : endpoints[g].id = endpoints[h].id
        BY <2>1, <2>2 DEF StaticInv
      <3>2. QED
        BY <1>4, <2>1, <3>1
    <2>3. QED
      BY SMT, <1>2, <2>1, <2>2
  <1>6. StoredIds \subseteq EndpointId /\ StoredIds \subseteq DOMAIN nvInfo
    <2>1. StoredIds \subseteq DOMAIN nvInfo
      BY DEF ArrayInv
    <2>2. DOMAIN nvInfo \subseteq EndpointId
      BY <1>1 DEF BridgeTypeOK, OfIds
    <2>3. QED
      BY <2>1, <2>2
  <1>7. phase = "up" /\ nvMin # NotFound => nvMin = minUnused
    BY DEF ReservedInv
  <1>8. phase # "boot" => Len(image) <= minUnused
    BY <1>1 DEF CounterAbove
  <1>9. QED
    BY <1>2, <1>3, <1>4, <1>5, <1>6, <1>7, <1>8

\* A step that leaves the list alone keeps what is read from it.
LEMMA SameTable ==
    ASSUME UNCHANGED tableVars
    PROVE  /\ Live' = Live /\ Bridged' = Bridged /\ LiveIds' = LiveIds
           /\ UNCHANGED <<endpoints, image, phase, minUnused, nvMin>>
  BY DEF tableVars, Live, Bridged, LiveIds

\* An update keeps the device types of the image it replaces.
TypesKept == \A u \in Upgrades : Supported[u[1]] \subseteq Supported[u[2]]

=============================================================================
