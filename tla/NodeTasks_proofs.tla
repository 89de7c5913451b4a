-------------------------- MODULE NodeTasks_proofs --------------------------
(***************************************************************************)
(* Proofs about the stack lock and the endpoint list as NodeTasks uses     *)
(* them, for every number of tasks, endpoints and calls.  The scopes of    *)
(* the lock nest.  If the callers keep to the discipline of                *)
(* docs/en/faq.rst, the task inside a call is the one that holds the lock  *)
(* at each access it makes, no task follows a pointer to a freed endpoint, *)
(* and the init callbacks of an endpoint run once.                         *)
(***************************************************************************)
EXTENDS NodeTasks, TLAPS

\* The leaves are for Zenon; those that need arithmetic cite SMT.
USE Zenon

LockInv == LockTypeOK /\ HeldByOutermost

-----------------------------------------------------------------------------
(* The scopes *)

\* The first n elements of a sequence.
LEMMA Shortened ==
    ASSUME NEW S, NEW s, NEW n \in Nat, \A i \in 1 .. n : s[i] \in S
    PROVE  /\ SubSeq(s, 1, n) \in Seq(S) /\ Len(SubSeq(s, 1, n)) = n
           /\ \A i \in 1 .. n : SubSeq(s, 1, n)[i] = s[i]
  BY SMT

LEMMA EmptyIff == ASSUME NEW S, NEW s \in Seq(S) PROVE s = <<>> <=> Len(s) = 0
  BY SMT

\* Opening a scope: the new one is the last of its task.
LEMMA LockStep ==
    ASSUME LockInv, NEW t \in Task, Lock(t)
    PROVE  /\ LockInv'
           /\ Len(scopes'[t]) = Len(scopes[t]) + 1 /\ Len(scopes[t]) \in Nat
           /\ \A u \in Task \ {t} : scopes'[u] = scopes[u]
<1>. DEFINE s == IF holder = t THEN "ALREADY_TAKEN" ELSE "SUCCESS"
<1>1. /\ scopes[t] \in Seq(Status) /\ s \in Status /\ Len(scopes[t]) \in Nat
      /\ scopes' = [scopes EXCEPT ![t] = Append(scopes[t], s)]
      /\ holder' = t /\ holder \in {NoTask, t} /\ t # NoTask
  BY SMT, StackLockAssumption DEF LockInv, LockTypeOK, Lock, Status
<1>2. s = "SUCCESS" <=> Len(scopes[t]) = 0
  <2>1. holder = t <=> scopes[t] # <<>>
    BY DEF LockInv, HeldByOutermost
  <2>2. scopes[t] = <<>> <=> Len(scopes[t]) = 0
    BY SMT, <1>1
  <2>. QED
    BY <2>1, <2>2
<1>. HIDE DEF s
<1>3. /\ Append(scopes[t], s) \in Seq(Status) /\ Append(scopes[t], s) # <<>>
      /\ Len(Append(scopes[t], s)) = Len(scopes[t]) + 1
      /\ \A i \in 1 .. Len(scopes[t]) : Append(scopes[t], s)[i] = scopes[t][i]
      /\ Append(scopes[t], s)[Len(scopes[t]) + 1] = s
  BY SMT, <1>1
<1>4. scopes'[t] = Append(scopes[t], s) /\ \A u \in Task \ {t} : scopes'[u] = scopes[u]
  BY <1>1 DEF LockInv, LockTypeOK
<1>5. LockTypeOK'
  BY <1>1, <1>3 DEF LockInv, LockTypeOK
<1>6. ASSUME NEW u \in Task
      PROVE  /\ holder' = u <=> scopes'[u] # <<>>
             /\ \A i \in 1 .. Len(scopes'[u]) : scopes'[u][i] = "SUCCESS" <=> i = 1
  <2>1. CASE u = t
    <3>1. \A i \in 1 .. Len(scopes[t]) + 1 : Append(scopes[t], s)[i] = "SUCCESS" <=> i = 1
      BY SMT, <1>1, <1>2, <1>3 DEF LockInv, HeldByOutermost
    <3>. QED
      BY <1>1, <1>3, <1>4, <2>1, <3>1
  <2>2. CASE u # t
    BY SMT, <1>1, <1>4, <2>2, StackLockAssumption DEF LockInv, HeldByOutermost
  <2>. QED
    BY <2>1, <2>2
<1>. QED
  BY <1>1, <1>3, <1>4, <1>5, <1>6 DEF LockInv, HeldByOutermost

\* Closing a scope: the mutex is given back with the outermost one.
LEMMA UnlockStep ==
    ASSUME LockInv, NEW t \in Task, Unlock(t)
    PROVE  /\ LockInv'
           /\ Len(scopes'[t]) = Len(scopes[t]) - 1
           /\ \A u \in Task \ {t} : scopes'[u] = scopes[u]
<1>. DEFINE n == Len(scopes[t])
            rest == SubSeq(scopes[t], 1, n - 1)
<1>1. /\ scopes[t] \in Seq(Status) /\ scopes[t] # <<>> /\ n \in Nat /\ n > 0
      /\ scopes' = [scopes EXCEPT ![t] = rest]
      /\ holder' = IF scopes[t][n] = "SUCCESS" THEN NoTask ELSE holder
      /\ holder = t /\ t # NoTask
      /\ scopes[t][n] = "SUCCESS" <=> n = 1
  <2>1. scopes[t] \in Seq(Status) /\ scopes[t] # <<>>
    BY DEF LockInv, LockTypeOK, Unlock
  <2>2. n \in Nat /\ n > 0
    BY SMT, <2>1
  <2>3. n \in 1 .. Len(scopes[t])
    BY SMT, <2>2
  <2>4. (scopes[t][n] = "SUCCESS" <=> n = 1) /\ holder = t
    BY <2>1, <2>3 DEF LockInv, HeldByOutermost
  <2>5. /\ scopes' = [scopes EXCEPT ![t] = rest]
        /\ holder' = IF scopes[t][n] = "SUCCESS" THEN NoTask ELSE holder
    BY DEF Unlock
  <2>. QED
    BY <2>1, <2>2, <2>4, <2>5, StackLockAssumption
<1>2. /\ rest \in Seq(Status) /\ Len(rest) = n - 1 /\ (rest = <<>> <=> n = 1)
      /\ \A i \in 1 .. n - 1 : rest[i] = scopes[t][i]
  <2>1. \A i \in 1 .. n - 1 : scopes[t][i] \in Status
    BY SMT, <1>1
  <2>2. /\ rest \in Seq(Status) /\ Len(rest) = n - 1
        /\ \A i \in 1 .. n - 1 : rest[i] = scopes[t][i]
    <3>1. n - 1 \in Nat
      BY SMT, <1>1
    <3>2. rest = SubSeq(scopes[t], 1, n - 1)
      OBVIOUS
    <3>. HIDE DEF rest, n
    <3>3. QED
      BY SMT, <2>1, <3>1, <3>2, Shortened
  <2>. HIDE DEF rest, n
  <2>3. rest = <<>> <=> Len(rest) = 0
    BY <2>2, EmptyIff
  <2>. QED
    BY SMT, <1>1, <2>2, <2>3
<1>. HIDE DEF rest, n
<1>3. scopes'[t] = rest /\ \A u \in Task \ {t} : scopes'[u] = scopes[u]
  BY <1>1 DEF LockInv, LockTypeOK
<1>4. LockTypeOK'
  BY <1>1, <1>2 DEF LockInv, LockTypeOK
<1>5. ASSUME NEW u \in Task
      PROVE  /\ holder' = u <=> scopes'[u] # <<>>
             /\ \A i \in 1 .. Len(scopes'[u]) : scopes'[u][i] = "SUCCESS" <=> i = 1
  <2>1. CASE u = t
    <3>1. \A i \in 1 .. n - 1 : scopes[t][i] = "SUCCESS" <=> i = 1
      BY SMT, <1>1 DEF LockInv, HeldByOutermost, n
    <3>. QED
      BY SMT, <1>1, <1>2, <1>3, <2>1, <3>1
  <2>2. CASE u # t
    BY SMT, <1>1, <1>3, <2>2, StackLockAssumption DEF LockInv, HeldByOutermost
  <2>. QED
    BY <2>1, <2>2
<1>. QED
  BY <1>2, <1>3, <1>4, <1>5 DEF LockInv, HeldByOutermost, n

\* No scope is open at boot.
LEMMA LockReset ==
    /\ LockInit => LockInv
    /\ holder' = NoTask /\ scopes' = [t \in Task |-> <<>>] => LockInv'
<1>1. ASSUME NEW h, NEW s, h = NoTask, s = [t \in Task |-> <<>>]
      PROVE  /\ h \in Task \cup {NoTask} /\ s \in [Task -> Seq(Status)]
             /\ \A t \in Task : /\ h = t <=> s[t] # <<>>
                                /\ \A i \in 1 .. Len(s[t]) : s[t][i] = "SUCCESS" <=> i = 1
  BY SMT, <1>1, StackLockAssumption
<1>. QED
  BY SMT, <1>1 DEF LockInit, LockInv, LockTypeOK, HeldByOutermost

-----------------------------------------------------------------------------
(* The scopes a task has open at each access, under the discipline *)

Outside == {"idle", "image", "wait", "read", "store"}
Inside == {"dispatch", "enable_all", "serve", "leave",
           "create", "take", "bump", "save", "walk", "link", "build", "enable", "init lock",
           "resume", "destroy", "report lock", "find", "shutdown lock", "clusters", "unlink",
           "free", "update", "set lock", "return"}
Nested == {"init", "report", "shutdown", "set"}

\* All callers hold the lock around their calls.
Disciplined == {"create", "resume", "destroy", "update"} \subseteq Holding

\* The task goes on from one of the labels A to one of the labels B.
Moves(t, A, B) == pc[t] \in A /\ \E l \in B : pc' = [pc EXCEPT ![t] = l]

\* The number of scopes open at label l.
LenOK(l, s) ==
    /\ l \in Outside => Len(s) = 0
    /\ l \in Inside => Len(s) = 1
    /\ l \in Nested => Len(s) = 2

DepthInv ==
    /\ pc \in [Task -> Outside \cup Inside \cup Nested]
    /\ Disciplined => \A t \in Task : LenOK(pc[t], scopes[t])

IInv == LockInv /\ DepthInv

\* A task that is inside a call, or dispatches an event, holds the stack lock:
\* no two tasks are between two accesses of a call at the same time.
OneInside ==
    \A t \in Task : pc[t] \notin Outside => holder = t

\* No two tasks are in the middle of a call, or of a dispatched event, at once,
\* however the tasks bring that about.
NoOverlap ==
    \A t, u \in Task : pc[t] \notin Outside /\ pc[u] \notin Outside => t = u

LEMMA Labels ==
    Outside \cap Inside = {} /\ Outside \cap Nested = {} /\ Inside \cap Nested = {}
BY DEF Outside, Inside, Nested

LEMMA DepthOf ==
    ASSUME IInv, Disciplined, NEW t \in Task
    PROVE  /\ pc[t] \in Inside => Len(scopes[t]) = 1
           /\ pc[t] \in Nested => Len(scopes[t]) = 2
BY DEF IInv, DepthInv, LenOK

LEMMA InsideHolds ==
    ASSUME IInv, Disciplined, NEW t \in Task, pc[t] \notin Outside
    PROVE  holder = t
<1>0. pc[t] \in Inside \/ pc[t] \in Nested
  BY DEF IInv, DepthInv
<1>1. Len(scopes[t]) # 0
  BY SMT, <1>0, DepthOf
<1>2. scopes[t] # <<>>
  BY SMT, <1>1
<1>. QED
  BY <1>2 DEF IInv, LockInv, HeldByOutermost

\* An access that neither opens nor closes a scope.
LEMMA QuietPreserves ==
    ASSUME IInv, NEW t \in Task, UNCHANGED lockVars,
           Moves(t, Outside, Outside) \/ Moves(t, Inside, Inside)
    PROVE  IInv'
<1>1. LockInv' /\ scopes' = scopes
  BY DEF IInv, LockInv, LockTypeOK, HeldByOutermost, lockVars
<1>2. DepthInv'
  BY SMT, <1>1, Labels DEF IInv, DepthInv, LenOK, Moves
<1>. QED
  BY <1>1, <1>2 DEF IInv

\* An access that opens a scope, and one that closes a scope.
LEMMA LockPreserves ==
    ASSUME IInv, NEW t \in Task, Lock(t),
           Moves(t, Outside, Inside) \/ Moves(t, Inside, Nested)
    PROVE  IInv'
<1>1. /\ LockInv' /\ Len(scopes'[t]) = Len(scopes[t]) + 1 /\ Len(scopes[t]) \in Nat
      /\ \A u \in Task \ {t} : scopes'[u] = scopes[u]
  BY LockStep DEF IInv
<1>2. PICK l : /\ pc' = [pc EXCEPT ![t] = l]
               /\ ((pc[t] \in Outside /\ l \in Inside) \/ (pc[t] \in Inside /\ l \in Nested))
  BY DEF Moves
<1>3. /\ pc' \in [Task -> Outside \cup Inside \cup Nested]
      /\ pc'[t] = l /\ \A u \in Task \ {t} : pc'[u] = pc[u]
  BY <1>2 DEF IInv, DepthInv
<1>4. ASSUME Disciplined, NEW u \in Task
      PROVE  LenOK(pc'[u], scopes'[u])
  <2>0. LenOK(pc[u], scopes[u])
    BY <1>4 DEF IInv, DepthInv
  <2>1. CASE u = t
    <3>1. \/ l \in Inside /\ Len(scopes'[t]) = 1
          \/ l \in Nested /\ Len(scopes'[t]) = 2
      <4>1. \/ l \in Inside /\ Len(scopes[t]) = 0
            \/ l \in Nested /\ Len(scopes[t]) = 1
        BY <1>2, <2>0, <2>1 DEF LenOK
      <4>. DEFINE a == Len(scopes[t])
                  b == Len(scopes'[t])
      <4>2. b = a + 1 /\ a \in Nat
        BY <1>1
      <4>3. (a = 0 => b = 1) /\ (a = 1 => b = 2)
        <5>. HIDE DEF a, b
        <5>. QED
          BY SMT, <4>2
      <4>. QED
        BY <4>1, <4>3
    <3>2. LenOK(l, scopes'[t])
      BY <3>1, Labels DEF LenOK
    <3>. QED
      BY <1>3, <2>1, <3>2
  <2>2. CASE u # t
    BY <1>1, <1>3, <2>0, <2>2
  <2>. QED
    BY <2>1, <2>2
<1>5. DepthInv'
  BY <1>3, <1>4 DEF DepthInv, Disciplined
<1>. QED
  BY <1>1, <1>5 DEF IInv

LEMMA UnlockPreserves ==
    ASSUME IInv, NEW t \in Task, Unlock(t),
           Moves(t, Inside, Outside) \/ Moves(t, Nested, Inside)
    PROVE  IInv'
<1>1. LockInv' /\ Len(scopes'[t]) = Len(scopes[t]) - 1 /\ \A u \in Task \ {t} : scopes'[u] = scopes[u]
  BY UnlockStep DEF IInv
<1>2. PICK l : /\ pc' = [pc EXCEPT ![t] = l]
               /\ ((pc[t] \in Inside /\ l \in Outside) \/ (pc[t] \in Nested /\ l \in Inside))
  BY DEF Moves
<1>3. /\ pc' \in [Task -> Outside \cup Inside \cup Nested]
      /\ pc'[t] = l /\ \A u \in Task \ {t} : pc'[u] = pc[u]
  BY <1>2 DEF IInv, DepthInv
<1>4. ASSUME Disciplined, NEW u \in Task
      PROVE  LenOK(pc'[u], scopes'[u])
  <2>0. LenOK(pc[u], scopes[u])
    BY <1>4 DEF IInv, DepthInv
  <2>1. CASE u = t
    <3>1. \/ l \in Outside /\ Len(scopes'[t]) = 0
          \/ l \in Inside /\ Len(scopes'[t]) = 1
      BY SMT, <1>1, <1>2, <2>0, <2>1 DEF LenOK
    <3>2. LenOK(l, scopes'[t])
      BY <3>1, Labels DEF LenOK
    <3>. QED
      BY <1>3, <2>1, <3>2
  <2>2. CASE u # t
    BY <1>1, <1>3, <2>0, <2>2
  <2>. QED
    BY <2>1, <2>2
<1>5. DepthInv'
  BY <1>3, <1>4 DEF DepthInv, Disciplined
<1>. QED
  BY <1>1, <1>5 DEF IInv

\* A call, or its return, without a scope of the caller.
LEMMA Undisciplined ==
    ASSUME IInv, NEW t \in Task, UNCHANGED lockVars, ~ Disciplined,
           Moves(t, Outside, Inside) \/ Moves(t, Inside, Outside)
    PROVE  IInv'
<1>1. LockInv'
  BY DEF IInv, LockInv, LockTypeOK, HeldByOutermost, lockVars
<1>2. DepthInv'
  BY DEF IInv, DepthInv, Moves, Disciplined
<1>. QED
  BY <1>1, <1>2 DEF IInv

\* start() and the Matter task.
LEMMA StartPreserves ==
    ASSUME IInv, Start \/ MatterTask
    PROVE  IInv'
<1>0. Main \in Task /\ Matter \in Task
  BY TasksAssumption
<1>1. CASE UNCHANGED <<lockVars, pc>>
  BY <1>1 DEF IInv, LockInv, LockTypeOK, HeldByOutermost, DepthInv, lockVars
<1>2. CASE CreateStatic \/ ServeNext
  BY <1>1, <1>2 DEF CreateStatic, ServeNext, callVars
<1>3. CASE ServerInit \/ EnableAll \/ Serve
  <2>1. Moves(Matter, Inside, Inside) /\ UNCHANGED lockVars
    BY <1>3 DEF ServerInit, EnableAll, Serve, Goto, Inside, Moves
  <2>. QED
    BY <1>0, <2>1, QuietPreserves
<1>4. CASE ChipInit \/ Started \/ ReadMin \/ StoreMin
  <2>1. Moves(Main, Outside, Outside) /\ UNCHANGED lockVars
    BY <1>4 DEF ChipInit, Started, ReadMin, StoreMin, Goto, Outside, Moves
  <2>. QED
    BY <1>0, <2>1, QuietPreserves
<1>5. CASE Dispatch
  <2>1. Moves(Matter, Outside, Inside) /\ Lock(Matter)
    BY <1>5 DEF Dispatch, Goto, Outside, Inside, Moves
  <2>. QED
    BY <1>0, <2>1, LockPreserves
<1>6. CASE Leave
  <2>1. Moves(Matter, Inside, Outside) /\ Unlock(Matter)
    BY <1>6 DEF Leave, Goto, Outside, Inside, Moves
  <2>. QED
    BY <1>0, <2>1, UnlockPreserves
<1>. QED
  BY <1>2, <1>3, <1>4, <1>5, <1>6 DEF Start, MatterTask

\* The calls of an application task.
LEMMA CallPreserves ==
    ASSUME IInv, NEW t \in Task, Calls(t) \/ CallStep(t)
    PROVE  IInv'
<1>1. ASSUME NEW l \in {"create", "resume", "destroy", "update"}, Call(t, l)
      PROVE  IInv'
  <2>1. Moves(t, Outside, Inside)
    BY <1>1 DEF Call, Goto, Outside, Inside, Moves
  <2>2. CASE l \in Holding
    <3>1. Lock(t)
      BY <1>1, <2>2 DEF Call
    <3>. QED
      BY <2>1, <3>1, LockPreserves
  <2>3. CASE l \notin Holding
    <3>1. UNCHANGED lockVars /\ ~ Disciplined
      BY <1>1, <2>3 DEF Call, Disciplined
    <3>. QED
      BY <2>1, <3>1, Undisciplined
  <2>. QED
    BY <2>2, <2>3
<1>2. CASE \/ CreateCount(t) \/ CreateTake(t) \/ CreateBump(t) \/ CreateSave(t) \/ ResumeSearch(t)
           \/ AppendWalk(t) \/ AppendLink(t) \/ Build(t) \/ EnableFlag(t)
  <2>1. Moves(t, Inside, Inside) /\ UNCHANGED lockVars
    BY <1>2 DEF CreateCount, CreateTake, CreateBump, CreateSave, ResumeSearch, AppendWalk, AppendLink,
       Build, EnableFlag, Quiet, Goto, Inside, Moves
  <2>. QED
    BY <2>1, QuietPreserves
<1>3. CASE \/ DestroyFlag(t) \/ DestroyFind(t) \/ DestroyClusters(t) \/ DestroyUnlink(t)
           \/ DestroyFree(t) \/ UpdateLookup(t)
  <2>1. Moves(t, Inside, Inside) /\ UNCHANGED lockVars
    BY <1>3 DEF DestroyFlag, DestroyFind, DestroyClusters, DestroyUnlink, DestroyFree, UpdateLookup,
       Quiet, Goto, Inside, Moves
  <2>. QED
    BY <2>1, QuietPreserves
<1>4. ASSUME NEW l \in Inside, NEW inside \in Nested, Enter(t, l, inside)
      PROVE  IInv'
  <2>1. Moves(t, Inside, Nested) /\ Lock(t)
    BY <1>4 DEF Enter, Goto, Moves
  <2>. QED
    BY <2>1, LockPreserves
<1>5. ASSUME NEW inside \in Nested, NEW l \in Inside, Within(t, inside, l)
      PROVE  IInv'
  <2>1. Moves(t, Nested, Inside) /\ Unlock(t)
    BY <1>5 DEF Within, Goto, Moves
  <2>. QED
    BY <2>1, UnlockPreserves
<1>6. CASE Return(t)
  <2>1. Moves(t, Inside, Outside)
    BY <1>6 DEF Return, Goto, Outside, Inside, Moves
  <2>2. CASE scopes[t] # <<>>
    <3>1. Unlock(t)
      BY <1>6, <2>2 DEF Return
    <3>. QED
      BY <2>1, <3>1, UnlockPreserves
  <2>3. CASE scopes[t] = <<>>
    <3>1. UNCHANGED lockVars /\ Len(scopes[t]) # 1
      BY SMT, <1>6, <2>3 DEF Return
    <3>2. ~ Disciplined
      BY <2>1, <3>1, DepthOf DEF Moves
    <3>. QED
      BY <2>1, <3>1, <3>2, Undisciplined
  <2>. QED
    BY <2>2, <2>3
<1>7. /\ {"init lock", "report lock", "shutdown lock", "set lock", "find", "clusters", "return"} \subseteq Inside
      /\ {"init", "report", "shutdown", "set"} \subseteq Nested
  BY DEF Inside, Nested
<1>8. CASE \/ EnableInit(t) \/ DestroyReport(t) \/ DestroyShutdown(t) \/ UpdateSet(t)
  BY <1>5, <1>7, <1>8 DEF EnableInit, DestroyReport, DestroyShutdown, UpdateSet
<1>. QED
  BY <1>1, <1>2, <1>3, <1>4, <1>6, <1>7, <1>8 DEF Calls, CallStep

LEMMA Invariant == Spec => []IInv
<1>0. \A l \in Outside : LenOK(l, <<>>)
  BY Labels DEF LenOK
<1>1. ASSUME Init
      PROVE  IInv
  <2>1. LockInv /\ \A t \in Task : scopes[t] = <<>>
    BY <1>1, LockReset DEF Init, LockInit
  <2>2. pc \in [Task -> Outside]
    BY <1>1 DEF Init, Outside
  <2>. QED
    BY <1>0, <2>1, <2>2 DEF IInv, DepthInv
<1>2. ASSUME IInv, Reboot
      PROVE  IInv'
  <2>1. LockInv' /\ \A t \in Task : scopes'[t] = <<>>
    BY <1>2, LockReset DEF Reboot
  <2>2. pc' \in [Task -> Outside]
    BY <1>2 DEF Reboot, Outside
  <2>. QED
    BY <1>0, <2>1, <2>2 DEF IInv, DepthInv
<1>3. ASSUME IInv, UNCHANGED vars
      PROVE  IInv'
  BY <1>3 DEF vars, lockVars, callVars, IInv, LockInv, LockTypeOK, HeldByOutermost, DepthInv
<1>4. IInv /\ [Next]_vars => IInv'
  BY <1>2, <1>3, StartPreserves, CallPreserves DEF Next, App
<1>. QED
  BY <1>1, <1>4, PTL DEF Spec

\* The scopes of ScopedChipStackLock nest, whatever tasks call what, with or
\* without a scope of their own around a call: the mutex belongs to the task
\* with a scope open, and its outermost scope is the one that took it.
THEOREM ScopesNest == Spec => []HeldByOutermost
<1>1. IInv => HeldByOutermost
  BY DEF IInv, LockInv
<1>. QED
  BY <1>1, Invariant, PTL

\* If all callers hold the lock around their calls, every access a call makes
\* (also the ones endpoint::create and destroy make outside their own scopes)
\* is made by the task that holds the lock, and so no two calls overlap.  (The
\* calls do not see to this: their own scopes cover parts of them only.)
THEOREM DisciplineExcludes ==
    ASSUME Disciplined
    PROVE  Spec => [](OneInside /\ NoOverlap)
<1>1. IInv => OneInside
  BY InsideHolds DEF OneInside
<1>2. OneInside => NoOverlap
  BY DEF OneInside, NoOverlap
<1>. QED
  BY <1>1, <1>2, Invariant, PTL

-----------------------------------------------------------------------------
(* The list, as a function nx from cells to cells *)

ClosedIn(nx) == {S \in SUBSET Handle : \A c \in S \cup {ListHead} : nx[c] \in S \cup {Nil}}
ListedIn(nx) == {h \in Handle : \A S \in ClosedIn(nx) : h \in S}
CellsIn(nx) == ListedIn(nx) \cup {ListHead}

\* The list ends, and no two of its cells lead to the same one.
Chain(nx) ==
    /\ \E c \in CellsIn(nx) : nx[c] = Nil
    /\ \A c, d \in CellsIn(nx) : nx[c] = nx[d] /\ nx[c] # Nil => c = d

NextType == [Cell -> Handle \cup {Nil}]

\* The list is closed under the next pointers.
LEMMA ReachClosed ==
    ASSUME NEW nx \in NextType
    PROVE  /\ ListedIn(nx) \subseteq Handle /\ CellsIn(nx) \subseteq Cell
           /\ \A c \in CellsIn(nx) : nx[c] \in ListedIn(nx) \cup {Nil}
<1>1. ListedIn(nx) \subseteq Handle /\ CellsIn(nx) \subseteq Cell
  BY DEF ListedIn, CellsIn, Cell
<1>2. ASSUME NEW c \in CellsIn(nx), nx[c] # Nil
      PROVE  nx[c] \in ListedIn(nx)
  <2>1. nx[c] \in Handle
    BY <1>1, <1>2 DEF NextType
  <2>2. ASSUME NEW S \in ClosedIn(nx)
        PROVE  nx[c] \in S
    <3>1. c \in S \cup {ListHead}
      BY DEF CellsIn, ListedIn
    <3>. QED
      BY <1>2, <3>1 DEF ClosedIn
  <2>. QED
    BY <2>1, <2>2 DEF ListedIn
<1>. QED
  BY <1>1, <1>2

\* It is the smallest set that is.
LEMMA ReachLeast ==
    ASSUME NEW nx, NEW S \in SUBSET Handle, \A c \in S \cup {ListHead} : nx[c] \in S \cup {Nil}
    PROVE  ListedIn(nx) \subseteq S
BY DEF ListedIn, ClosedIn

\* Every object in it is the next one of some cell.
LEMMA ReachPred ==
    ASSUME NEW nx \in NextType, NEW h \in ListedIn(nx)
    PROVE  \E c \in CellsIn(nx) : nx[c] = h
<1>. SUFFICES ASSUME \A c \in CellsIn(nx) : nx[c] # h PROVE FALSE
  OBVIOUS
<1>. DEFINE S == ListedIn(nx) \ {h}
<1>1. S \in SUBSET Handle
  BY ReachClosed
<1>2. \A c \in S \cup {ListHead} : nx[c] \in S \cup {Nil}
  BY ReachClosed DEF CellsIn
<1>. HIDE DEF S
<1>3. ListedIn(nx) \subseteq S
  BY <1>1, <1>2, ReachLeast
<1>. QED
  BY <1>3 DEF S

\* A pointer of an object that is not in the list does not matter to it.
LEMMA ReachOther ==
    ASSUME NEW nx \in NextType, NEW h \in Handle \ ListedIn(nx), NEW ny,
           ny = [nx EXCEPT ![h] = Nil]
    PROVE  /\ ny \in NextType /\ ListedIn(ny) = ListedIn(nx) /\ ny[h] = Nil
           /\ \A c \in CellsIn(nx) : ny[c] = nx[c]
           /\ Chain(nx) => Chain(ny)
<1>1. ny \in NextType /\ ny[h] = Nil /\ h \in Cell
  BY DEF NextType, Cell
<1>2. \A c \in CellsIn(nx) : c # h /\ ny[c] = nx[c]
  BY ReachClosed, TasksAssumption DEF CellsIn, NextType
<1>3. ListedIn(ny) \subseteq ListedIn(nx)
  <2>1. \A c \in ListedIn(nx) \cup {ListHead} : ny[c] \in ListedIn(nx) \cup {Nil}
    BY <1>2, ReachClosed DEF CellsIn
  <2>2. ListedIn(nx) \in SUBSET Handle
    BY ReachClosed
  <2>. QED
    BY <2>1, <2>2, ReachLeast
<1>4. ListedIn(nx) \subseteq ListedIn(ny)
  <2>1. \A c \in ListedIn(ny) \cup {ListHead} : nx[c] \in ListedIn(ny) \cup {Nil}
    BY <1>1, <1>2, <1>3, ReachClosed DEF CellsIn
  <2>2. ListedIn(ny) \in SUBSET Handle
    BY <1>1, ReachClosed
  <2>. QED
    BY <2>1, <2>2, ReachLeast
<1>5. CellsIn(ny) = CellsIn(nx)
  BY <1>3, <1>4 DEF CellsIn
<1>6. Chain(nx) => Chain(ny)
  BY <1>2, <1>5 DEF Chain
<1>. QED
  BY <1>1, <1>2, <1>3, <1>4, <1>6

\* SinglyLinkedList::append: the new object comes last.
LEMMA ReachAppend ==
    ASSUME NEW nx \in NextType, Chain(nx), NEW a \in CellsIn(nx), nx[a] = Nil,
           NEW m \in Handle \ ListedIn(nx), nx[m] = Nil,
           NEW ny, ny = [nx EXCEPT ![a] = m]
    PROVE  ny \in NextType /\ ListedIn(ny) = ListedIn(nx) \cup {m} /\ Chain(ny)
<1>1. /\ ny \in NextType /\ a \in Cell /\ m \in Cell /\ ny[a] = m /\ m # Nil /\ a # m
      /\ \A c \in Cell \ {a} : ny[c] = nx[c]
  BY ReachClosed, TasksAssumption DEF NextType, Cell, CellsIn
<1>2. CellsIn(nx) \subseteq Cell /\ \A c \in CellsIn(nx) : nx[c] \in ListedIn(nx) \cup {Nil}
  BY ReachClosed
<1>3. ListedIn(ny) \subseteq ListedIn(nx) \cup {m}
  <2>. DEFINE S == ListedIn(nx) \cup {m}
  <2>1. \A c \in S \cup {ListHead} : ny[c] \in S \cup {Nil}
    BY <1>1, <1>2 DEF CellsIn
  <2>2. S \in SUBSET Handle
    BY ReachClosed
  <2>. HIDE DEF S
  <2>3. ListedIn(ny) \subseteq S
    BY <2>1, <2>2, ReachLeast
  <2>. QED
    BY <2>3 DEF S
<1>4. ListedIn(nx) \subseteq ListedIn(ny)
  <2>. DEFINE S == ListedIn(ny) \ {m}
  <2>1. ASSUME NEW c \in S \cup {ListHead}
        PROVE  nx[c] \in S \cup {Nil}
    <3>1. c \in CellsIn(nx) /\ c \in CellsIn(ny)
      BY <1>3 DEF CellsIn
    <3>2. CASE c = a
      BY <3>2
    <3>3. CASE c # a
      <4>1. nx[c] = ny[c] /\ ny[c] \in ListedIn(ny) \cup {Nil} /\ nx[c] # m
        BY <1>1, <1>2, <3>1, <3>3, ReachClosed
      <4>. QED
        BY <4>1
    <3>. QED
      BY <3>2, <3>3
  <2>2. S \in SUBSET Handle
    BY <1>1, ReachClosed
  <2>3. \A c \in S \cup {ListHead} : nx[c] \in S \cup {Nil}
    BY <2>1
  <2>. HIDE DEF S
  <2>4. ListedIn(nx) \subseteq S
    BY <2>2, <2>3, ReachLeast
  <2>. QED
    BY <2>4 DEF S
<1>5. m \in ListedIn(ny)
  <2>1. a \in CellsIn(ny)
    BY <1>4 DEF CellsIn
  <2>. QED
    BY <1>1, <2>1, ReachClosed
<1>6. CellsIn(ny) = CellsIn(nx) \cup {m}
  BY <1>3, <1>4, <1>5 DEF CellsIn
<1>7. Chain(ny)
  <2>1. ny[m] = Nil
    BY <1>1
  <2>2. ASSUME NEW c \in CellsIn(ny), NEW d \in CellsIn(ny), ny[c] = ny[d], ny[c] # Nil
        PROVE  c = d
    <3>1. c \in CellsIn(nx) /\ d \in CellsIn(nx)
      BY <1>6, <2>1, <2>2
    <3>2. \A e \in CellsIn(nx) \ {a} : ny[e] = nx[e] /\ nx[e] # m
      BY <1>1, <1>2
    <3>. QED
      BY <1>1, <2>2, <3>1, <3>2 DEF Chain
  <2>. QED
    BY <1>6, <2>1, <2>2 DEF Chain
<1>. QED
  BY <1>1, <1>3, <1>4, <1>5, <1>7

\* The unlinking in endpoint::destroy: the object m leaves the list.
LEMMA ReachUnlink ==
    ASSUME NEW nx \in NextType, Chain(nx), NEW m \in ListedIn(nx),
           NEW a \in CellsIn(nx), nx[a] = m,
           NEW ny, ny = [nx EXCEPT ![a] = nx[m]]
    PROVE  ny \in NextType /\ ListedIn(ny) = ListedIn(nx) \ {m} /\ Chain(ny)
<1>1. /\ CellsIn(nx) \subseteq Cell /\ ListedIn(nx) \subseteq Handle
      /\ \A c \in CellsIn(nx) : nx[c] \in ListedIn(nx) \cup {Nil}
  BY ReachClosed
<1>2. m \in CellsIn(nx) /\ m \in Handle /\ m # Nil /\ m # ListHead /\ a \in Cell
  BY <1>1, TasksAssumption DEF CellsIn
<1>3. /\ ny \in NextType /\ ny[a] = nx[m]
      /\ \A c \in Cell \ {a} : ny[c] = nx[c]
  BY <1>1, <1>2 DEF NextType
<1>4. \A c \in CellsIn(nx) : nx[c] = m => c = a
  BY <1>2 DEF Chain
<1>5. nx[m] # m /\ a # m
  <2>. SUFFICES ASSUME nx[m] = m PROVE FALSE
    OBVIOUS
  <2>. DEFINE S == ListedIn(nx) \ {m}
  <2>1. a = m
    BY <1>2, <1>4
  <2>2. \A c \in S \cup {ListHead} : nx[c] \in S \cup {Nil}
    BY <1>1, <1>2, <1>4, <2>1 DEF CellsIn
  <2>3. S \in SUBSET Handle
    BY <1>1
  <2>. HIDE DEF S
  <2>4. ListedIn(nx) \subseteq S
    BY <2>2, <2>3, ReachLeast
  <2>. QED
    BY <2>4 DEF S
<1>6. ListedIn(ny) \subseteq ListedIn(nx) \ {m}
  <2>. DEFINE S == ListedIn(nx) \ {m}
  <2>1. ASSUME NEW c \in S \cup {ListHead}
        PROVE  ny[c] \in S \cup {Nil}
    <3>1. c \in CellsIn(nx) /\ c # m
      BY <1>2 DEF CellsIn
    <3>2. CASE c = a
      BY <1>1, <1>2, <1>3, <1>5, <3>2
    <3>3. CASE c # a
      BY <1>1, <1>3, <1>4, <3>1, <3>3
    <3>. QED
      BY <3>2, <3>3
  <2>2. S \in SUBSET Handle
    BY <1>1
  <2>3. \A c \in S \cup {ListHead} : ny[c] \in S \cup {Nil}
    BY <2>1
  <2>. HIDE DEF S
  <2>4. S \in ClosedIn(ny)
    BY <2>2, <2>3 DEF ClosedIn
  <2>5. ListedIn(ny) \subseteq S
    BY <2>4 DEF ListedIn
  <2>. QED
    BY <2>5 DEF S
<1>7. ListedIn(ny) \in SUBSET Handle /\ \A c \in CellsIn(ny) : ny[c] \in ListedIn(ny) \cup {Nil}
  BY <1>3, ReachClosed
<1>8. CellsIn(ny) \subseteq CellsIn(nx)
  BY <1>6 DEF CellsIn
<1>9. a \in CellsIn(ny)
  <2>. SUFFICES ASSUME a \notin CellsIn(ny) PROVE FALSE
    OBVIOUS
  <2>1. \A c \in ListedIn(ny) \cup {ListHead} : nx[c] \in ListedIn(ny) \cup {Nil}
    BY <1>1, <1>3, <1>7, <1>8 DEF CellsIn
  <2>2. ListedIn(nx) \subseteq ListedIn(ny)
    BY <1>7, <2>1, ReachLeast
  <2>. QED
    BY <2>2 DEF CellsIn
<1>10. ListedIn(nx) \ {m} \subseteq ListedIn(ny)
  <2>. DEFINE S == ListedIn(ny) \cup {m}
  <2>1. ASSUME NEW c \in S \cup {ListHead}
        PROVE  nx[c] \in S \cup {Nil}
    <3>1. CASE c = m
      BY <1>3, <1>7, <1>9, <3>1
    <3>2. CASE c = a
      BY <3>2
    <3>3. CASE c # m /\ c # a
      <4>1. c \in CellsIn(ny) /\ c \in Cell
        BY <1>1, <1>8, <3>3 DEF CellsIn
      <4>. QED
        BY <1>3, <1>7, <3>3, <4>1
    <3>. QED
      BY <3>1, <3>2, <3>3
  <2>2. S \in SUBSET Handle
    BY <1>2, <1>7
  <2>3. \A c \in S \cup {ListHead} : nx[c] \in S \cup {Nil}
    BY <2>1
  <2>. HIDE DEF S
  <2>4. ListedIn(nx) \subseteq S
    BY <2>2, <2>3, ReachLeast
  <2>. QED
    BY <2>4 DEF S
<1>11. CellsIn(ny) = CellsIn(nx) \ {m}
  BY <1>2, <1>6, <1>10 DEF CellsIn
<1>12. \E c \in CellsIn(ny) : ny[c] = Nil
  <2>1. PICK e \in CellsIn(nx) : nx[e] = Nil
    BY DEF Chain
  <2>2. e # a
    BY <1>2, <2>1
  <2>3. CASE e = m
    BY <1>3, <1>9, <2>1, <2>3
  <2>4. CASE e # m
    BY <1>1, <1>3, <1>11, <2>1, <2>2, <2>4
  <2>. QED
    BY <2>3, <2>4
<1>13. ASSUME NEW c \in CellsIn(ny), NEW d \in CellsIn(ny), ny[c] = ny[d], ny[c] # Nil
       PROVE  c = d
  <2>1. c \in CellsIn(nx) /\ d \in CellsIn(nx) /\ c # m /\ d # m
    BY <1>11
  <2>2. \A e \in CellsIn(nx) \ {a} : ny[e] = nx[e]
    BY <1>1, <1>3
  <2>3. \A e \in CellsIn(nx) : nx[e] = nx[m] /\ nx[m] # Nil => e = m
    BY <1>2 DEF Chain
  <2>. QED
    BY <1>3, <1>13, <2>1, <2>2, <2>3 DEF Chain
<1>. QED
  BY <1>3, <1>6, <1>10, <1>12, <1>13 DEF Chain

-----------------------------------------------------------------------------
(* The pointers the tasks hold, under the discipline *)

\* The counter and the ids that the tasks have read from it are numbers.
CounterTypeOK ==
    id \in [Task -> Nat] /\ minUnused \in Nat /\ nvMin \in Nat \cup {NotFound}

PointerTypeOK ==
    /\ heap \in [Handle -> Object \cup {Nil}] /\ next \in NextType
    /\ mine \in [Task -> Handle \cup {Nil}] /\ at \in [Task -> Cell \cup {Nil}]

\* Where a task is in a call, by what the call has in hand: a new object that is
\* not in the list yet, one of the list, or one of the list and its cell before.
Adding == {"take", "bump", "save", "walk", "link"}
Using == {"build", "enable", "init lock", "init", "report lock", "report", "find",
          "shutdown lock", "shutdown", "clusters", "unlink", "set lock", "set"}
Removing == {"shutdown lock", "shutdown", "clusters", "unlink"}

\* The pointers m (mine) and a (at) of a task at label l fit the heap hp and the
\* next pointers nx.
PlaceOK(l, m, a, hp, nx) ==
    /\ l \in Adding => m \in Handle \ ListedIn(nx) /\ hp[m] # Nil /\ nx[m] = Nil
    /\ l = "link" => a \in CellsIn(nx) /\ nx[a] = Nil
    /\ l \in Using => m \in ListedIn(nx)
    /\ l \in Removing => a \in CellsIn(nx) /\ nx[a] = m
    /\ l = "free" => m \in Handle \ ListedIn(nx) /\ hp[m] # Nil
    /\ l = "serve" => a \in ListedIn(nx) \cup {Nil}

\* The labels at which the object in hand has no clusters, though it is listed.
Bare == {"build", "unlink"}

\* The objects of the list are allocated, and all but m have their clusters.
ListOK(l, m, hp, nx) ==
    \A h \in ListedIn(nx) : hp[h] # Nil /\ (hp[h].clusters \/ (l \in Bare /\ m = h))

ObjectsOK ==
    \A h \in ListedIn(next) :
        heap[h] # Nil /\ (heap[h].clusters \/ \E t \in Task : pc[t] \in Bare /\ mine[t] = h)

\* Before chip_init the main task is alone, and no object was ever freed.
AloneInv ==
    pc[Main] = "image" => /\ \A t \in Task \ {Main} : pc[t] = "idle"
                          /\ \A h \in Handle : heap[h] = Nil => next[h] = Nil

PointerInv ==
    /\ PointerTypeOK /\ Chain(next) /\ ObjectsOK /\ AloneInv
    /\ \A t \in Task : PlaceOK(pc[t], mine[t], at[t], heap, next)

\* The two ways to write the list are the same.
LEMMA ListIs == Listed = ListedIn(next) /\ Walk = CellsIn(next)
BY DEF Listed, Closed, ListedIn, ClosedIn, Walk, CellsIn

\* A task that is inside a call is the only one.
LEMMA Alone ==
    ASSUME IInv, NoOverlap, NEW t \in Task, pc[t] \notin Outside
    PROVE  \A u \in Task \ {t} : pc[u] \in Outside
BY DEF NoOverlap

\* A task outside has no pointer in hand; nor has one at the start of a call.
Fresh == Outside \cup {"dispatch", "enable_all", "leave", "create", "resume", "destroy", "update", "return"}

LEMMA FreshOK ==
    ASSUME NEW l \in Fresh, NEW m, NEW a, NEW hp, NEW nx
    PROVE  PlaceOK(l, m, a, hp, nx) /\ l \notin Bare
BY DEF Fresh, Outside, PlaceOK, Adding, Using, Removing, Bare

\* While t is inside a call, its own object is the only one without clusters.
LEMMA OwnObjects ==
    ASSUME IInv, NoOverlap, PointerInv, NEW t \in Task, pc[t] \notin Outside
    PROVE  ListOK(pc[t], mine[t], heap, next) /\ pc[Main] # "image"
<1>1. \A u \in Task \ {t} : pc[u] \in Outside
  BY Alone
<1>2. \A u \in Task : pc[u] \in Bare => u = t
  BY <1>1 DEF Outside, Bare
<1>3. ListOK(pc[t], mine[t], heap, next)
  BY <1>2 DEF PointerInv, ObjectsOK, ListOK
<1>4. pc[Main] # "image"
  BY TasksAssumption DEF PointerInv, AloneInv, Outside
<1>. QED
  BY <1>3, <1>4

\* A step of the task inside: what it leaves fits for this task.
LEMMA InsideStep ==
    ASSUME IInv, NoOverlap, PointerInv, NEW t \in Task, pc[t] \notin Outside,
           NEW l, NEW m \in Handle \cup {Nil}, NEW a \in Cell \cup {Nil},
           pc' = [pc EXCEPT ![t] = l], mine' = [mine EXCEPT ![t] = m], at' = [at EXCEPT ![t] = a],
           l # "image", heap' \in [Handle -> Object \cup {Nil}], next' \in NextType,
           Chain(next'), ListOK(l, m, heap', next'), PlaceOK(l, m, a, heap', next')
    PROVE  PointerInv'
<1>1. \A u \in Task \ {t} : pc[u] \in Outside
  BY Alone
<1>2. PointerTypeOK'
  BY DEF PointerInv, PointerTypeOK
<1>3. /\ pc'[t] = l /\ mine'[t] = m /\ at'[t] = a
      /\ \A u \in Task \ {t} : pc'[u] = pc[u]
  BY DEF PointerInv, PointerTypeOK, IInv, DepthInv
<1>4. ObjectsOK'
  BY <1>3 DEF ListOK, ObjectsOK
<1>5. AloneInv'
  BY <1>3, OwnObjects, TasksAssumption DEF AloneInv
<1>6. ASSUME NEW u \in Task
      PROVE  PlaceOK(pc'[u], mine'[u], at'[u], heap', next')
  <2>1. CASE u = t
    BY <1>3, <2>1
  <2>2. CASE u # t
    BY <1>1, <1>3, <2>2, FreshOK DEF Fresh
  <2>. QED
    BY <2>1, <2>2
<1>. QED
  BY <1>2, <1>4, <1>5, <1>6 DEF PointerInv

\* A step of a task outside that touches no pointer.
LEMMA OutsideStep ==
    ASSUME IInv, PointerInv, NEW t \in Task, pc[t] \in Outside, NEW l \in Fresh,
           l # "image", t = Main \/ pc[Main] # "image",
           pc' = [pc EXCEPT ![t] = l], UNCHANGED <<mine, at, heap, next>>
    PROVE  PointerInv'
<1>1. pc'[t] = l /\ \A u \in Task \ {t} : pc'[u] = pc[u]
  BY DEF IInv, DepthInv
<1>2. PointerTypeOK' /\ Chain(next')
  BY DEF PointerInv, PointerTypeOK
<1>3. ObjectsOK'
  <2>1. \A u \in Task : pc[u] \in Bare => pc'[u] \in Bare
    BY <1>1 DEF Outside, Bare
  <2>. QED
    BY <2>1 DEF PointerInv, ObjectsOK
<1>4. AloneInv'
  BY <1>1, TasksAssumption DEF AloneInv
<1>5. ASSUME NEW u \in Task
      PROVE  PlaceOK(pc'[u], mine'[u], at'[u], heap', next')
  <2>1. CASE u = t
    BY <1>1, <2>1, FreshOK
  <2>2. CASE u # t
    BY <1>1, <2>2 DEF PointerInv
  <2>. QED
    BY <2>1, <2>2
<1>. QED
  BY <1>2, <1>3, <1>4, <1>5 DEF PointerInv

\* The last cell, where append stops.
LEMMA LastIs ==
    ASSUME PointerInv
    PROVE  Last \in CellsIn(next) /\ next[Last] = Nil
<1>1. \E c \in Walk : next[c] = Nil
  BY ListIs DEF PointerInv, Chain
<1>2. Last \in Walk /\ next[Last] = Nil
  BY <1>1 DEF Last
<1>. QED
  BY <1>2, ListIs

\* A step that only moves the pointers of the task.
LEMMA WalkStep ==
    ASSUME IInv, NoOverlap, PointerInv, NEW t \in Task, pc[t] \notin Outside \cup Bare,
           NEW l, NEW m \in Handle \cup {Nil}, NEW a \in Cell \cup {Nil},
           pc' = [pc EXCEPT ![t] = l], mine' = [mine EXCEPT ![t] = m], at' = [at EXCEPT ![t] = a],
           l # "image", UNCHANGED <<heap, next>>, PlaceOK(l, m, a, heap, next)
    PROVE  PointerInv'
<1>1. ListOK(l, m, heap', next')
  BY OwnObjects DEF ListOK
<1>2. heap' \in [Handle -> Object \cup {Nil}] /\ next' \in NextType /\ Chain(next')
  BY DEF PointerInv, PointerTypeOK
<1>. QED
  BY <1>1, <1>2, InsideStep

\* One that writes a field of the object m.
LEMMA FieldStep ==
    ASSUME IInv, NoOverlap, PointerInv, NEW t \in Task, pc[t] \notin Outside,
           NEW l, NEW m \in Handle, NEW o \in Object,
           pc' = [pc EXCEPT ![t] = l], mine' = [mine EXCEPT ![t] = m],
           heap' = [heap EXCEPT ![m] = o], UNCHANGED <<at, next>>,
           l # "image", PlaceOK(l, m, at[t], heap', next),
           pc[t] \in Bare => mine[t] = m,
           m \in ListedIn(next) => o.clusters \/ l \in Bare
    PROVE  PointerInv'
<1>1. /\ heap' \in [Handle -> Object \cup {Nil}] /\ next' \in NextType /\ Chain(next')
      /\ heap'[m] = o /\ \A h \in Handle \ {m} : heap'[h] = heap[h]
  BY DEF PointerInv, PointerTypeOK
<1>2. ListOK(l, m, heap', next')
  <2>1. ListOK(pc[t], mine[t], heap, next) /\ ListedIn(next) \subseteq Handle
    BY OwnObjects, ReachClosed DEF PointerInv, PointerTypeOK
  <2>2. ASSUME NEW h \in ListedIn(next)
        PROVE  heap'[h] # Nil /\ (heap'[h].clusters \/ (l \in Bare /\ m = h))
    <3>1. CASE h = m
      BY <1>1, <3>1, NilAssumption
    <3>2. CASE h # m
      BY <1>1, <2>1, <3>2 DEF ListOK
    <3>. QED
      BY <3>1, <3>2
  <2>. QED
    BY <2>2 DEF ListOK
<1>3. at[t] \in Cell \cup {Nil} /\ at' = [at EXCEPT ![t] = at[t]]
  BY DEF PointerInv, PointerTypeOK
<1>. QED
  BY <1>1, <1>2, <1>3, InsideStep

\* The object that create or resume allocates.
LEMMA AllocateStep ==
    ASSUME IInv, NoOverlap, PointerInv, NEW t \in Task, pc[t] \notin Outside \cup Bare,
           NEW l \in {"take", "walk"}, NEW h \in Free, NEW o \in Object,
           pc' = [pc EXCEPT ![t] = l], mine' = [mine EXCEPT ![t] = h], UNCHANGED at,
           heap' = [heap EXCEPT ![h] = o], next' = [next EXCEPT ![h] = Nil]
    PROVE  PointerInv'
<1>1. ListOK(pc[t], mine[t], heap, next) /\ next \in NextType /\ Chain(next)
  BY OwnObjects DEF PointerInv, PointerTypeOK
<1>2. h \in Handle \ ListedIn(next)
  BY <1>1 DEF Free, ListOK
<1>3. /\ next' \in NextType /\ ListedIn(next') = ListedIn(next) /\ next'[h] = Nil
      /\ Chain(next')
  BY <1>1, <1>2, ReachOther
<1>4. /\ heap' \in [Handle -> Object \cup {Nil}] /\ heap'[h] = o /\ o # Nil
      /\ \A g \in Handle \ {h} : heap'[g] = heap[g]
  BY <1>2, NilAssumption DEF PointerInv, PointerTypeOK
<1>5. ListOK(l, h, heap', next')
  <2>1. ListedIn(next) \subseteq Handle
    BY <1>1, ReachClosed
  <2>. QED
    BY <1>1, <1>2, <1>3, <1>4, <2>1 DEF ListOK
<1>6. PlaceOK(l, h, at[t], heap', next')
  BY <1>2, <1>3, <1>4 DEF PlaceOK, Adding, Using, Removing
<1>7. at[t] \in Cell \cup {Nil} /\ at' = [at EXCEPT ![t] = at[t]] /\ l # "image"
  BY DEF PointerInv, PointerTypeOK
<1>. QED
  BY <1>2, <1>3, <1>4, <1>5, <1>6, <1>7, InsideStep

\* SinglyLinkedList::append, at its last access.
LEMMA LinkStep ==
    ASSUME IInv, NoOverlap, PointerInv, NEW t \in Task, AppendLink(t)
    PROVE  PointerInv'
<1>. DEFINE m == mine[t]
            a == at[t]
<1>1. /\ pc[t] = "link" /\ pc' = [pc EXCEPT ![t] = "build"] /\ UNCHANGED <<mine, at, heap>>
      /\ next' = [next EXCEPT ![a] = m] /\ pc[t] \notin Outside \cup Bare
  BY DEF AppendLink, Goto, Outside, Bare
<1>2. PlaceOK("link", m, a, heap, next) /\ next \in NextType /\ Chain(next)
  BY <1>1 DEF PointerInv, PointerTypeOK
<1>3. m \in Handle \ ListedIn(next) /\ heap[m] # Nil /\ next[m] = Nil /\ a \in CellsIn(next) /\ next[a] = Nil
  BY <1>2 DEF PlaceOK, Adding
<1>. HIDE DEF m, a
<1>4. next' \in NextType /\ ListedIn(next') = ListedIn(next) \cup {m} /\ Chain(next')
  BY <1>1, <1>2, <1>3, ReachAppend
<1>5. ListOK("build", m, heap', next')
  BY <1>1, <1>3, <1>4, OwnObjects DEF ListOK, Bare
<1>6. PlaceOK("build", m, a, heap', next')
  BY <1>4 DEF PlaceOK, Adding, Using, Removing
<1>7. /\ heap' \in [Handle -> Object \cup {Nil}] /\ m \in Handle \cup {Nil} /\ a \in Cell \cup {Nil}
      /\ mine' = [mine EXCEPT ![t] = m] /\ at' = [at EXCEPT ![t] = a]
  BY <1>1 DEF PointerInv, PointerTypeOK, m, a
<1>. QED
  BY <1>1, <1>4, <1>5, <1>6, <1>7, InsideStep

\* The unlinking in endpoint::destroy.
LEMMA UnlinkStep ==
    ASSUME IInv, NoOverlap, PointerInv, NEW t \in Task, DestroyUnlink(t)
    PROVE  PointerInv'
<1>. DEFINE m == mine[t]
            a == at[t]
<1>1. /\ pc[t] = "unlink" /\ pc' = [pc EXCEPT ![t] = "free"] /\ UNCHANGED <<mine, at, heap>>
      /\ next' = [next EXCEPT ![a] = next[m]] /\ pc[t] \notin Outside
  BY DEF DestroyUnlink, Goto, Outside
<1>2. PlaceOK("unlink", m, a, heap, next) /\ next \in NextType /\ Chain(next)
  BY <1>1 DEF PointerInv, PointerTypeOK
<1>3. m \in ListedIn(next) /\ a \in CellsIn(next) /\ next[a] = m
  BY <1>2 DEF PlaceOK, Using, Removing
<1>4. ListOK(pc[t], m, heap, next)
  BY <1>1, OwnObjects
<1>. HIDE DEF m, a
<1>5. next' \in NextType /\ ListedIn(next') = ListedIn(next) \ {m} /\ Chain(next')
  BY <1>1, <1>2, <1>3, ReachUnlink
<1>6. ListOK("free", m, heap', next')
  BY <1>1, <1>4, <1>5 DEF ListOK
<1>7. m \in Handle /\ heap[m] # Nil
  BY <1>2, <1>3, <1>4, ReachClosed DEF ListOK
<1>8. PlaceOK("free", m, a, heap', next')
  BY <1>1, <1>5, <1>7 DEF PlaceOK, Adding, Using, Removing
<1>9. /\ heap' \in [Handle -> Object \cup {Nil}] /\ m \in Handle \cup {Nil} /\ a \in Cell \cup {Nil}
      /\ mine' = [mine EXCEPT ![t] = m] /\ at' = [at EXCEPT ![t] = a]
  BY <1>1 DEF PointerInv, PointerTypeOK, m, a
<1>. QED
  BY <1>1, <1>5, <1>6, <1>8, <1>9, InsideStep

\* endpoint::create and resume, up to the list.
LEMMA CreatePointers ==
    ASSUME IInv, NoOverlap, CounterTypeOK, PointerInv, NEW t \in Task,
           \/ CreateCount(t) \/ CreateTake(t) \/ CreateBump(t) \/ CreateSave(t) \/ ResumeSearch(t)
           \/ AppendWalk(t)
    PROVE  PointerInv'
<1>0. /\ mine[t] \in Handle \cup {Nil} /\ at[t] \in Cell \cup {Nil}
      /\ mine = [mine EXCEPT ![t] = mine[t]] /\ at = [at EXCEPT ![t] = at[t]]
      /\ PlaceOK(pc[t], mine[t], at[t], heap, next)
  BY DEF PointerInv, PointerTypeOK
<1>1. CASE CreateCount(t)
  <2>0. pc[t] = "create" /\ UNCHANGED at /\ pc[t] \notin Outside \cup Bare
    BY <1>1 DEF CreateCount, Outside, Bare
  <2>1. CASE pc' = [pc EXCEPT ![t] = "return"] /\ UNCHANGED <<mine, heap, next>>
    <3>1. PlaceOK("return", mine[t], at[t], heap, next)
      BY FreshOK DEF Fresh
    <3>. QED
      BY <1>0, <2>0, <2>1, <3>1, WalkStep
  <2>2. ASSUME NEW h \in Free, NEW o \in Object, pc' = [pc EXCEPT ![t] = "take"],
               mine' = [mine EXCEPT ![t] = h], heap' = [heap EXCEPT ![h] = o],
               next' = [next EXCEPT ![h] = Nil]
        PROVE  PointerInv'
    BY <2>0, <2>2, AllocateStep
  <2>3. [id |-> 0, parent |-> kInvalidEndpointId, enabled |-> TRUE, destroyable |-> TRUE,
         clusters |-> FALSE, inits |-> 0] \in Object
    BY DEF Object
  <2>. QED
    BY <1>1, <2>1, <2>2, <2>3 DEF CreateCount, Goto, listVars
<1>2. CASE CreateTake(t) \/ CreateSave(t)
  <2>1. PICK l \in {"bump", "walk"} : /\ pc[t] \in {"take", "save"} /\ pc' = [pc EXCEPT ![t] = l]
                                      /\ UNCHANGED <<mine, at, heap, next>>
    BY <1>2 DEF CreateTake, CreateSave, Quiet, Goto, listVars
  <2>2. PlaceOK(l, mine[t], at[t], heap, next)
    BY <1>0, <2>1 DEF PlaceOK, Adding, Using, Removing
  <2>3. pc[t] \notin Outside \cup Bare /\ l # "image"
    BY <2>1 DEF Outside, Bare
  <2>. QED
    BY <1>0, <2>1, <2>2, <2>3, WalkStep
<1>3. CASE CreateBump(t)
  <2>. DEFINE m == mine[t]
              o == [heap[m] EXCEPT !.id = id[t]]
  <2>1. /\ pc[t] = "bump" /\ pc' = [pc EXCEPT ![t] = "save"] /\ UNCHANGED <<mine, at, next>>
        /\ heap' = [heap EXCEPT ![m] = o] /\ pc[t] \notin Outside \cup Bare
    BY <1>3 DEF CreateBump, Goto, Outside, Bare
  <2>2. m \in Handle \ ListedIn(next) /\ heap[m] # Nil /\ next[m] = Nil
    BY <1>0, <2>1 DEF PlaceOK, Adding
  <2>3. heap[m] \in Object /\ id[t] \in Nat
    BY SMT, <2>2 DEF PointerInv, PointerTypeOK, CounterTypeOK
  <2>4. o \in Object
    BY <2>3 DEF Object
  <2>. HIDE DEF o
  <2>5. heap'[m] # Nil
    BY <2>1, <2>2, <2>4, NilAssumption DEF PointerInv, PointerTypeOK
  <2>6. PlaceOK("save", m, at[t], heap', next)
    BY <2>2, <2>5 DEF PlaceOK, Adding, Using, Removing
  <2>7. mine' = [mine EXCEPT ![t] = m]
    BY <1>0, <2>1
  <2>. HIDE DEF m
  <2>. QED
    BY <2>1, <2>2, <2>4, <2>6, <2>7, FieldStep
<1>4. CASE ResumeSearch(t)
  <2>0. pc[t] = "resume" /\ UNCHANGED at /\ pc[t] \notin Outside \cup Bare
    BY <1>4 DEF ResumeSearch, Outside, Bare
  <2>1. CASE pc' = [pc EXCEPT ![t] = "return"] /\ UNCHANGED <<mine, heap, next>>
    <3>1. PlaceOK("return", mine[t], at[t], heap, next)
      BY FreshOK DEF Fresh
    <3>. QED
      BY <1>0, <2>0, <2>1, <3>1, WalkStep
  <2>2. ASSUME NEW h \in Free, NEW o \in Object, pc' = [pc EXCEPT ![t] = "walk"],
               mine' = [mine EXCEPT ![t] = h], heap' = [heap EXCEPT ![h] = o],
               next' = [next EXCEPT ![h] = Nil]
        PROVE  PointerInv'
    BY <2>0, <2>2, AllocateStep
  <2>3. \A i \in 0 .. minUnused :
           [id |-> i, parent |-> 0, enabled |-> FALSE, destroyable |-> TRUE,
            clusters |-> FALSE, inits |-> 0] \in Object
    BY SMT DEF Object, CounterTypeOK
  <2>. QED
    BY <1>4, <2>1, <2>2, <2>3 DEF ResumeSearch, Goto, listVars
<1>5. CASE AppendWalk(t)
  <2>1. /\ pc[t] = "walk" /\ pc' = [pc EXCEPT ![t] = "link"] /\ UNCHANGED <<mine, heap, next>>
        /\ at' = [at EXCEPT ![t] = Last] /\ pc[t] \notin Outside \cup Bare
    BY <1>5 DEF AppendWalk, Quiet, Goto, listVars, Outside, Bare
  <2>2. Last \in CellsIn(next) /\ next[Last] = Nil /\ Last \in Cell
    BY LastIs, ReachClosed DEF PointerInv, PointerTypeOK
  <2>3. PlaceOK("link", mine[t], Last, heap, next)
    BY <1>0, <2>1, <2>2 DEF PlaceOK, Adding, Using, Removing
  <2>. QED
    BY <1>0, <2>1, <2>2, <2>3, WalkStep
<1>. QED
  BY <1>1, <1>2, <1>3, <1>4, <1>5

\* A write to the flags, the clusters or the count of an object in the list.
LEMMA ListedField ==
    ASSUME IInv, NoOverlap, PointerInv, NEW t \in Task, pc[t] \in Using, NEW l,
           l \in Using \/ l = "return", l \in Removing => pc[t] \in Removing,
           NEW o \in Object, pc' = [pc EXCEPT ![t] = l], UNCHANGED <<mine, at, next>>,
           heap' = [heap EXCEPT ![mine[t]] = o], o.clusters \/ l \in Bare
    PROVE  PointerInv'
<1>1. PlaceOK(pc[t], mine[t], at[t], heap, next) /\ mine = [mine EXCEPT ![t] = mine[t]]
  BY DEF PointerInv, PointerTypeOK
<1>. DEFINE m == mine[t]
<1>2. m \in ListedIn(next) /\ m \in Handle
  BY <1>1, ReachClosed DEF PlaceOK, PointerInv, PointerTypeOK
<1>3. PlaceOK(l, m, at[t], heap', next)
  BY <1>1, <1>2 DEF PlaceOK, Adding, Using, Removing
<1>4. pc[t] \notin Outside /\ l # "image" /\ mine' = [mine EXCEPT ![t] = m]
  BY <1>1 DEF Using, Outside
<1>. QED
  BY <1>2, <1>3, <1>4, FieldStep

\* The accesses of build, enable and destroy that write a field.
LEMMA FieldPointers ==
    ASSUME IInv, NoOverlap, PointerInv, NEW t \in Task,
           Build(t) \/ EnableFlag(t) \/ EnableInit(t) \/ DestroyClusters(t)
    PROVE  PointerInv'
<1>. DEFINE m == mine[t]
<1>0. pc[t] \in {"build", "enable", "init", "clusters"}
  BY DEF Build, EnableFlag, EnableInit, DestroyClusters, Within
<1>1. /\ ListOK(pc[t], m, heap, next) /\ PlaceOK(pc[t], m, at[t], heap, next)
      /\ pc[t] \in Using
  BY <1>0, OwnObjects DEF PointerInv, Outside, Using
<1>2. m \in ListedIn(next) /\ m \in Handle
  BY <1>1, ReachClosed DEF PlaceOK, PointerInv, PointerTypeOK
<1>3. heap[m] \in Object /\ (pc[t] \in {"enable", "init"} => heap[m].clusters)
  BY <1>1, <1>2 DEF ListOK, PointerInv, PointerTypeOK, Bare
<1>4. CASE Build(t)
  <2>1. [heap[m] EXCEPT !.clusters = TRUE] \in Object /\ [heap[m] EXCEPT !.clusters = TRUE].clusters
    BY <1>3 DEF Object
  <2>2. /\ pc' = [pc EXCEPT ![t] = "enable"] /\ UNCHANGED <<mine, at, next>>
        /\ heap' = [heap EXCEPT ![m] = [heap[m] EXCEPT !.clusters = TRUE]]
    BY <1>4 DEF Build, Goto
  <2>3. "enable" \in Using \ Removing
    BY DEF Using, Removing
  <2>. QED
    BY <1>1, <2>1, <2>2, <2>3, ListedField
<1>5. CASE EnableFlag(t)
  <2>1. [heap[m] EXCEPT !.enabled = TRUE] \in Object /\ [heap[m] EXCEPT !.enabled = TRUE].clusters
    BY <1>3, <1>5 DEF Object, EnableFlag
  <2>2. PICK l \in {"init lock", "return"} :
           /\ pc' = [pc EXCEPT ![t] = l] /\ UNCHANGED <<mine, at, next>>
           /\ heap' = [heap EXCEPT ![m] = [heap[m] EXCEPT !.enabled = TRUE]]
    BY <1>5 DEF EnableFlag, Goto
  <2>3. (l \in Using \/ l = "return") /\ l \notin Removing
    BY DEF Using, Removing
  <2>. QED
    BY <1>1, <2>1, <2>2, <2>3, ListedField
<1>6. CASE EnableInit(t)
  <2>1. /\ [heap[m] EXCEPT !.inits = @ + 1] \in Object
        /\ [heap[m] EXCEPT !.inits = @ + 1].clusters
    BY SMT, <1>3, <1>6 DEF Object, EnableInit, Within
  <2>2. /\ pc' = [pc EXCEPT ![t] = "return"] /\ UNCHANGED <<mine, at, next>>
        /\ heap' = [heap EXCEPT ![m] = [heap[m] EXCEPT !.inits = @ + 1]]
    BY <1>6 DEF EnableInit, Within, Goto
  <2>3. "return" \notin Removing
    BY DEF Removing
  <2>. QED
    BY <1>1, <2>1, <2>2, <2>3, ListedField
<1>7. CASE DestroyClusters(t)
  <2>1. [heap[m] EXCEPT !.clusters = FALSE] \in Object
    BY <1>3 DEF Object
  <2>2. /\ pc[t] = "clusters" /\ pc' = [pc EXCEPT ![t] = "unlink"] /\ UNCHANGED <<mine, at, next>>
        /\ heap' = [heap EXCEPT ![m] = [heap[m] EXCEPT !.clusters = FALSE]]
    BY <1>7 DEF DestroyClusters, Goto
  <2>3. "unlink" \in Using \cap Bare /\ pc[t] \in Removing
    BY <2>2 DEF Using, Bare, Removing
  <2>. QED
    BY <1>1, <2>1, <2>2, <2>3, ListedField
<1>. QED
  BY <1>4, <1>5, <1>6, <1>7

\* endpoint::destroy.
LEMMA DestroyPointers ==
    ASSUME IInv, NoOverlap, PointerInv, NEW t \in Task,
           DestroyFlag(t) \/ DestroyFind(t) \/ DestroyFree(t)
    PROVE  PointerInv'
<1>0. /\ mine[t] \in Handle \cup {Nil} /\ at[t] \in Cell \cup {Nil}
      /\ mine = [mine EXCEPT ![t] = mine[t]] /\ at = [at EXCEPT ![t] = at[t]]
      /\ PlaceOK(pc[t], mine[t], at[t], heap, next)
      /\ heap \in [Handle -> Object \cup {Nil}] /\ next \in NextType /\ Chain(next)
  BY DEF PointerInv, PointerTypeOK
<1>r. PlaceOK("return", mine[t], at[t], heap, next)
  BY FreshOK DEF Fresh
<1>1. CASE DestroyFlag(t)
  <2>0. pc[t] = "destroy" /\ UNCHANGED <<at, next>> /\ pc[t] \notin Outside \cup Bare
    BY <1>1 DEF DestroyFlag, Outside, Bare
  <2>1. CASE pc' = [pc EXCEPT ![t] = "return"] /\ UNCHANGED <<mine, heap>>
    BY <1>0, <1>r, <2>0, <2>1, WalkStep
  <2>2. ASSUME NEW h \in ListedIn(next), pc' = [pc EXCEPT ![t] = "report lock"],
               mine' = [mine EXCEPT ![t] = h],
               heap' = [heap EXCEPT ![h] = [heap[h] EXCEPT !.enabled = FALSE]]
        PROVE  PointerInv'
    <3>1. h \in Handle /\ heap[h] \in Object /\ heap[h].clusters
      BY SMT, <1>0, <2>0, OwnObjects, ReachClosed DEF ListOK
    <3>. DEFINE o == [heap[h] EXCEPT !.enabled = FALSE]
    <3>2. o \in Object /\ o.clusters
      BY <3>1 DEF Object
    <3>3. PlaceOK("report lock", h, at[t], heap', next)
      BY DEF PlaceOK, Adding, Using, Removing
    <3>4. heap' = [heap EXCEPT ![h] = o]
      BY <2>2
    <3>. HIDE DEF o
    <3>. QED
      BY <2>0, <2>2, <3>1, <3>2, <3>3, <3>4, FieldStep
  <2>. QED
    BY <1>1, <2>1, <2>2, ListIs DEF DestroyFlag, Goto
<1>2. CASE DestroyFind(t)
  <2>0. pc[t] = "find" /\ UNCHANGED <<heap, next, mine>> /\ pc[t] \notin Outside \cup Bare
    BY <1>2 DEF DestroyFind, Quiet, listVars, Outside, Bare
  <2>1. mine[t] \in ListedIn(next) /\ mine[t] \in Listed
    BY <1>0, <2>0, ListIs DEF PlaceOK, Using
  <2>. DEFINE a == CHOOSE c \in Walk : next[c] = mine[t]
  <2>2. pc' = [pc EXCEPT ![t] = "shutdown lock"] /\ at' = [at EXCEPT ![t] = a]
    BY <1>2, <2>1 DEF DestroyFind, Quiet, Goto
  <2>3. \E c \in Walk : next[c] = mine[t]
    BY <1>0, <2>1, ReachPred, ListIs
  <2>4. a \in Walk /\ next[a] = mine[t]
    BY <2>3
  <2>. HIDE DEF a
  <2>5. a \in CellsIn(next) /\ a \in Cell
    BY <1>0, <2>4, ReachClosed, ListIs
  <2>6. PlaceOK("shutdown lock", mine[t], a, heap, next)
    BY <2>1, <2>4, <2>5 DEF PlaceOK, Adding, Using, Removing
  <2>. QED
    BY <1>0, <2>0, <2>2, <2>5, <2>6, WalkStep
<1>3. CASE DestroyFree(t)
  <2>. DEFINE m == mine[t]
  <2>1. /\ pc[t] = "free" /\ pc' = [pc EXCEPT ![t] = "return"] /\ UNCHANGED <<mine, at, next>>
        /\ heap' = [heap EXCEPT ![m] = Nil] /\ pc[t] \notin Outside \cup Bare
    BY <1>3 DEF DestroyFree, Goto, Outside, Bare
  <2>2. m \in Handle \ ListedIn(next) /\ ListedIn(next) \subseteq Handle
    BY <1>0, <2>1, ReachClosed DEF PlaceOK
  <2>3. ListOK(pc[t], m, heap, next)
    BY <2>1, OwnObjects
  <2>. HIDE DEF m
  <2>4. /\ heap' \in [Handle -> Object \cup {Nil}] /\ \A h \in ListedIn(next) : heap'[h] = heap[h]
    BY <1>0, <2>1, <2>2
  <2>5. ListOK("return", m, heap', next')
    BY <2>1, <2>3, <2>4 DEF ListOK
  <2>6. PlaceOK("return", m, at[t], heap', next')
    BY FreshOK DEF Fresh
  <2>7. /\ mine' = [mine EXCEPT ![t] = m] /\ at' = [at EXCEPT ![t] = at[t]]
        /\ next' \in NextType /\ Chain(next')
    BY <1>0, <2>1 DEF m
  <2>8. at[t] \in Cell \cup {Nil} /\ m \in Handle \cup {Nil} /\ pc[t] \notin Outside
    BY <1>0, <2>1, <2>2
  <2>. QED
    BY <2>1, <2>4, <2>5, <2>6, <2>7, <2>8, InsideStep
<1>. QED
  BY <1>1, <1>2, <1>3

\* attribute::update, the scopes inside calls, and the return.
LEMMA ScopePointers ==
    ASSUME IInv, NoOverlap, PointerInv, NEW t \in Task,
           \/ UpdateLookup(t) \/ Return(t)
           \/ Enter(t, "init lock", "init") \/ Enter(t, "report lock", "report")
           \/ Enter(t, "shutdown lock", "shutdown") \/ Enter(t, "set lock", "set")
           \/ DestroyReport(t) \/ DestroyShutdown(t) \/ UpdateSet(t)
    PROVE  PointerInv'
<1>0. /\ mine[t] \in Handle \cup {Nil} /\ at[t] \in Cell \cup {Nil}
      /\ mine = [mine EXCEPT ![t] = mine[t]] /\ at = [at EXCEPT ![t] = at[t]]
      /\ PlaceOK(pc[t], mine[t], at[t], heap, next) /\ next \in NextType
  BY DEF PointerInv, PointerTypeOK
<1>r. PlaceOK("return", mine[t], at[t], heap, next)
  BY FreshOK DEF Fresh
<1>1. CASE UpdateLookup(t)
  <2>0. pc[t] = "update" /\ UNCHANGED <<at, heap, next>> /\ pc[t] \notin Outside \cup Bare
    BY <1>1 DEF UpdateLookup, Quiet, listVars, Outside, Bare
  <2>1. CASE pc' = [pc EXCEPT ![t] = "return"] /\ UNCHANGED mine
    BY <1>0, <1>r, <2>0, <2>1, WalkStep
  <2>2. ASSUME NEW h \in ListedIn(next), pc' = [pc EXCEPT ![t] = "set lock"],
               mine' = [mine EXCEPT ![t] = h]
        PROVE  PointerInv'
    <3>1. h \in Handle
      BY <1>0, ReachClosed
    <3>2. PlaceOK("set lock", h, at[t], heap, next)
      BY DEF PlaceOK, Adding, Using, Removing
    <3>. QED
      BY <1>0, <2>0, <2>2, <3>1, <3>2, WalkStep
  <2>. QED
    BY <1>1, <2>1, <2>2, ListIs DEF UpdateLookup, Quiet, Goto
<1>2. CASE Return(t)
  <2>1. /\ pc[t] = "return" /\ pc' = [pc EXCEPT ![t] = "idle"] /\ UNCHANGED <<heap, next>>
        /\ mine' = [mine EXCEPT ![t] = Nil] /\ at' = [at EXCEPT ![t] = ListHead]
        /\ pc[t] \notin Outside \cup Bare /\ ListHead \in Cell
    BY <1>2 DEF Return, Goto, listVars, Outside, Bare, Cell
  <2>2. PlaceOK("idle", Nil, ListHead, heap, next)
    BY FreshOK DEF Fresh, Outside
  <2>. QED
    BY <2>1, <2>2, WalkStep
<1>3. ASSUME NEW l, pc' = [pc EXCEPT ![t] = l], UNCHANGED <<mine, at, heap, next>>,
             <<pc[t], l>> \in {<<"init lock", "init">>, <<"report lock", "report">>, <<"report", "find">>,
                               <<"shutdown lock", "shutdown">>, <<"shutdown", "clusters">>,
                               <<"set lock", "set">>, <<"set", "return">>}
      PROVE  PointerInv'
  <2>1. PlaceOK(l, mine[t], at[t], heap, next)
    BY <1>0, <1>3 DEF PlaceOK, Adding, Using, Removing
  <2>2. pc[t] \notin Outside \cup Bare /\ l # "image"
    BY <1>3 DEF Outside, Bare
  <2>. QED
    BY <1>0, <1>3, <2>1, <2>2, WalkStep
<1>4. CASE \/ Enter(t, "init lock", "init") \/ Enter(t, "report lock", "report")
           \/ Enter(t, "shutdown lock", "shutdown") \/ Enter(t, "set lock", "set")
  BY <1>3, <1>4 DEF Enter, Goto, listVars
<1>5. CASE DestroyReport(t) \/ DestroyShutdown(t) \/ UpdateSet(t)
  BY <1>3, <1>5 DEF DestroyReport, DestroyShutdown, UpdateSet, Within, Goto
<1>. QED
  BY <1>1, <1>2, <1>4, <1>5

\* The init callbacks have run once more.
LEMMA Counted ==
    ASSUME NEW o \in Object, NEW p, p = [o EXCEPT !.inits = @ + 1]
    PROVE  p \in Object /\ (o.clusters => p.clusters) /\ (o.inits = 0 => p.inits = 1)
BY SMT DEF Object

\* The flag has been set.
LEMMA Flagged ==
    ASSUME NEW o \in Object, NEW p, p = [o EXCEPT !.enabled = TRUE]
    PROVE  p \in Object /\ (o.clusters => p.clusters) /\ p.inits = o.inits
BY DEF Object

\* The Matter task, and start() once chip_init has been called.
LEMMA StartPointers ==
    ASSUME IInv, NoOverlap, PointerInv,
           MatterTask \/ (Start /\ ~ CreateStatic)
    PROVE  PointerInv'
<1>. DEFINE t == Matter
<1>0. /\ mine[t] \in Handle \cup {Nil} /\ at[t] \in Cell \cup {Nil}
      /\ mine = [mine EXCEPT ![t] = mine[t]] /\ at = [at EXCEPT ![t] = at[t]]
      /\ PlaceOK(pc[t], mine[t], at[t], heap, next) /\ t \in Task /\ Main \in Task
      /\ heap \in [Handle -> Object \cup {Nil}] /\ next \in NextType /\ Chain(next)
  BY TasksAssumption DEF PointerInv, PointerTypeOK
<1>1. CASE ChipInit \/ Started \/ ReadMin \/ StoreMin
  <2>1. PICK l \in {"wait", "read", "store", "idle"} : pc' = [pc EXCEPT ![Main] = l]
    BY <1>1 DEF ChipInit, Started, ReadMin, StoreMin, Goto
  <2>2. pc[Main] \in Outside /\ UNCHANGED <<mine, at, heap, next>>
    BY <1>1 DEF ChipInit, Started, ReadMin, StoreMin, listVars, Outside
  <2>3. l \in Fresh /\ l # "image"
    BY DEF Fresh, Outside
  <2>. QED
    BY <1>0, <2>1, <2>2, <2>3, OutsideStep
<1>2. CASE Dispatch
  <2>1. pc' = [pc EXCEPT ![t] = "dispatch"] /\ pc[t] \in Outside /\ UNCHANGED <<mine, at, heap, next>>
    BY <1>2 DEF Dispatch, Goto, listVars, Outside
  <2>2. "dispatch" \in Fresh /\ pc[Main] # "image"
    BY <1>2 DEF Fresh, Dispatch
  <2>. QED
    BY <1>0, <2>1, <2>2, OutsideStep
<1>3. CASE ServerInit \/ EnableAll
  <2>1. PICK l \in {"leave", "enable_all"} : pc' = [pc EXCEPT ![t] = l]
    BY <1>3 DEF ServerInit, EnableAll, Goto
  <2>2. pc[t] \in {"dispatch", "enable_all"} /\ UNCHANGED <<mine, at, next>>
    BY <1>3 DEF ServerInit, EnableAll
  <2>3. ListOK(pc[t], mine[t], heap, next) /\ pc[t] \notin Bare
    BY <1>0, <2>2, OwnObjects DEF Outside, Bare
  <2>4. \A h \in ListedIn(next) : h \in Handle /\ heap[h] \in Object /\ heap[h].clusters
    BY <1>0, <2>3, ReachClosed DEF ListOK
  <2>5. /\ heap' = [h \in Handle |-> heap'[h]]
        /\ \A h \in Handle : \/ heap'[h] = heap[h]
                             \/ h \in ListedIn(next) /\ heap'[h] = [heap[h] EXCEPT !.inits = @ + 1]
                             \/ h \in ListedIn(next) /\ heap'[h] = [heap[h] EXCEPT !.enabled = TRUE]
    BY <1>3, ListIs DEF ServerInit, EnableAll
  <2>6. ASSUME NEW h \in Handle
        PROVE  /\ heap'[h] \in Object \cup {Nil}
               /\ h \in ListedIn(next) => heap'[h] # Nil /\ heap'[h].clusters
    <3>1. CASE heap'[h] = heap[h]
      BY <1>0, <2>4, <3>1, NilAssumption
    <3>2. CASE h \in ListedIn(next) /\ heap'[h] = [heap[h] EXCEPT !.inits = @ + 1]
      <4>. DEFINE o == heap[h]
                  p == heap'[h]
      <4>0. o \in Object /\ o.clusters /\ p = [o EXCEPT !.inits = @ + 1]
        BY <2>4, <3>2
      <4>1. p \in Object /\ p.clusters
        <5>. HIDE DEF o, p
        <5>. QED
          BY <4>0, Counted
      <4>. QED
        BY <4>1, NilAssumption
    <3>3. CASE h \in ListedIn(next) /\ heap'[h] = [heap[h] EXCEPT !.enabled = TRUE]
      <4>. DEFINE o == heap[h]
                  p == heap'[h]
      <4>0. o \in Object /\ o.clusters /\ p = [o EXCEPT !.enabled = TRUE]
        BY <2>4, <3>3
      <4>1. p \in Object /\ p.clusters
        <5>. HIDE DEF o, p
        <5>. QED
          BY <4>0, Flagged
      <4>. QED
        BY <4>1, NilAssumption
    <3>. QED
      BY <2>5, <3>1, <3>2, <3>3
  <2>7. heap' \in [Handle -> Object \cup {Nil}]
    BY <2>5, <2>6
  <2>8. ListOK(l, mine[t], heap', next')
    BY <2>2, <2>4, <2>6 DEF ListOK
  <2>9. PlaceOK(l, mine[t], at[t], heap', next') /\ pc[t] \notin Outside /\ l # "image"
    BY <2>2, FreshOK DEF Fresh, Outside
  <2>. QED
    BY <1>0, <2>1, <2>2, <2>7, <2>8, <2>9, InsideStep
<1>4. CASE Serve \/ ServeNext
  <2>1. PICK c \in CellsIn(next) : at' = [at EXCEPT ![t] = next[c]]
    BY <1>0, <1>4 DEF Serve, ServeNext, PlaceOK, CellsIn
  <2>2. /\ pc[t] \in {"dispatch", "serve"} /\ pc' = [pc EXCEPT ![t] = "serve"]
        /\ UNCHANGED <<mine, heap, next>>
    BY <1>4 DEF Serve, ServeNext, Goto, listVars, IInv, DepthInv
  <2>3. next[c] \in ListedIn(next) \cup {Nil} /\ next[c] \in Cell \cup {Nil}
    BY <1>0, ReachClosed DEF Cell
  <2>4. PlaceOK("serve", mine[t], next[c], heap, next) /\ pc[t] \notin Outside \cup Bare
    BY <2>2, <2>3 DEF PlaceOK, Adding, Using, Removing, Outside, Bare
  <2>. QED
    BY <1>0, <2>1, <2>2, <2>3, <2>4, WalkStep
<1>5. CASE Leave
  <2>1. /\ pc[t] \in {"leave", "serve"} /\ pc' = [pc EXCEPT ![t] = "idle"]
        /\ UNCHANGED <<mine, at, heap, next>>
    BY <1>5 DEF Leave, Goto, listVars
  <2>2. PlaceOK("idle", mine[t], at[t], heap, next) /\ pc[t] \notin Outside \cup Bare
    BY <2>1, FreshOK DEF Fresh, Outside, Bare
  <2>. QED
    BY <1>0, <2>1, <2>2, WalkStep
<1>. QED
  BY <1>1, <1>2, <1>3, <1>4, <1>5 DEF Start, MatterTask

\* endpoint::create before start().
LEMMA StaticPointers ==
    ASSUME IInv, CounterTypeOK, PointerInv, CreateStatic
    PROVE  PointerInv'
<1>. DEFINE o == [id |-> minUnused, parent |-> kInvalidEndpointId, enabled |-> TRUE,
                  destroyable |-> FALSE, clusters |-> TRUE, inits |-> 0]
            a == Last
<1>1. PICK h \in Free : heap' = [heap EXCEPT ![h] = o] /\ next' = [next EXCEPT ![a] = h]
  BY DEF CreateStatic
<1>2. o \in Object /\ o.clusters
  BY DEF Object, CounterTypeOK
<1>3. a \in CellsIn(next) /\ next[a] = Nil
  BY LastIs
<1>. HIDE DEF o, a
<1>4. pc[Main] = "image" /\ UNCHANGED <<pc, mine, at>> /\ heap[h] = Nil /\ h \in Handle
  BY DEF CreateStatic, callVars, Free
<1>5. /\ heap \in [Handle -> Object \cup {Nil}] /\ next \in NextType /\ Chain(next)
      /\ \A t \in Task : pc[t] \in {"idle", "image"}
      /\ \A g \in Handle : heap[g] = Nil => next[g] = Nil
  BY <1>4 DEF PointerInv, PointerTypeOK, AloneInv
<1>6. ListedIn(next) \subseteq Handle /\ \A g \in ListedIn(next) : heap[g] # Nil /\ heap[g].clusters
  BY <1>5, ReachClosed DEF PointerInv, ObjectsOK, Bare
<1>7. h \in Handle \ ListedIn(next) /\ next[h] = Nil
  BY <1>4, <1>5, <1>6
<1>8. next' \in NextType /\ ListedIn(next') = ListedIn(next) \cup {h} /\ Chain(next')
  BY <1>1, <1>3, <1>5, <1>7, ReachAppend
<1>9. /\ heap' \in [Handle -> Object \cup {Nil}] /\ heap'[h] = o /\ o # Nil
      /\ \A g \in Handle \ {h} : heap'[g] = heap[g]
  BY <1>1, <1>2, <1>4, <1>5, NilAssumption
<1>10. PointerTypeOK'
  BY <1>4, <1>8, <1>9 DEF PointerInv, PointerTypeOK
<1>11. ObjectsOK'
  BY <1>2, <1>6, <1>8, <1>9 DEF ObjectsOK
<1>12. AloneInv'
  <2>1. \A g \in Handle : heap'[g] = Nil => heap[g] = Nil /\ g # h
    BY <1>9
  <2>2. \A g \in Handle : heap'[g] = Nil => next'[g] = Nil
    <3>. SUFFICES ASSUME NEW g \in Handle, heap'[g] = Nil PROVE next'[g] = Nil
      OBVIOUS
    <3>1. next[g] = Nil /\ heap[g] = Nil
      BY <1>5, <2>1
    <3>2. g # a
      BY <1>3, <1>6, <3>1, TasksAssumption DEF CellsIn
    <3>. QED
      BY <1>1, <1>5, <3>1, <3>2 DEF NextType, Cell
  <2>. QED
    BY <1>4, <2>2 DEF PointerInv, AloneInv
<1>13. \A t \in Task : PlaceOK(pc'[t], mine'[t], at'[t], heap', next')
  BY <1>4, <1>5, FreshOK DEF Fresh, Outside
<1>. QED
  BY <1>8, <1>10, <1>11, <1>12, <1>13 DEF PointerInv

\* An empty list, as node::create_raw makes it and a restart leaves it.
LEMMA EmptyPointers ==
    ASSUME NEW nx, nx = [c \in Cell |-> Nil]
    PROVE  nx \in NextType /\ ListedIn(nx) = {} /\ Chain(nx)
<1>1. nx \in NextType
  BY DEF NextType
<1>2. {} \in ClosedIn(nx)
  BY DEF ClosedIn, Cell
<1>3. ListedIn(nx) = {}
  BY <1>2 DEF ListedIn
<1>4. CellsIn(nx) = {ListHead} /\ nx[ListHead] = Nil
  BY <1>3 DEF CellsIn, Cell
<1>. QED
  BY <1>1, <1>3, <1>4 DEF Chain

LEMMA InitPointers == Init => CounterTypeOK /\ PointerInv
<1>. SUFFICES ASSUME Init PROVE CounterTypeOK /\ PointerInv
  OBVIOUS
<1>1. next \in NextType /\ ListedIn(next) = {} /\ Chain(next)
  BY EmptyPointers DEF Init
<1>2. CounterTypeOK /\ PointerTypeOK
  BY <1>1 DEF Init, CounterTypeOK, PointerTypeOK, Cell
<1>3. ObjectsOK /\ AloneInv
  BY <1>1 DEF Init, ObjectsOK, AloneInv, Cell
<1>4. \A t \in Task : pc[t] \in Fresh
  BY DEF Init, Fresh, Outside
<1>5. \A t \in Task : PlaceOK(pc[t], mine[t], at[t], heap, next)
  BY <1>4, FreshOK
<1>. QED
  BY <1>1, <1>2, <1>3, <1>5 DEF PointerInv

LEMMA RebootPointers ==
    ASSUME Reboot
    PROVE  PointerInv'
<1>1. next' \in NextType /\ ListedIn(next') = {} /\ Chain(next')
  BY EmptyPointers DEF Reboot
<1>2. PointerTypeOK'
  BY <1>1 DEF Reboot, PointerTypeOK, Cell
<1>3. ObjectsOK' /\ AloneInv'
  BY <1>1 DEF Reboot, ObjectsOK, AloneInv, Cell
<1>4. \A t \in Task : pc'[t] \in Fresh
  BY DEF Reboot, Fresh, Outside
<1>5. \A t \in Task : PlaceOK(pc'[t], mine'[t], at'[t], heap', next')
  BY <1>4, FreshOK
<1>. QED
  BY <1>1, <1>2, <1>3, <1>5 DEF PointerInv

\* The counter, whatever the step.
LEMMA CounterKept ==
    ASSUME CounterTypeOK, [Next]_vars
    PROVE  CounterTypeOK'
<1>1. CASE UNCHANGED <<id, minUnused, nvMin>>
  BY <1>1 DEF CounterTypeOK
<1>2. CASE Start
  BY SMT, <1>2 DEF Start, CreateStatic, ChipInit, ServerInit, EnableAll, Started, ReadMin, StoreMin,
     callVars, idVars, CounterTypeOK
<1>3. CASE MatterTask
  BY <1>1, <1>3 DEF MatterTask, Dispatch, Serve, ServeNext, Leave, idVars
<1>4. CASE Reboot
  BY <1>4 DEF Reboot, CounterTypeOK
<1>5. ASSUME NEW t \in App, Calls(t)
      PROVE  CounterTypeOK'
  BY <1>1, <1>5 DEF Calls, Call, idVars
<1>6. ASSUME NEW t \in App, CallStep(t)
      PROVE  CounterTypeOK'
  <2>0. t \in Task
    BY DEF App
  <2>1. CASE CreateTake(t) \/ CreateBump(t) \/ CreateSave(t) \/ Return(t)
    BY SMT, <2>0, <2>1 DEF CreateTake, CreateBump, CreateSave, Return, Quiet, idVars, CounterTypeOK
  <2>2. CASE \/ CreateCount(t) \/ ResumeSearch(t) \/ AppendWalk(t) \/ AppendLink(t) \/ Build(t)
             \/ EnableFlag(t) \/ DestroyFlag(t) \/ DestroyFind(t) \/ DestroyClusters(t)
             \/ DestroyUnlink(t) \/ DestroyFree(t) \/ UpdateLookup(t)
    BY <1>1, <2>2 DEF CreateCount, ResumeSearch, AppendWalk, AppendLink, Build, EnableFlag, DestroyFlag,
       DestroyFind, DestroyClusters, DestroyUnlink, DestroyFree, UpdateLookup, Quiet, idVars
  <2>3. ASSUME NEW l, NEW k, Enter(t, l, k) \/ Within(t, l, k)
        PROVE  CounterTypeOK'
    BY <1>1, <2>3 DEF Enter, Within, idVars
  <2>. QED
    BY <1>6, <2>1, <2>2, <2>3 DEF CallStep, EnableInit, DestroyReport, DestroyShutdown, UpdateSet
<1>7. CASE UNCHANGED vars
  BY <1>1, <1>7 DEF vars, callVars, idVars
<1>. QED
  BY <1>2, <1>3, <1>4, <1>5, <1>6, <1>7 DEF Next

LEMMA CallPointers ==
    ASSUME IInv, NoOverlap, PointerInv, NEW t \in Task, Calls(t)
    PROVE  PointerInv'
<1>1. PICK l \in {"create", "resume", "destroy", "update"} : Call(t, l)
  BY DEF Calls
<1>2. /\ pc[t] \in Outside /\ pc' = [pc EXCEPT ![t] = l] /\ UNCHANGED <<mine, at, heap, next>>
      /\ pc[Main] # "image"
  BY <1>1 DEF Call, Goto, listVars, Starting, Outside
<1>3. l \in Fresh /\ l # "image"
  BY DEF Fresh
<1>. QED
  BY <1>2, <1>3, OutsideStep

LEMMA NextPointers ==
    ASSUME IInv, NoOverlap, CounterTypeOK, PointerInv, [Next]_vars
    PROVE  PointerInv'
<1>1. ASSUME NEW t \in Task, CallStep(t)
      PROVE  PointerInv'
  BY <1>1, CreatePointers, FieldPointers, DestroyPointers, ScopePointers, LinkStep, UnlinkStep DEF CallStep
<1>2. CASE UNCHANGED vars
  <2>1. UNCHANGED <<pc, mine, at, heap, next>>
    BY <1>2 DEF vars, callVars, listVars
  <2>. QED
    BY <2>1 DEF PointerInv, PointerTypeOK, ObjectsOK, AloneInv
<1>3. CASE CreateStatic
  BY <1>3, StaticPointers
<1>4. CASE Reboot
  BY <1>4, RebootPointers
<1>5. CASE MatterTask \/ (Start /\ ~ CreateStatic)
  BY <1>5, StartPointers
<1>. QED
  BY <1>1, <1>2, <1>3, <1>4, <1>5, CallPointers DEF Next, App

LEMMA Pointers == Spec /\ []NoOverlap => [](IInv /\ PointerInv)
<1>1. IInv /\ NoOverlap /\ CounterTypeOK /\ PointerInv /\ [Next]_vars => CounterTypeOK' /\ PointerInv'
  BY CounterKept, NextPointers
<1>. QED
  BY <1>1, InitPointers, Invariant, PTL DEF Spec

\* In every run in which no two calls overlap, whether or not their callers hold
\* the stack lock, no task follows a pointer into memory another task has freed,
\* for any number of tasks, objects and calls, and also when tasks call while
\* start() runs or the init task fails: the Matter task in its walk,
\* attribute::update between its lookup and its write, append and destroy at the
\* cell they walked to.  So a dangling pointer takes two calls that overlap, and
\* DisciplineExcludes says what the callers can do about these.
THEOREM PointersStayValid == Spec /\ []NoOverlap => []NoDangling
<1>1. IInv /\ NoOverlap /\ PointerInv => NoDangling
  <2>. SUFFICES ASSUME IInv, NoOverlap, PointerInv, NEW t \in Task
                PROVE  /\ \A h \in Reached(t) : heap[h] # Nil
                       /\ pc[t] \in {"serve", "set"} => \A h \in Reached(t) : heap[h].clusters
    BY DEF NoDangling
  <2>1. CASE pc[t] \in Outside
    BY <2>1 DEF Outside, Reached
  <2>2. CASE pc[t] \notin Outside
    <3>1. ListOK(pc[t], mine[t], heap, next) /\ PlaceOK(pc[t], mine[t], at[t], heap, next)
      BY <2>2, OwnObjects DEF PointerInv
    <3>2. CASE pc[t] = "serve"
      <4>1. Reached(t) \subseteq ListedIn(next)
        BY <3>1, <3>2 DEF Reached, PlaceOK
      <4>. QED
        BY <3>1, <3>2, <4>1 DEF ListOK, Bare
    <3>3. CASE pc[t] = "set"
      <4>1. Reached(t) = {mine[t]} /\ mine[t] \in ListedIn(next)
        BY <3>1, <3>3 DEF Reached, PlaceOK, Using
      <4>. QED
        BY <3>1, <3>3, <4>1 DEF ListOK, Bare
    <3>4. CASE pc[t] \in {"report", "init", "build", "enable", "clusters", "unlink"}
      <4>1. mine[t] \in ListedIn(next) /\ pc[t] \notin {"serve", "set"}
        BY <3>1, <3>4 DEF PlaceOK, Using
      <4>2. Reached(t) \subseteq ListedIn(next)
        BY <3>1, <3>4, <4>1 DEF Reached, PlaceOK, Removing, CellsIn
      <4>. QED
        BY <3>1, <4>1, <4>2 DEF ListOK
    <3>5. CASE pc[t] \in {"link", "bump", "free"}
      <4>1. heap[mine[t]] # Nil /\ pc[t] \notin {"serve", "set"}
        BY <3>1, <3>5 DEF PlaceOK, Adding
      <4>2. Reached(t) \subseteq ListedIn(next) \cup {mine[t]}
        BY <3>1, <3>5 DEF Reached, PlaceOK, CellsIn
      <4>. QED
        BY <3>1, <4>1, <4>2 DEF ListOK
    <3>6. CASE pc[t] \notin {"serve", "set", "report", "init", "build", "enable", "clusters", "unlink",
                             "link", "bump", "free"}
      BY <3>6 DEF Reached
    <3>. QED
      BY <3>2, <3>3, <3>4, <3>5, <3>6
  <2>. QED
    BY <2>1, <2>2
<1>. QED
  BY <1>1, Pointers, PTL

-----------------------------------------------------------------------------
(* The init callbacks *)

\* No task calls the API before start() has returned, and the init task succeeds.
QuietStart == Early = {} /\ InitResults \subseteq {"ok"}

\* start() and the init task, which is scheduled once and before it notifies.
StartInv ==
    /\ pc[Matter] \in {"idle", "dispatch", "enable_all", "serve", "leave"}
    /\ Starting => \A t \in App \ {Main} : pc[t] = "idle"
    /\ pc[Main] \notin {"image", "wait"} => started
    /\ scheduled => pc[Main] = "wait" /\ pc[Matter] \in {"idle", "dispatch"}
    /\ notified => ~ scheduled /\ pc[Main] # "image"

\* Where a task is in a call with an object whose callbacks have not run.
Making == {"take", "bump", "save", "walk", "link", "build", "enable", "init lock", "init"}

\* Before provider::Startup no callback has run, and all objects are in the list;
\* later they have run once for every object, or a task is about to run them.
CountInv ==
    IF pc[Main] = "image" \/ scheduled
    THEN \A h \in Handle : heap[h] # Nil => h \in ListedIn(next) /\ heap[h].inits = 0
    ELSE \A h \in Handle : heap[h] # Nil =>
            heap[h].inits = IF \E t \in App : pc[t] \in Making /\ mine[t] = h THEN 0 ELSE 1

\* The same for the one task inside a call, at label l with the object m.
Ready(l, m, hp) ==
    \A h \in Handle : hp[h] # Nil => hp[h].inits = IF l \in Making /\ m = h THEN 0 ELSE 1

\* A step of a call: where it goes, and that it is none of start().
LEMMA CallMoves ==
    ASSUME IInv, NEW t \in Task, CallStep(t)
    PROVE  /\ pc[t] \notin Outside /\ UNCHANGED startVars
           /\ pc[t] \notin {"dispatch", "enable_all", "serve", "leave"}
           /\ \E l : pc' = [pc EXCEPT ![t] = l] /\ l \notin {"image", "wait", "read", "store"}
<1>0. /\ \A l \in Inside \cup {"idle"} : l \notin {"image", "wait", "read", "store"}
      /\ \A l \in {"create", "take", "bump", "save", "resume", "walk", "link", "build", "enable",
                   "destroy", "find", "clusters", "unlink", "free", "update", "return"} : l \notin Outside
  BY DEF Inside, Outside
<1>1. CASE \/ CreateCount(t) \/ CreateTake(t) \/ CreateBump(t) \/ CreateSave(t) \/ ResumeSearch(t)
           \/ AppendWalk(t) \/ AppendLink(t) \/ Build(t) \/ EnableFlag(t)
  <2>1. /\ pc[t] \in {"create", "take", "bump", "save", "resume", "walk", "link", "build", "enable"}
        /\ UNCHANGED startVars
    BY <1>1 DEF CreateCount, CreateTake, CreateBump, CreateSave, ResumeSearch, AppendWalk, AppendLink,
       Build, EnableFlag, Quiet
  <2>2. \E l \in Inside : pc' = [pc EXCEPT ![t] = l]
    BY <1>1 DEF CreateCount, CreateTake, CreateBump, CreateSave, ResumeSearch, AppendWalk, AppendLink,
       Build, EnableFlag, Quiet, Goto, Inside
  <2>. QED
    BY <2>1, <2>2, <1>0
<1>2. CASE \/ DestroyFlag(t) \/ DestroyFind(t) \/ DestroyClusters(t) \/ DestroyUnlink(t)
           \/ DestroyFree(t) \/ UpdateLookup(t) \/ Return(t)
  <2>1. /\ pc[t] \in {"destroy", "find", "clusters", "unlink", "free", "update", "return"}
        /\ UNCHANGED startVars
    BY <1>2 DEF DestroyFlag, DestroyFind, DestroyClusters, DestroyUnlink, DestroyFree, UpdateLookup,
       Return, Quiet
  <2>2. \E l \in Inside \cup {"idle"} : pc' = [pc EXCEPT ![t] = l]
    BY <1>2 DEF DestroyFlag, DestroyFind, DestroyClusters, DestroyUnlink, DestroyFree, UpdateLookup,
       Return, Quiet, Goto, Inside
  <2>. QED
    BY <2>1, <2>2, <1>0
<1>3. CASE \/ Enter(t, "init lock", "init") \/ Enter(t, "report lock", "report")
           \/ Enter(t, "shutdown lock", "shutdown") \/ Enter(t, "set lock", "set")
  BY <1>3 DEF Enter, Goto, Outside
<1>4. CASE EnableInit(t) \/ DestroyReport(t) \/ DestroyShutdown(t) \/ UpdateSet(t)
  BY <1>4 DEF EnableInit, DestroyReport, DestroyShutdown, UpdateSet, Within, Goto, Outside
<1>. QED
  BY <1>1, <1>2, <1>3, <1>4 DEF CallStep

\* A call begins only after start() has returned.
LEMMA CallBegins ==
    ASSUME QuietStart, NEW t \in Task, Calls(t)
    PROVE  /\ ~ Starting /\ pc[t] = "idle" /\ UNCHANGED <<mine, heap, next, startVars>>
           /\ \E l \in {"create", "resume", "destroy", "update"} : pc' = [pc EXCEPT ![t] = l]
BY DEF QuietStart, Calls, Call, Goto, listVars

LEMMA NextStart ==
    ASSUME QuietStart, IInv, PointerInv, StartInv, [Next]_vars
    PROVE  StartInv'
<1>0. /\ Main \in App /\ Matter \in Task /\ Main # Matter /\ App \subseteq Task /\ Matter \notin App
      /\ pc \in [Task -> Outside \cup Inside \cup Nested]
  BY TasksAssumption DEF App, IInv, DepthInv
<1>1. CASE UNCHANGED <<pc, startVars>>
  BY <1>1 DEF StartInv, Starting, startVars
<1>2. CASE CreateStatic \/ ServeNext \/ UNCHANGED vars
  BY <1>1, <1>2 DEF CreateStatic, ServeNext, callVars, vars
<1>3. CASE ChipInit
  <2>1. pc[Matter] = "idle" /\ ~ notified /\ Starting
    BY <1>0, <1>3 DEF ChipInit, PointerInv, AloneInv, StartInv, Starting
  <2>2. pc'[Main] = "wait" /\ \A t \in Task \ {Main} : pc'[t] = pc[t]
    BY <1>0, <1>3 DEF ChipInit, Goto
  <2>. QED
    BY <1>0, <1>3, <2>1, <2>2 DEF ChipInit, StartInv, Starting
<1>4. CASE ServerInit \/ EnableAll \/ Dispatch \/ Serve \/ Leave
  <2>1. \A t \in Task \ {Matter} : pc'[t] = pc[t]
    BY <1>0, <1>4 DEF ServerInit, EnableAll, Dispatch, Serve, Leave, Goto
  <2>2. /\ pc[Matter] \notin {"idle", "dispatch"} => ~ scheduled
        /\ pc[Matter] # "idle" => pc[Main] # "image"
    BY <1>0 DEF StartInv, PointerInv, AloneInv
  <2>3. /\ pc'[Matter] \in {"idle", "dispatch", "enable_all", "serve", "leave"}
        /\ started' = started
    BY <1>0, <1>4 DEF ServerInit, EnableAll, Dispatch, Serve, Leave, Goto, startVars
  <2>4. scheduled' => scheduled /\ pc'[Matter] \in {"idle", "dispatch"}
    BY <1>0, <1>4, <2>2 DEF ServerInit, EnableAll, Dispatch, Serve, Leave, Goto, startVars
  <2>5. notified' => notified \/ pc[Matter] = "enable_all"
    BY <1>4 DEF ServerInit, EnableAll, Dispatch, Serve, Leave, startVars
  <2>. QED
    BY <1>0, <2>1, <2>2, <2>3, <2>4, <2>5 DEF StartInv, Starting
<1>5. CASE Started \/ ReadMin \/ StoreMin
  <2>1. /\ pc'[Main] \in {"read", "store", "idle"} /\ \A t \in Task \ {Main} : pc'[t] = pc[t]
        /\ UNCHANGED <<scheduled, notified>> /\ Starting
    BY <1>0, <1>5 DEF Started, ReadMin, StoreMin, Goto, startVars, Starting
  <2>2. started' /\ ~ scheduled
    BY <1>5 DEF Started, ReadMin, StoreMin, startVars, StartInv
  <2>. QED
    BY <1>0, <2>1, <2>2 DEF StartInv, Starting
<1>6. CASE Reboot
  BY <1>0, <1>6 DEF Reboot, StartInv, Starting
<1>7. ASSUME NEW t \in App, NEW l, ~ Starting, UNCHANGED startVars,
             pc' = [pc EXCEPT ![t] = l], l \notin {"image", "wait", "read", "store"}
      PROVE  StartInv'
  <2>1. pc'[t] = l /\ \A u \in Task \ {t} : pc'[u] = pc[u]
    BY <1>0, <1>7
  <2>2. pc'[Main] \notin {"image", "wait", "read", "store"} /\ pc'[Matter] = pc[Matter]
    BY <1>0, <1>7, <2>1 DEF Starting
  <2>3. started /\ ~ scheduled
    BY <1>7 DEF StartInv, Starting
  <2>. QED
    BY <1>7, <2>2, <2>3 DEF StartInv, Starting, startVars
<1>8. ASSUME NEW t \in App, Calls(t)
      PROVE  StartInv'
  BY <1>0, <1>7, <1>8, CallBegins
<1>9. ASSUME NEW t \in App, CallStep(t)
      PROVE  StartInv'
  <2>1. ~ Starting
    BY <1>0, <1>9, CallMoves DEF StartInv, Starting, Outside
  <2>. QED
    BY <1>0, <1>7, <1>9, <2>1, CallMoves
<1>. QED
  BY <1>2, <1>3, <1>4, <1>5, <1>6, <1>8, <1>9 DEF Next, Start, MatterTask

\* A step of a call keeps the counts when they fit for its task.
LEMMA CountStep ==
    ASSUME IInv, NoOverlap, StartInv, PointerInv, NEW t \in App, CallStep(t),
           NEW l, NEW m, pc' = [pc EXCEPT ![t] = l], mine' = [mine EXCEPT ![t] = m],
           CountInv => (Ready(pc[t], mine[t], heap) => Ready(l, m, heap'))
    PROVE  CountInv => CountInv'
<1>. SUFFICES ASSUME CountInv PROVE CountInv'
  OBVIOUS
<1>1. /\ t \in Task /\ Main \in App /\ App \subseteq Task /\ pc[t] \notin Outside
      /\ UNCHANGED startVars /\ \A u \in Task \ {t} : pc[u] \in Outside
  BY CallMoves, Alone, TasksAssumption DEF App
<1>2. /\ pc'[t] = l /\ mine'[t] = m
      /\ \A u \in Task \ {t} : pc'[u] = pc[u] /\ mine'[u] = mine[u]
  BY <1>1 DEF IInv, DepthInv, PointerInv, PointerTypeOK
<1>3. ~ Starting /\ ~ scheduled
  BY <1>1 DEF StartInv, Starting, Outside
<1>4. l \notin {"image", "wait", "read", "store"}
  BY <1>1, <1>2, CallMoves DEF IInv, DepthInv
<1>5. pc[Main] # "image" /\ pc'[Main] # "image" /\ ~ scheduled'
  BY <1>1, <1>2, <1>3, <1>4 DEF Starting, startVars
<1>6. \A u \in Task \ {t} : pc[u] \notin Making /\ pc'[u] \notin Making
  BY <1>1, <1>2 DEF Outside, Making
<1>7. Ready(pc[t], mine[t], heap)
  BY <1>1, <1>5, <1>3, <1>6 DEF CountInv, Ready
<1>8. Ready(l, m, heap')
  BY <1>7
<1>. QED
  BY SMT, <1>1, <1>2, <1>5, <1>6, <1>8 DEF CountInv, Ready

\* The accesses that write no object.
LEMMA QuietCount ==
    ASSUME IInv, NoOverlap, StartInv, PointerInv, CountInv, NEW t \in App, CallStep(t), NEW l, NEW m,
           pc' = [pc EXCEPT ![t] = l], mine' = [mine EXCEPT ![t] = m], UNCHANGED heap,
           \/ pc[t] \notin Making /\ l \notin Making
           \/ pc[t] \in Making /\ l \in Making /\ m = mine[t]
    PROVE  CountInv'
<1>1. Ready(pc[t], mine[t], heap) => Ready(l, m, heap')
  BY DEF Ready
<1>. QED
  BY <1>1, CountStep

\* Those that write an object g and not its count, or free it.
LEMMA FieldCount ==
    ASSUME IInv, NoOverlap, StartInv, PointerInv, CountInv, NEW t \in App, CallStep(t), NEW l, NEW m,
           pc' = [pc EXCEPT ![t] = l], mine' = [mine EXCEPT ![t] = m],
           NEW g \in Handle, NEW o, heap' = [heap EXCEPT ![g] = o],
           o = Nil \/ (heap[g] # Nil /\ o.inits = heap[g].inits),
           \/ pc[t] \notin Making /\ l \notin Making
           \/ pc[t] \in Making /\ l \in Making /\ m = mine[t]
    PROVE  CountInv'
<1>1. heap'[g] = o /\ \A h \in Handle \ {g} : heap'[h] = heap[h]
  BY DEF PointerInv, PointerTypeOK
<1>2. Ready(pc[t], mine[t], heap) => Ready(l, m, heap')
  BY <1>1 DEF Ready
<1>. QED
  BY <1>2, CountStep

\* The object that create or resume allocates, and the callbacks of enable().
LEMMA WriteCount ==
    ASSUME IInv, NoOverlap, StartInv, PointerInv, CountInv, NEW t \in App, CallStep(t), NEW l,
           NEW g \in Handle, NEW o, heap' = [heap EXCEPT ![g] = o],
           pc' = [pc EXCEPT ![t] = l], mine' = [mine EXCEPT ![t] = g],
           \/ pc[t] \notin Making /\ l \in Making /\ o.inits = 0
           \/ pc[t] \in Making /\ l \notin Making /\ mine[t] = g /\ o.inits = 1
    PROVE  CountInv'
<1>1. heap'[g] = o /\ \A h \in Handle \ {g} : heap'[h] = heap[h]
  BY DEF PointerInv, PointerTypeOK
<1>2. Ready(pc[t], mine[t], heap) => Ready(l, g, heap')
  BY <1>1 DEF Ready
<1>. QED
  BY <1>2, CountStep

\* What resume may ask for is a number.
LEMMA Below == \A n \in Nat : 0 .. n \subseteq Nat
BY SMT

\* endpoint::create, resume and enable.
LEMMA CreateCounts ==
    ASSUME IInv, NoOverlap, CounterTypeOK, StartInv, PointerInv, CountInv, NEW t \in App, CallStep(t),
           \/ CreateCount(t) \/ CreateTake(t) \/ CreateBump(t) \/ CreateSave(t) \/ ResumeSearch(t)
           \/ AppendWalk(t) \/ AppendLink(t) \/ Build(t) \/ EnableFlag(t) \/ EnableInit(t)
           \/ Enter(t, "init lock", "init")
    PROVE  CountInv'
<1>. DEFINE m == mine[t]
<1>0. /\ t \in Task /\ mine = [mine EXCEPT ![t] = m] /\ PlaceOK(pc[t], m, at[t], heap, next)
      /\ heap \in [Handle -> Object \cup {Nil}] /\ next \in NextType
  BY DEF App, PointerInv, PointerTypeOK
<1>i. 0 .. minUnused \subseteq Nat
  BY Below DEF CounterTypeOK
<1>1. CASE CreateCount(t) \/ ResumeSearch(t)
  <2>0. pc[t] \notin Making
    BY <1>1 DEF CreateCount, ResumeSearch, Making
  <2>1. CASE pc' = [pc EXCEPT ![t] = "return"] /\ UNCHANGED <<mine, heap>>
    <3>1. "return" \notin Making
      BY DEF Making
    <3>. QED
      BY <1>0, <2>0, <2>1, <3>1, QuietCount
  <2>2. ASSUME NEW h \in Free, NEW l \in {"take", "walk"}, NEW o, o.inits = 0,
               pc' = [pc EXCEPT ![t] = l], mine' = [mine EXCEPT ![t] = h],
               heap' = [heap EXCEPT ![h] = o]
        PROVE  CountInv'
    <3>1. h \in Handle /\ l \in Making
      BY DEF Free, Making
    <3>. QED
      BY <2>0, <2>2, <3>1, WriteCount
  <2>3. \/ pc' = [pc EXCEPT ![t] = "return"] /\ UNCHANGED <<mine, heap>>
        \/ \E h \in Free, l \in {"take", "walk"}, o \in Object :
              /\ o.inits = 0 /\ heap' = [heap EXCEPT ![h] = o]
              /\ pc' = [pc EXCEPT ![t] = l] /\ mine' = [mine EXCEPT ![t] = h]
    <3>1. CASE CreateCount(t)
      <4>. DEFINE o == [id |-> 0, parent |-> kInvalidEndpointId, enabled |-> TRUE,
                        destroyable |-> TRUE, clusters |-> FALSE, inits |-> 0]
      <4>1. o \in Object /\ o.inits = 0
        BY DEF Object
      <4>2. \/ pc' = [pc EXCEPT ![t] = "return"] /\ UNCHANGED <<mine, heap>>
            \/ \E h \in Free : /\ heap' = [heap EXCEPT ![h] = o] /\ mine' = [mine EXCEPT ![t] = h]
                               /\ pc' = [pc EXCEPT ![t] = "take"]
        BY <3>1 DEF CreateCount, Goto, listVars
      <4>. HIDE DEF o
      <4>. QED
        BY <4>1, <4>2
    <3>2. CASE ResumeSearch(t)
      <4>. DEFINE o(i) == [id |-> i, parent |-> 0, enabled |-> FALSE, destroyable |-> TRUE,
                           clusters |-> FALSE, inits |-> 0]
      <4>1. \/ pc' = [pc EXCEPT ![t] = "return"] /\ UNCHANGED <<mine, heap>>
            \/ \E i \in Nat, h \in Free :
                  /\ heap' = [heap EXCEPT ![h] = o(i)] /\ mine' = [mine EXCEPT ![t] = h]
                  /\ pc' = [pc EXCEPT ![t] = "walk"]
        <5>1. PICK i \in 0 .. minUnused :
                 IF Named(i) = {} /\ i < minUnused
                 THEN \E h \in Free : /\ mine' = [mine EXCEPT ![t] = h]
                                      /\ heap' = [heap EXCEPT ![h] = o(i)]
                                      /\ pc' = [pc EXCEPT ![t] = "walk"]
                 ELSE pc' = [pc EXCEPT ![t] = "return"] /\ UNCHANGED <<mine, heap>>
          BY <3>2 DEF ResumeSearch, Goto, listVars
        <5>. HIDE DEF o
        <5>. QED
          BY <1>i, <5>1
      <4>2. \A i \in Nat : o(i) \in Object /\ o(i).inits = 0
        BY DEF Object
      <4>. HIDE DEF o
      <4>. QED
        BY <4>1, <4>2
    <3>. QED
      BY <1>1, <3>1, <3>2
  <2>. QED
    BY <2>1, <2>2, <2>3
<1>2. CASE \/ CreateTake(t) \/ CreateSave(t) \/ AppendWalk(t) \/ AppendLink(t)
           \/ Enter(t, "init lock", "init")
  <2>1. pc[t] \in Making /\ UNCHANGED <<mine, heap>>
    BY <1>2 DEF CreateTake, CreateSave, AppendWalk, AppendLink, Enter, Quiet, listVars, Making
  <2>2. \E l \in Making : pc' = [pc EXCEPT ![t] = l]
    BY <1>2 DEF CreateTake, CreateSave, AppendWalk, AppendLink, Enter, Quiet, Goto, Making
  <2>. QED
    BY <1>0, <2>1, <2>2, QuietCount
<1>3. ASSUME pc[t] \in {"bump", "build", "enable", "init"}
      PROVE  m \in Handle /\ heap[m] \in Object
  <2>1. m \in Handle /\ heap[m] # Nil
    <3>1. CASE pc[t] = "bump"
      BY <1>0, <3>1 DEF PlaceOK, Adding
    <3>2. CASE pc[t] # "bump"
      <4>1. m \in ListedIn(next) /\ pc[t] \notin Outside
        BY <1>0, <1>3, <3>2 DEF PlaceOK, Using, Outside
      <4>. QED
        BY <1>0, <4>1, ReachClosed, OwnObjects DEF ListOK
    <3>. QED
      BY <3>1, <3>2
  <2>. QED
    BY <1>0, <2>1
<1>4. CASE CreateBump(t) \/ Build(t) \/ EnableFlag(t)
  <2>1. pc[t] \in {"bump", "build", "enable"} /\ UNCHANGED mine
    BY <1>4 DEF CreateBump, Build, EnableFlag
  <2>2. m \in Handle /\ heap[m] \in Object
    BY <1>3, <2>1
  <2>3. PICK o : heap' = [heap EXCEPT ![m] = o] /\ o.inits = heap[m].inits
    <3>1. \/ heap' = [heap EXCEPT ![m] = [heap[m] EXCEPT !.id = id[t]]]
          \/ heap' = [heap EXCEPT ![m] = [heap[m] EXCEPT !.clusters = TRUE]]
          \/ heap' = [heap EXCEPT ![m] = [heap[m] EXCEPT !.enabled = TRUE]]
      BY <1>4 DEF CreateBump, Build, EnableFlag
    <3>2. /\ [heap[m] EXCEPT !.id = id[t]].inits = heap[m].inits
          /\ [heap[m] EXCEPT !.clusters = TRUE].inits = heap[m].inits
          /\ [heap[m] EXCEPT !.enabled = TRUE].inits = heap[m].inits
      BY <2>2 DEF Object
    <3>. QED
      BY <3>1, <3>2
  <2>4. \E l \in Making : pc' = [pc EXCEPT ![t] = l]
    <3>1. CASE CreateBump(t) \/ Build(t)
      BY <3>1 DEF CreateBump, Build, Goto, Making
    <3>2. CASE EnableFlag(t)
      <4>1. started
        BY <3>2, TasksAssumption DEF EnableFlag, StartInv, Starting, App
      <4>. QED
        BY <3>2, <4>1 DEF EnableFlag, Goto, Making
    <3>. QED
      BY <1>4, <3>1, <3>2
  <2>5. pc[t] \in Making /\ mine' = [mine EXCEPT ![t] = m] /\ heap[m] # Nil
    BY <1>0, <2>1, <2>2, NilAssumption DEF Making
  <2>. HIDE DEF m
  <2>. QED
    BY <2>2, <2>3, <2>4, <2>5, FieldCount DEF m
<1>5. CASE EnableInit(t)
  <2>1. /\ pc[t] = "init" /\ pc' = [pc EXCEPT ![t] = "return"] /\ UNCHANGED mine
        /\ heap' = [heap EXCEPT ![m] = [heap[m] EXCEPT !.inits = @ + 1]]
        /\ pc[t] \in Making /\ "return" \notin Making
    BY <1>5 DEF EnableInit, Within, Goto, Making
  <2>. DEFINE o == [heap[m] EXCEPT !.inits = @ + 1]
  <2>2. m \in Handle /\ heap[m] \in Object
    BY <1>3, <2>1
  <2>3. pc[Main] # "image" /\ ~ scheduled
    BY <1>0, <2>1, OwnObjects, TasksAssumption DEF StartInv, Starting, App, Outside
  <2>4. heap[m].inits = 0
    BY <2>1, <2>2, <2>3, NilAssumption DEF CountInv
  <2>5. o.inits = 1
    <3>. DEFINE p == heap[m]
    <3>1. p \in Object /\ p.inits = 0 /\ o = [p EXCEPT !.inits = @ + 1]
      BY <2>2, <2>4
    <3>. HIDE DEF o, p
    <3>. QED
      BY <3>1, Counted
  <2>6. heap' = [heap EXCEPT ![m] = o] /\ mine' = [mine EXCEPT ![t] = m]
    BY <1>0, <2>1
  <2>. HIDE DEF o
  <2>. QED
    BY <2>1, <2>2, <2>5, <2>6, WriteCount
<1>. QED
  BY <1>1, <1>2, <1>4, <1>5

\* endpoint::destroy, attribute::update and the return.
LEMMA DestroyCounts ==
    ASSUME IInv, NoOverlap, StartInv, PointerInv, CountInv, NEW t \in App, CallStep(t),
           \/ DestroyFlag(t) \/ DestroyReport(t) \/ DestroyFind(t) \/ DestroyShutdown(t)
           \/ DestroyClusters(t) \/ DestroyUnlink(t) \/ DestroyFree(t)
           \/ UpdateLookup(t) \/ UpdateSet(t) \/ Return(t)
           \/ Enter(t, "report lock", "report") \/ Enter(t, "shutdown lock", "shutdown")
           \/ Enter(t, "set lock", "set")
    PROVE  CountInv'
<1>. DEFINE m == mine[t]
            Other == {"report lock", "report", "find", "shutdown lock", "shutdown", "clusters", "unlink",
                      "free", "set lock", "set", "return", "idle"}
<1>0. /\ t \in Task /\ mine = [mine EXCEPT ![t] = m] /\ PlaceOK(pc[t], m, at[t], heap, next)
      /\ heap \in [Handle -> Object \cup {Nil}] /\ next \in NextType
      /\ \A l \in Other \cup {"destroy", "update"} : l \notin Making
  BY DEF App, PointerInv, PointerTypeOK, Making
<1>1. CASE \/ DestroyReport(t) \/ DestroyFind(t) \/ DestroyShutdown(t) \/ DestroyUnlink(t)
           \/ UpdateSet(t) \/ Enter(t, "report lock", "report")
           \/ Enter(t, "shutdown lock", "shutdown") \/ Enter(t, "set lock", "set")
  <2>1. pc[t] \in Other /\ UNCHANGED <<mine, heap>>
    BY <1>1 DEF DestroyReport, DestroyFind, DestroyShutdown, DestroyUnlink, UpdateSet, Enter, Within, Quiet,
       listVars
  <2>2. \E l \in Other : pc' = [pc EXCEPT ![t] = l]
    BY <1>1 DEF DestroyReport, DestroyFind, DestroyShutdown, DestroyUnlink, UpdateSet, Enter, Within, Quiet,
       Goto
  <2>. HIDE DEF Other
  <2>. QED
    BY <1>0, <2>1, <2>2, QuietCount
<1>2. CASE UpdateLookup(t) \/ Return(t)
  <2>1. pc[t] \in Other \cup {"destroy", "update"} /\ UNCHANGED heap
    BY <1>2 DEF UpdateLookup, Return, Quiet, listVars
  <2>2. \E l \in Other : pc' = [pc EXCEPT ![t] = l]
    BY <1>2 DEF UpdateLookup, Return, Quiet, Goto
  <2>3. \E h : mine' = [mine EXCEPT ![t] = h]
    BY <1>0, <1>2 DEF UpdateLookup, Return
  <2>. HIDE DEF Other
  <2>. QED
    BY <1>0, <2>1, <2>2, <2>3, QuietCount
<1>3. ASSUME NEW g \in Handle, NEW o, NEW l \in Other, pc[t] \in Other \cup {"destroy", "update"},
             pc' = [pc EXCEPT ![t] = l], mine' = [mine EXCEPT ![t] = g], heap' = [heap EXCEPT ![g] = o],
             o = Nil \/ (heap[g] # Nil /\ o.inits = heap[g].inits)
      PROVE  CountInv'
  <2>1. pc[t] \notin Making /\ l \notin Making
    BY <1>0, <1>3
  <2>. HIDE DEF Other
  <2>. QED
    BY <1>3, <2>1, FieldCount
<1>4. \A h \in ListedIn(next) : h \in Handle /\ heap[h] # Nil /\ heap[h] \in Object
  BY <1>0, ReachClosed DEF PointerInv, ObjectsOK
<1>5. CASE DestroyFlag(t)
  <2>1. CASE pc' = [pc EXCEPT ![t] = "return"] /\ UNCHANGED <<mine, heap>>
    <3>1. pc[t] \notin Making /\ "return" \notin Making
      BY <1>5 DEF DestroyFlag, Making
    <3>. QED
      BY <1>0, <2>1, <3>1, QuietCount
  <2>2. ASSUME NEW h \in ListedIn(next), pc' = [pc EXCEPT ![t] = "report lock"],
               mine' = [mine EXCEPT ![t] = h],
               heap' = [heap EXCEPT ![h] = [heap[h] EXCEPT !.enabled = FALSE]]
        PROVE  CountInv'
    <3>1. [heap[h] EXCEPT !.enabled = FALSE].inits = heap[h].inits
      BY <1>4 DEF Object
    <3>2. pc[t] = "destroy" /\ h \in Handle /\ heap[h] # Nil
      BY <1>4, <1>5 DEF DestroyFlag
    <3>. QED
      BY <1>3, <2>2, <3>1, <3>2
  <2>. QED
    BY <1>5, <2>1, <2>2, ListIs DEF DestroyFlag, Goto
<1>6. CASE DestroyClusters(t)
  <2>1. /\ pc[t] = "clusters" /\ pc' = [pc EXCEPT ![t] = "unlink"] /\ UNCHANGED mine
        /\ heap' = [heap EXCEPT ![m] = [heap[m] EXCEPT !.clusters = FALSE]]
    BY <1>6 DEF DestroyClusters, Goto
  <2>2. m \in ListedIn(next)
    BY <1>0, <2>1 DEF PlaceOK, Using
  <2>3. m \in Handle /\ heap[m] # Nil /\ heap[m] \in Object
    BY <1>4, <2>2
  <2>4. [heap[m] EXCEPT !.clusters = FALSE].inits = heap[m].inits
    BY <2>3 DEF Object
  <2>. QED
    BY <1>0, <1>3, <2>1, <2>3, <2>4
<1>7. CASE DestroyFree(t)
  <2>1. /\ pc[t] = "free" /\ pc' = [pc EXCEPT ![t] = "return"] /\ UNCHANGED mine
        /\ heap' = [heap EXCEPT ![m] = Nil]
    BY <1>7 DEF DestroyFree, Goto
  <2>2. m \in Handle
    BY <1>0, <2>1 DEF PlaceOK
  <2>. QED
    BY <1>0, <1>3, <2>1, <2>2
<1>. QED
  BY <1>1, <1>2, <1>5, <1>6, <1>7

\* start() and the Matter task.
LEMMA StartCounts ==
    ASSUME QuietStart, IInv, CounterTypeOK, StartInv, PointerInv, CountInv, Start \/ MatterTask
    PROVE  CountInv'
<1>0. /\ Main \in App /\ Matter \in Task /\ Main # Matter /\ App \subseteq Task /\ Matter \notin App
      /\ pc \in [Task -> Outside \cup Inside \cup Nested]
      /\ heap \in [Handle -> Object \cup {Nil}] /\ next \in NextType /\ Chain(next)
  BY TasksAssumption DEF App, IInv, DepthInv, PointerInv, PointerTypeOK
<1>1. CASE CreateStatic
  <2>. DEFINE o == [id |-> minUnused, parent |-> kInvalidEndpointId, enabled |-> TRUE,
                    destroyable |-> FALSE, clusters |-> TRUE, inits |-> 0]
  <2>1. PICK h \in Free : heap' = [heap EXCEPT ![h] = o] /\ next' = [next EXCEPT ![Last] = h]
    BY <1>1 DEF CreateStatic
  <2>2. o.inits = 0
    OBVIOUS
  <2>. HIDE DEF o
  <2>3. pc[Main] = "image" /\ UNCHANGED pc /\ h \in Handle /\ heap[h] = Nil
    BY <1>1 DEF CreateStatic, callVars, Free
  <2>4. \A g \in Handle : heap[g] # Nil => g \in ListedIn(next) /\ heap[g].inits = 0
    BY <2>3 DEF CountInv
  <2>5. h \notin ListedIn(next) /\ next[h] = Nil
    BY <2>3 DEF PointerInv, ObjectsOK, AloneInv
  <2>6. Last \in CellsIn(next) /\ next[Last] = Nil
    BY LastIs
  <2>7. ListedIn(next') = ListedIn(next) \cup {h}
    BY <1>0, <2>1, <2>3, <2>5, <2>6, ReachAppend
  <2>8. heap'[h] = o /\ \A g \in Handle \ {h} : heap'[g] = heap[g]
    BY <1>0, <2>1, <2>3
  <2>9. \A g \in Handle : heap'[g] # Nil => g \in ListedIn(next') /\ heap'[g].inits = 0
    BY <2>2, <2>4, <2>7, <2>8
  <2>. QED
    BY <2>3, <2>9 DEF CountInv
<1>2. ASSUME UNCHANGED <<mine, heap, next>>, \A t \in App : pc'[t] \in Making <=> pc[t] \in Making,
             (pc'[Main] = "image" \/ scheduled') <=> (pc[Main] = "image" \/ scheduled)
      PROVE  CountInv'
  BY <1>2 DEF CountInv
<1>3. CASE ChipInit \/ Started \/ ReadMin \/ StoreMin
  <2>1. pc[Main] \in {"image", "wait", "read", "store"} /\ UNCHANGED <<mine, heap, next>>
    BY <1>3 DEF ChipInit, Started, ReadMin, StoreMin, listVars
  <2>2. pc'[Main] \in {"wait", "read", "store", "idle"} /\ \A t \in Task \ {Main} : pc'[t] = pc[t]
    BY <1>0, <1>3 DEF ChipInit, Started, ReadMin, StoreMin, Goto
  <2>3. (pc'[Main] = "image" \/ scheduled') <=> (pc[Main] = "image" \/ scheduled)
    BY SMT, <1>3, <2>2 DEF ChipInit, Started, ReadMin, StoreMin, startVars
  <2>4. \A t \in App : pc'[t] \in Making <=> pc[t] \in Making
    BY <1>0, <2>1, <2>2 DEF Making
  <2>. QED
    BY <1>2, <2>1, <2>3, <2>4
<1>4. CASE MatterTask
  <2>1. UNCHANGED <<mine, heap, next, scheduled>> /\ \A t \in App : pc'[t] = pc[t]
    BY <1>0, <1>4 DEF MatterTask, Dispatch, Serve, ServeNext, Leave, Goto, listVars, startVars
  <2>. QED
    BY <1>0, <1>2, <2>1
<1>5. CASE ServerInit
  <2>1. pc[Main] = "wait" /\ scheduled
    BY <1>5 DEF ServerInit, StartInv
  <2>2. \A t \in App : pc[t] \notin Making
    BY <2>1 DEF StartInv, Starting, Making
  <2>3. (\A t \in App : pc'[t] = pc[t]) /\ ~ scheduled'
    BY <1>0, <1>5 DEF ServerInit, Goto
  <2>4. \A h \in Handle : heap[h] # Nil => h \in Listed /\ heap[h].inits = 0
    BY <2>1, ListIs DEF CountInv
  <2>5. heap' = [h \in Handle |-> IF h \in Listed THEN [heap[h] EXCEPT !.inits = @ + 1] ELSE heap[h]]
    BY <1>5 DEF ServerInit, QuietStart
  <2>6. ASSUME NEW h \in Handle, heap'[h] # Nil
        PROVE  heap'[h].inits = 1
    <3>1. h \in Listed
      BY <2>4, <2>5, <2>6
    <3>. DEFINE o == heap[h]
                p == heap'[h]
    <3>2. o # Nil
      BY <3>1, ListIs DEF PointerInv, ObjectsOK
    <3>3. o \in Object /\ o.inits = 0 /\ p = [o EXCEPT !.inits = @ + 1]
      BY <1>0, <2>4, <2>5, <3>1, <3>2
    <3>4. p.inits = 1
      <4>. HIDE DEF o, p
      <4>. QED
        BY <3>3, Counted
    <3>. QED
      BY <3>4
  <2>. QED
    BY <1>0, <2>1, <2>2, <2>3, <2>6 DEF CountInv
<1>6. CASE EnableAll
  <2>1. ~ scheduled /\ pc[Main] # "image" /\ UNCHANGED <<mine, scheduled>>
    BY SMT, <1>0, <1>6 DEF EnableAll, StartInv, PointerInv, AloneInv
  <2>2. \A t \in App : pc'[t] = pc[t]
    BY <1>0, <1>6 DEF EnableAll, Goto
  <2>3. heap' = [h \in Handle |-> IF h \in Listed THEN [heap[h] EXCEPT !.enabled = TRUE] ELSE heap[h]]
    BY <1>6 DEF EnableAll
  <2>4. ASSUME NEW h \in Handle, heap'[h] # Nil
        PROVE  heap[h] # Nil /\ heap'[h].inits = heap[h].inits
    <3>1. CASE h \in Listed
      <4>. DEFINE o == heap[h]
                  p == heap'[h]
      <4>1. o # Nil
        BY <3>1, ListIs DEF PointerInv, ObjectsOK
      <4>2. o \in Object /\ p = [o EXCEPT !.enabled = TRUE]
        BY <1>0, <2>3, <3>1, <4>1
      <4>3. p.inits = o.inits
        <5>. HIDE DEF o, p
        <5>. QED
          BY <4>2, Flagged
      <4>. QED
        BY <4>1, <4>3
    <3>2. CASE h \notin Listed
      BY <2>3, <2>4, <3>2
    <3>. QED
      BY <3>1, <3>2
  <2>. QED
    BY SMT, <1>0, <2>1, <2>2, <2>4 DEF CountInv
<1>. QED
  BY <1>1, <1>3, <1>4, <1>5, <1>6 DEF Start

LEMMA NextCount ==
    ASSUME QuietStart, IInv, NoOverlap, CounterTypeOK, StartInv, PointerInv, CountInv, [Next]_vars
    PROVE  CountInv'
<1>1. CASE Start \/ MatterTask
  BY <1>1, StartCounts
<1>2. CASE Reboot
  <2>1. \A h \in Handle : heap'[h] = Nil
    BY <1>2 DEF Reboot
  <2>. QED
    BY <2>1 DEF CountInv
<1>3. ASSUME NEW t \in App, CallStep(t)
      PROVE  CountInv'
  BY <1>3, CreateCounts, DestroyCounts DEF CallStep
<1>4. ASSUME NEW t \in App, Calls(t)
      PROVE  CountInv'
  <2>0. t \in Task /\ Main \in Task /\ pc \in [Task -> Outside \cup Inside \cup Nested] /\ App \subseteq Task
    BY TasksAssumption DEF App, IInv, DepthInv
  <2>1. /\ ~ Starting /\ pc[t] = "idle" /\ UNCHANGED <<mine, heap, next, startVars>>
        /\ \E l \in {"create", "resume", "destroy", "update"} : pc' = [pc EXCEPT ![t] = l]
    BY <1>4, <2>0, CallBegins
  <2>2. /\ pc'[t] \in {"create", "resume", "destroy", "update"}
        /\ \A u \in Task \ {t} : pc'[u] = pc[u]
    BY <2>0, <2>1
  <2>3. \A u \in App : pc'[u] \in Making <=> pc[u] \in Making
    BY <2>0, <2>1, <2>2 DEF Making
  <2>4. pc[Main] # "image" /\ pc'[Main] # "image" /\ UNCHANGED scheduled
    BY <2>0, <2>1, <2>2 DEF Starting, startVars
  <2>. QED
    BY <2>1, <2>3, <2>4 DEF CountInv
<1>5. CASE UNCHANGED vars
  <2>1. UNCHANGED <<pc, mine, heap, next, scheduled>>
    BY <1>5 DEF vars, callVars, listVars, startVars
  <2>. QED
    BY <2>1 DEF CountInv
<1>. QED
  BY <1>1, <1>2, <1>3, <1>4, <1>5 DEF Next

\* In every run in which no two calls overlap, no task calls before start() has
\* returned, and the init task succeeds, for any number of tasks, objects and
\* calls, the init callbacks of an endpoint run once: in provider::Startup or in
\* enable(), never in both, and they have run when start() or the call that adds
\* the endpoint has returned.
THEOREM CallbacksRunOnce ==
    ASSUME QuietStart
    PROVE  Spec /\ []NoOverlap => []InitOnce
<1>1. Init => StartInv /\ CountInv
  <2>. SUFFICES ASSUME Init PROVE StartInv /\ CountInv
    OBVIOUS
  <2>1. StartInv
    BY TasksAssumption DEF Init, StartInv, Starting, App
  <2>2. \A h \in Handle : heap[h] = Nil
    BY DEF Init
  <2>. QED
    BY <2>1, <2>2 DEF CountInv
<1>2. IInv /\ NoOverlap /\ CounterTypeOK /\ PointerInv /\ StartInv /\ CountInv /\ [Next]_vars
        => CounterTypeOK' /\ StartInv' /\ CountInv'
  BY CounterKept, NextStart, NextCount
<1>3. StartInv /\ CountInv => InitOnce
  <2>. SUFFICES ASSUME StartInv, CountInv, NEW h \in Handle, heap[h] # Nil
                PROVE  /\ heap[h].inits <= 1
                       /\ ~ Starting /\ (\A t \in Task : mine[t] # h) => heap[h].inits = 1
    BY DEF InitOnce
  <2>1. heap[h].inits \in {0, 1}
    BY DEF CountInv
  <2>2. ASSUME ~ Starting, \A t \in Task : mine[t] # h
        PROVE  heap[h].inits = 1
    <3>1. pc[Main] # "image" /\ ~ scheduled
      BY <2>2 DEF StartInv, Starting
    <3>2. \A t \in App : mine[t] # h
      BY <2>2 DEF App
    <3>. QED
      BY <3>1, <3>2 DEF CountInv
  <2>. QED
    BY SMT, <2>1, <2>2
<1>. QED
  BY <1>1, <1>2, <1>3, InitPointers, Pointers, PTL DEF Spec

=============================================================================
