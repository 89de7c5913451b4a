----------------------------- MODULE StackLock -----------------------------
(***************************************************************************)
(* lock::ScopedChipStackLock (esp_matter_core.h, esp_matter_core.cpp): the *)
(* scoped lock over the one mutex of the Matter stack.  A scope opened by  *)
(* the task that already holds the mutex does not take it again, and does  *)
(* not give it back when it closes.  All callers wait with portMAX_DELAY.  *)
(***************************************************************************)
EXTENDS Naturals, Sequences

CONSTANTS
    Task,            \* the FreeRTOS tasks
    NoTask           \* the mutex is free

ASSUME StackLockAssumption == NoTask \notin Task

VARIABLES
    holder,          \* the task that holds the stack mutex
    scopes           \* per task, the status of each ScopedChipStackLock it has open

lockVars == <<holder, scopes>>

Status == {"SUCCESS", "ALREADY_TAKEN"}

LockInit ==
    /\ holder = NoTask
    /\ scopes = [t \in Task |-> <<>>]

\* Mutant: the mutex is not asked whether the task holds it already.
Lock_NoTracking(t) ==
    /\ holder = NoTask
    /\ holder' = t
    /\ scopes' = [scopes EXCEPT ![t] = Append(@, "SUCCESS")]

\* The constructor: chip_stack_lock(portMAX_DELAY) waits for a mutex that
\* another task holds, and returns at once to the task that holds it.
Lock(t) ==
    /\ holder \in {NoTask, t}
    /\ holder' = t
    /\ scopes' = [scopes EXCEPT ![t] =
                     Append(@, IF holder = t THEN "ALREADY_TAKEN" ELSE "SUCCESS")]

\* Mutant: the destructor does not look at the status.
Unlock_Always(t) ==
    LET open == scopes[t]
    IN  /\ open # <<>>
        /\ holder' = NoTask
        /\ scopes' = [scopes EXCEPT ![t] = SubSeq(open, 1, Len(open) - 1)]

\* The destructor: only the scope that took the mutex gives it back.
Unlock(t) ==
    LET open == scopes[t]
    IN  /\ open # <<>>
        /\ holder' = IF open[Len(open)] = "SUCCESS" THEN NoTask ELSE holder
        /\ scopes' = [scopes EXCEPT ![t] = SubSeq(open, 1, Len(open) - 1)]

-----------------------------------------------------------------------------

\* Type invariant of the mutex and the open scopes (part of the type invariants
\* of the modules that extend this one).
LockTypeOK ==
    /\ holder \in Task \cup {NoTask}
    /\ scopes \in [Task -> Seq(Status)]

\* The mutex is held exactly by the task with a scope that took it, and that is
\* its outermost one: an inner scope never gives the mutex away under an outer one.
HeldByOutermost ==
    \A t \in Task :
        /\ holder = t <=> scopes[t] # <<>>
        /\ \A i \in 1 .. Len(scopes[t]) : scopes[t][i] = "SUCCESS" <=> i = 1

=============================================================================
