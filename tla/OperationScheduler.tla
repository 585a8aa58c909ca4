------------------------- MODULE OperationScheduler -------------------------
(***************************************************************************)
(* OperationScheduler (v2/operation-scheduler.cc): coalesces requests to   *)
(* run named operations after a smeared delay.  Callers call Schedule at   *)
(* any time; the system scheduler later runs RunAndClearScheduled, which   *)
(* clears has_been_scheduled and then runs the operation, which may call   *)
(* Schedule for itself again.  Delays only decide when a task runs, so    *)
(* time is abstracted: a scheduled task may run at any later step.         *)
(***************************************************************************)
EXTENDS Naturals

CONSTANTS
  Operations,   \* the closures handed to SetOperation (model values)
  Delays        \* delays callers may pass, in ms (0 violates the CHECK)

VARIABLES
  operations,          \* DOMAIN of operations_: the ops SetOperation accepted
  delay,               \* OperationScheduleInfo::delay
  has_been_scheduled,  \* OperationScheduleInfo::has_been_scheduled
  timers,              \* RunAndClearScheduled closures queued at the scheduler
  waiting              \* history: Schedule called since the op last started

vars == <<operations, delay, has_been_scheduled, timers, waiting>>

Init ==
  /\ operations = {}
  /\ delay = [op \in Operations |-> 0]
  /\ has_been_scheduled = [op \in Operations |-> FALSE]
  /\ timers = [op \in Operations |-> 0]
  /\ waiting = [op \in Operations |-> FALSE]

\* SetOperation: each closure once, with a positive delay (both CHECKed).
SetOperation(op, d) ==
  /\ op \notin operations
  /\ d > 0
  /\ operations' = operations \cup {op}
  /\ delay' = [delay EXCEPT ![op] = d]
  /\ UNCHANGED <<has_been_scheduled, timers, waiting>>

ChangeDelayForTest(op, d) ==
  /\ op \in operations
  /\ delay' = [delay EXCEPT ![op] = d]
  /\ UNCHANGED <<operations, has_been_scheduled, timers, waiting>>

\* Mutant: the has_been_scheduled test is dropped.
ScheduleBody_NoCoalesce(op) ==
  /\ has_been_scheduled' = [has_been_scheduled EXCEPT ![op] = TRUE]
  /\ timers' = [timers EXCEPT ![op] = @ + 1]

\* The body of Schedule once the CHECK has passed: a timer is queued only
\* when none is outstanding.
ScheduleBody(op) ==
  IF ~has_been_scheduled[op]
    THEN /\ has_been_scheduled' = [has_been_scheduled EXCEPT ![op] = TRUE]
         /\ timers' = [timers EXCEPT ![op] = @ + 1]
    ELSE UNCHANGED <<has_been_scheduled, timers>>

Schedule(op) ==
  /\ op \in operations
  /\ ScheduleBody(op)
  /\ waiting' = [waiting EXCEPT ![op] = TRUE]
  /\ UNCHANGED <<operations, delay>>

\* Mutant: the order the header comment describes, the closure run first
\* and the flag cleared after it.
RunAndClearScheduled_RunFirst(op, reschedules) ==
  /\ timers[op] > 0
  /\ timers' = [timers EXCEPT ![op] = @ - 1]
  /\ has_been_scheduled' = [has_been_scheduled EXCEPT ![op] = FALSE]
  /\ waiting' = [waiting EXCEPT ![op] = reschedules]
  /\ UNCHANGED <<operations, delay>>

\* Mutant: the scheduler fires a closure that was never queued.
RunAndClearScheduled_NoGuard(op, reschedules) ==
  /\ waiting' = [waiting EXCEPT ![op] = reschedules]
  /\ IF reschedules
       THEN UNCHANGED <<has_been_scheduled, timers>>
       ELSE /\ timers' = [timers EXCEPT ![op] = @ - 1]
            /\ has_been_scheduled' = [has_been_scheduled EXCEPT ![op] = FALSE]
  /\ UNCHANGED <<operations, delay>>

\* The scheduler fires a queued closure: the flag is cleared, then the
\* operation runs and, if `reschedules', calls Schedule for itself.
RunAndClearScheduled(op, reschedules) ==
  /\ timers[op] > 0
  /\ waiting' = [waiting EXCEPT ![op] = reschedules]
  /\ IF reschedules
       THEN UNCHANGED <<has_been_scheduled, timers>>
       ELSE /\ timers' = [timers EXCEPT ![op] = @ - 1]
            /\ has_been_scheduled' = [has_been_scheduled EXCEPT ![op] = FALSE]
  /\ UNCHANGED <<operations, delay>>

Next ==
  \/ \E op \in Operations, d \in Delays : SetOperation(op, d)
  \/ \E op \in Operations, d \in Delays : ChangeDelayForTest(op, d)
  \/ \E op \in Operations : Schedule(op)
  \/ \E op \in Operations, r \in BOOLEAN : RunAndClearScheduled(op, r)

Spec == Init /\ [][Next]_vars

TypeOK ==
  /\ operations \subseteq Operations
  /\ delay \in [Operations -> Delays \cup {0}]
  /\ has_been_scheduled \in [Operations -> BOOLEAN]
  /\ timers \in [Operations -> Nat]
  /\ waiting \in [Operations -> BOOLEAN]

(* At most one future execution of an operation is outstanding, and it is *)
(* outstanding exactly when has_been_scheduled says so: repeated Schedule  *)
(* calls, also those an operation makes while it runs, collapse into one. *)
OneOutstandingRun ==
  \A op \in Operations : timers[op] = IF has_been_scheduled[op] THEN 1 ELSE 0

(* A Schedule call is never lost: from the call until the operation next  *)
(* starts, a run of it is queued at the scheduler, also when the call is   *)
(* made by the operation itself while RunAndClearScheduled is running it.  *)
NoLostSchedule ==
  \A op \in Operations : waiting[op] => timers[op] > 0

==============================================================================
