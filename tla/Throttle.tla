------------------------------ MODULE Throttle ------------------------------
(***************************************************************************)
(* Throttle (v2/throttle.h): multi-window rate limiting of one listener.   *)
(* Fire calls the listener when no limit (w, c) forbids it, else arms one  *)
(* deferred RetryFire at the earliest legal instant; further Fire calls    *)
(* while it is armed are dropped.  throttle.cc is not part of the sources, *)
(* so Fire is modelled from the specification's four steps; RetryFire is  *)
(* translated from throttle.h.                                             *)
(*                                                                         *)
(* Time is kept as ages: recent_event_times_ holds how long ago each of    *)
(* the last K listener calls happened, and Tick advances the clock by one  *)
(* unit.  Every age above the largest window behaves alike in each test,   *)
(* so ages are capped at MaxWindow + 1.                                    *)
(***************************************************************************)
EXTENDS Integers, Sequences, FiniteSetsExt

CONSTANTS
  RateLimits    \* set of [window_size, count] records, window_size > 0

MaxWindow == Max({l.window_size : l \in RateLimits})
\* max_recent_events_: the largest count of any limit.
max_recent_events == Max({l.count : l \in RateLimits})
Age == 0..(MaxWindow + 1)

VARIABLES
  recent_event_times,  \* deque<Time>, as ages, oldest first
  timer_scheduled,     \* timer_scheduled_
  timer_remaining,     \* time left until the armed RetryFire runs
  calls,               \* history: listener calls by age, for ages < MaxWindow
  unserved             \* history: a Fire call not yet followed by a call

vars == <<recent_event_times, timer_scheduled, timer_remaining, calls, unserved>>

Init ==
  /\ recent_event_times = <<>>
  /\ timer_scheduled = FALSE
  /\ timer_remaining = 0
  /\ calls = [a \in 0..(MaxWindow - 1) |-> 0]
  /\ unserved = FALSE

\* Step 2 of Fire for one limit: the limit is hit when the c-th most recent
\* call is younger than the window.  recent[size - c] (0-based) is element
\* Len - c + 1 of the sequence.
CthMostRecent(rt, l) == rt[Len(rt) - l.count + 1]

\* Mutant: a limit only counts once more than c calls are recorded.
Violated_Strict(rt, l) ==
  /\ Len(rt) > l.count
  /\ CthMostRecent(rt, l) < l.window_size

Violated(rt, l) ==
  /\ Len(rt) >= l.count
  /\ CthMostRecent(rt, l) < l.window_size

\* t* - now for a violated limit: the c-th most recent call leaves the window.
Wait(rt, l) == l.window_size - CthMostRecent(rt, l)

\* Step 1: drop the calls older than the largest window.
Pruned(rt) == SelectSeq(rt, LAMBDA a : a <= MaxWindow)

\* Mutant: the ring buffer is never trimmed.
Appended_NoDrop(rt) == Append(rt, 0)

\* Step 3: append now, keeping at most max_recent_events_ entries.
Appended(rt) ==
  IF Len(rt) = max_recent_events THEN Append(Tail(rt), 0) ELSE Append(rt, 0)

\* Fire() with the timer flag as it stands when the body starts: RetryFire
\* clears it first.
FireBody(scheduled) ==
  LET rt == Pruned(recent_event_times)
      hit == {l \in RateLimits : Violated(rt, l)}
  IN IF hit = {}
       THEN /\ recent_event_times' = Appended(rt)
            /\ calls' = [calls EXCEPT ![0] = @ + 1]
            /\ unserved' = FALSE
            /\ timer_scheduled' = scheduled
            /\ UNCHANGED timer_remaining
       ELSE /\ recent_event_times' = rt
            /\ unserved' = TRUE
            /\ UNCHANGED calls
            /\ IF scheduled
                 THEN UNCHANGED <<timer_scheduled, timer_remaining>>
                 ELSE /\ timer_scheduled' = TRUE
                      /\ timer_remaining' =
                           Max({Wait(rt, l) : l \in hit})

Fire == FireBody(timer_scheduled)

\* Mutant: RetryFire leaves timer_scheduled_ set.
RetryFire_NoClear ==
  /\ timer_scheduled
  /\ timer_remaining = 0
  /\ FireBody(TRUE)

\* The scheduler runs the armed RetryFire when it is due.
RetryFire ==
  /\ timer_scheduled
  /\ timer_remaining = 0
  /\ FireBody(FALSE)

\* One unit of time passes; the scheduler never lets a due task slip.
Tick ==
  /\ ~(timer_scheduled /\ timer_remaining = 0)
  /\ recent_event_times' =
       [i \in DOMAIN recent_event_times |->
          IF recent_event_times[i] > MaxWindow THEN recent_event_times[i]
          ELSE recent_event_times[i] + 1]
  /\ timer_remaining' = IF timer_scheduled THEN timer_remaining - 1 ELSE 0
  /\ calls' = [a \in 0..(MaxWindow - 1) |-> IF a = 0 THEN 0 ELSE calls[a - 1]]
  /\ UNCHANGED <<timer_scheduled, unserved>>

Next == Fire \/ RetryFire \/ Tick

Spec == Init /\ [][Next]_vars

\* The system scheduler runs due tasks and its clock keeps advancing.
FairSpec == Spec /\ WF_vars(RetryFire) /\ WF_vars(Tick)

TypeOK ==
  /\ recent_event_times \in Seq(Age)
  /\ Len(recent_event_times) <= max_recent_events
  /\ timer_scheduled \in BOOLEAN
  /\ timer_remaining \in 0..MaxWindow
  /\ calls \in [0..(MaxWindow - 1) -> Nat]
  /\ unserved \in BOOLEAN

(* Across every window w of every limit (w, c), the listener is called at  *)
(* most c times: Fire's limit test on the ring buffer of the last K calls  *)
(* and the instant RetryFire is armed for never let a call through early. *)
RateLimitsRespected ==
  \A l \in RateLimits :
    MapThenSumSet(LAMBDA a : calls[a], 0..(l.window_size - 1)) <= l.count

(* A Fire call that is throttled or dropped is still served: the armed    *)
(* RetryFire, which clears timer_scheduled_ before calling Fire again,     *)
(* eventually calls the listener.                                          *)
FireEventuallyServed == unserved ~> ~unserved

==============================================================================
