---------------------------- MODULE FailureWindow ----------------------------
(***************************************************************************)
(* The failure limiter of a service bunch against the clock:               *)
(* failure_add, failures_reset and reg_new_failure_and_is_limit_exceeded   *)
(* of src/service/service_bunch/mod.rs, for a failure whose pid is found   *)
(* among the stable connections.  ServiceBunch keeps of the clock only     *)
(* whether the minute is over; here it is a number.                        *)
(*                                                                         *)
(* A failure after more than Window since last_check_time starts a new     *)
(* period and is not counted itself.  failures, period and previous are    *)
(* history: they remember when failures happened and which of them started *)
(* the current and the previous period (0: the bunch's creation).          *)
(***************************************************************************)
EXTENDS Integers, Sequences

CONSTANTS
    Window,      \* 60 s in the code
    FailsLimit,  \* config.fails_limit, a u16
    MaxCount,    \* the largest failure_count, 2^16 - 1 in the code
    MaxTime,     \* bound: the clock stops here
    MaxFailures  \* bound: failures looked at

ASSUME WindowAssumption == Window \in Nat
ASSUME MaxCountAssumption == MaxCount \in Nat
ASSUME FailsLimitAssumption == FailsLimit \in 0..MaxCount
ASSUME BoundsAssumption == MaxTime \in Nat /\ MaxFailures \in Nat

VARIABLES
    now,             \* Instant::now()
    last_check_time, \* ServiceBunch.last_check_time
    failure_count,   \* ServiceBunch.failure_count
    stopped,         \* the limiter said that the limit is exceeded
    failures,        \* history: when each failure was registered
    period,          \* history: the failure that set last_check_time
    previous         \* history: the one that had set it before

vars == <<now, last_check_time, failure_count, stopped, failures, period,
          previous>>

-----------------------------------------------------------------------------
\* The minute since last_check_time is over.
PeriodOver == now - last_check_time > Window

\* failure_add; the increment of a u16 wraps around.
failure_add == (failure_count + 1) % (MaxCount + 1)

\* Variant: one failure more than the limit is let pass.
LimitExceeded_Lenient == failure_add > FailsLimit + 1

\* The comparison with config.fails_limit.
LimitExceeded == failure_add > FailsLimit

\* Variants: only the clock is reset; the clock is set to the period's end.
failures_reset_ClockOnly ==
    /\ last_check_time' = now
    /\ failure_count' = failure_add

failures_reset_Deadline ==
    /\ last_check_time' = now + Window
    /\ failure_count' = 0

failures_reset ==
    /\ last_check_time' = now
    /\ failure_count' = 0

\* reg_new_failure_and_is_limit_exceeded.
RegisterFailure ==
    /\ ~stopped
    /\ Len(failures) < MaxFailures
    /\ failures' = Append(failures, now)
    /\ IF PeriodOver
       THEN /\ failures_reset
            /\ previous' = period
            /\ period' = Len(failures) + 1
            /\ UNCHANGED stopped
       ELSE /\ failure_count' = failure_add
            /\ stopped' = LimitExceeded
            /\ UNCHANGED <<last_check_time, period, previous>>
    /\ UNCHANGED now

Tick ==
    /\ now < MaxTime
    /\ now' = now + 1
    /\ UNCHANGED <<last_check_time, failure_count, stopped, failures, period,
                   previous>>

\* The bounds are reached.
Done ==
    /\ now = MaxTime
    /\ stopped \/ Len(failures) = MaxFailures
    /\ UNCHANGED vars

Init ==
    /\ now = 0
    /\ last_check_time = 0
    /\ failure_count = 0
    /\ stopped = FALSE
    /\ failures = <<>>
    /\ period = 0
    /\ previous = 0

Next == RegisterFailure \/ Tick \/ Done

Spec == Init /\ [][Next]_vars

-----------------------------------------------------------------------------
\* Types; no clock reading lies in the future.
WindowTypeOK ==
    /\ now \in Nat
    /\ last_check_time \in 0..now
    /\ failure_count \in 0..MaxCount
    /\ stopped \in BOOLEAN
    /\ failures \in Seq(0..now)
    /\ period \in 0..Len(failures)
    /\ previous \in 0..period

\* The bunch is never stopped without cause: when the limiter says so, the
\* last fails_limit + 1 failures all happened within one minute.
StopJustified ==
    stopped =>
        /\ Len(failures) > FailsLimit
        /\ failures[Len(failures)] - failures[Len(failures) - FailsLimit] <= Window

\* How far the limiter can be led astray: periods follow each other and do not
\* slide, and the failure that starts one is not counted, so a bunch can go on
\* with more failures in a minute than fails_limit, but never with more than
\* 2 * fails_limit + 1.
SlackBounded ==
    ~stopped =>
        \A i \in 1..(Len(failures) - (2 * FailsLimit + 1)) :
            failures[i + 2 * FailsLimit + 1] - failures[i] > Window
=============================================================================
