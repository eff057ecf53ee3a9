------------------------- MODULE FailureWindowProofs -------------------------
(***************************************************************************)
(* What the failure limiter guarantees for every window, every limit below *)
(* the largest counter value and every sequence of failures.               *)
(***************************************************************************)
EXTENDS FailureWindow, SequenceTheorems, TLAPS

(***************************************************************************)
(* The limiter works as long as the counter does not wrap: the limit is    *)
(* below the largest value of a u16.  (At fails_limit = 65535 the counter  *)
(* can never exceed the limit.)                                            *)
(***************************************************************************)
LimitFits == FailsLimit < MaxCount

\* The history is in the order of time.
Ordered ==
    \A i, j \in 1..Len(failures) : i <= j => failures[i] <= failures[j]

\* Until the limiter speaks the counter is within the limit, it counts the
\* failures after the one that started the period, and none of these is older
\* than the period.
CountsPeriod ==
    /\ ~stopped => failure_count <= FailsLimit
    /\ failure_count = Len(failures) - period
    /\ \A i \in 1..Len(failures) : i >= period => failures[i] >= last_check_time
    /\ period > 0 => failures[period] = last_check_time

\* The period before this one had at most FailsLimit failures besides the one
\* that started it, and more than Window passed between the two starts.
PreviousPeriod ==
    /\ period > 0 => /\ period - previous <= FailsLimit + 1
                     /\ previous < period
    /\ previous > 0 => last_check_time - failures[previous] > Window

WindowInv == /\ WindowTypeOK
             /\ Ordered
             /\ CountsPeriod
             /\ PreviousPeriod
             /\ StopJustified
             /\ SlackBounded

LEMMA InitWindowType == Init => WindowTypeOK
<1> SUFFICES ASSUME Init PROVE WindowTypeOK
  OBVIOUS
<1>1. failures \in Seq(0..now) /\ Len(failures) = 0
  BY EmptySeq, Zenon DEF Init
<1>2. /\ now \in Nat /\ last_check_time \in 0..now
      /\ failure_count \in 0..MaxCount
      /\ period \in 0..Len(failures) /\ previous \in 0..period
  BY <1>1, MaxCountAssumption DEF Init
<1>3. stopped \in BOOLEAN
  BY DEF Init
<1> QED BY <1>1, <1>2, <1>3, Zenon DEF WindowTypeOK

LEMMA WindowTypeStep ==
  ASSUME WindowTypeOK, [Next]_vars
  PROVE  WindowTypeOK'
  <1> USE WindowAssumption, MaxCountAssumption DEF WindowTypeOK
<1>1. CASE RegisterFailure
  <2>1. failures' \in Seq(0..now) /\ Len(failures') = Len(failures) + 1
    BY <1>1 DEF RegisterFailure
  <2>2. failure_add \in 0..MaxCount
    BY DEF failure_add
  <2>3. CASE PeriodOver
    BY <1>1, <2>1, <2>3 DEF RegisterFailure, failures_reset
  <2>4. CASE ~PeriodOver
    BY <1>1, <2>1, <2>2, <2>4 DEF RegisterFailure, LimitExceeded
  <2> QED BY <2>3, <2>4
<1>2. CASE Tick
  BY <1>2 DEF Tick
<1>3. CASE Done \/ UNCHANGED vars
  BY <1>3 DEF Done, vars
<1> QED BY <1>1, <1>2, <1>3 DEF Next

\* FailureWindow's types hold in every reachable state, also when the counter
\* wraps (WindowTypeOK; failure_add, failures_reset).
THEOREM WindowTypeCorrect == Spec => []WindowTypeOK
<1>1. Init => WindowTypeOK
  BY InitWindowType
<1>2. WindowTypeOK /\ [Next]_vars => WindowTypeOK'
  BY WindowTypeStep
<1> QED BY <1>1, <1>2, PTL DEF Spec

-----------------------------------------------------------------------------
LEMMA InitWindowInv == Init => WindowInv
<1> SUFFICES ASSUME Init PROVE WindowInv
  OBVIOUS
<1>1. Len(failures) = 0 /\ WindowTypeOK
  BY InitWindowType, EmptySeq, Zenon DEF Init
<1> QED
  BY <1>1, FailsLimitAssumption
  DEF Init, WindowInv, Ordered, CountsPeriod, PreviousPeriod, StopJustified,
      SlackBounded

\* What a registered failure does to the history.
LEMMA FailureAppended ==
  ASSUME WindowTypeOK, RegisterFailure
  PROVE  /\ Len(failures') = Len(failures) + 1
         /\ failures'[Len(failures) + 1] = now
         /\ \A i \in 1..Len(failures) : /\ failures'[i] = failures[i]
                                        /\ failures[i] \in 0..now
BY DEF WindowTypeOK, RegisterFailure

LEMMA NextWindowInv ==
  ASSUME LimitFits, WindowInv, [Next]_vars
  PROVE  WindowInv'
<1> USE WindowAssumption, MaxCountAssumption, FailsLimitAssumption
<1>1. WindowTypeOK'
  BY WindowTypeStep DEF WindowInv
<1>2. CASE RegisterFailure
  <2> DEFINE n == Len(failures)
  <2>1. /\ n \in Nat /\ now \in Nat /\ last_check_time \in 0..now
        /\ period \in 0..n /\ previous \in 0..period
        /\ FailsLimit \in Nat /\ Window \in Nat
    BY DEF WindowInv, WindowTypeOK
  <2>2. /\ Len(failures') = n + 1
        /\ failures'[n + 1] = now
        /\ \A i \in 1..n : failures'[i] = failures[i] /\ failures[i] \in 0..now
    BY <1>2, FailureAppended DEF WindowInv
  <2>3. now' = now /\ ~stopped
    BY <1>2 DEF RegisterFailure
  <2> HIDE DEF n
  <2>4. Ordered'
    BY <2>1, <2>2 DEF WindowInv, Ordered, n
  <2>5. failure_count \in Nat /\ failure_count <= FailsLimit
        /\ failure_add = failure_count + 1 /\ failure_count = n - period
    <3>1. failure_count \in 0..MaxCount /\ failure_count <= FailsLimit
          /\ failure_count = n - period
      BY <2>3 DEF WindowInv, WindowTypeOK, CountsPeriod, n
    <3>2. failure_count + 1 < MaxCount + 1
      BY <3>1 DEF LimitFits
    <3>3. failure_add = failure_count + 1
      BY <3>1, <3>2 DEF failure_add
    <3> QED BY <3>1, <3>3
  <2>6. CASE PeriodOver
    <3>1. /\ last_check_time' = now /\ failure_count' = 0
          /\ previous' = period /\ period' = n + 1 /\ stopped' = stopped
      BY <1>2, <2>6 DEF RegisterFailure, failures_reset, n
    <3>2. now - last_check_time > Window
      BY <2>6 DEF PeriodOver
    <3>3. CountsPeriod'
      BY <2>1, <2>2, <3>1 DEF CountsPeriod
    <3>4. PreviousPeriod'
      BY <2>1, <2>2, <2>3, <2>5, <3>1, <3>2
      DEF WindowInv, CountsPeriod, PreviousPeriod, n
    <3>5. StopJustified'
      BY <2>3, <3>1 DEF StopJustified
    <3>6. SlackBounded'
      <4> SUFFICES ASSUME NEW i \in 1..(n + 1 - (2 * FailsLimit + 1))
                   PROVE  failures'[i + 2 * FailsLimit + 1] - failures'[i]
                            > Window
        BY <2>1, <2>2, <2>3 DEF SlackBounded
      <4>1. CASE i + 2 * FailsLimit + 1 <= n
        BY <2>1, <2>2, <2>3, <4>1 DEF WindowInv, SlackBounded, n
      <4>2. CASE i + 2 * FailsLimit + 1 = n + 1
        <5>1. period > 0 /\ i <= period
          BY <2>1, <2>5, <4>2
        <5>2. failures[i] <= failures[period] /\ failures[period] = last_check_time
          BY <2>1, <5>1 DEF WindowInv, Ordered, CountsPeriod, n
        <5> QED BY <2>1, <2>2, <3>2, <4>2, <5>1, <5>2
      <4> QED BY <2>1, <4>1, <4>2
    <3> QED BY <1>1, <2>4, <3>3, <3>4, <3>5, <3>6 DEF WindowInv
  <2>7. CASE ~PeriodOver
    <3>1. /\ failure_count' = failure_count + 1
          /\ UNCHANGED <<last_check_time, period, previous>>
          /\ stopped' = LimitExceeded
      BY <1>2, <2>5, <2>7 DEF RegisterFailure
    <3>0. /\ stopped' => failure_count = FailsLimit
          /\ ~stopped' => failure_count + 1 <= FailsLimit
      <4>1. stopped' <=> LimitExceeded
        BY <3>1, Zenon
      <4> QED BY <2>1, <2>5, <4>1, SMT DEF LimitExceeded
    <3>2. now - last_check_time <= Window
      BY <2>1, <2>7 DEF PeriodOver
    <3>3. CountsPeriod'
      <4>1. \A i \in 1..(n + 1) : i >= period => failures'[i] >= last_check_time
        BY <2>1, <2>2 DEF WindowInv, CountsPeriod, n
      <4>2. period > 0 => failures'[period] = last_check_time
        BY <2>1, <2>2 DEF WindowInv, CountsPeriod, n
      <4> QED BY <2>1, <2>2, <2>5, <3>0, <3>1, <4>1, <4>2 DEF CountsPeriod
    <3>4. PreviousPeriod'
      BY <2>1, <2>2, <2>3, <3>1 DEF WindowInv, PreviousPeriod, n
    <3>5. StopJustified'
      <4> SUFFICES ASSUME stopped'
                   PROVE  /\ n + 1 > FailsLimit
                          /\ now - failures'[n + 1 - FailsLimit] <= Window
        BY <2>1, <2>2 DEF StopJustified
      <4>1. n - period = FailsLimit
        BY <2>5, <3>0
      <4>2. /\ n + 1 - FailsLimit \in 1..(n + 1)
            /\ n + 1 - FailsLimit >= period
        BY <2>1, <4>1
      <4>3. failures'[n + 1 - FailsLimit] >= last_check_time
        BY <2>1, <2>2, <3>1, <3>3, <4>2 DEF CountsPeriod
      <4>4. failures'[n + 1 - FailsLimit] \in Int
        BY <2>1, <2>2, <4>2
      <4> QED BY <2>1, <3>2, <4>1, <4>3, <4>4
    <3>6. SlackBounded'
      <4> SUFFICES ASSUME ~stopped',
                          NEW i \in 1..(n + 1 - (2 * FailsLimit + 1))
                   PROVE  failures'[i + 2 * FailsLimit + 1] - failures'[i]
                            > Window
        BY <2>1, <2>2, <2>3 DEF SlackBounded
      <4>1. CASE i + 2 * FailsLimit + 1 <= n
        BY <2>1, <2>2, <2>3, <4>1 DEF WindowInv, SlackBounded, n
      <4>2. CASE i + 2 * FailsLimit + 1 = n + 1
        <5>1. period > 0 /\ period >= i + FailsLimit + 1
          BY <2>1, <2>5, <3>0, <4>2
        <5>2. previous > 0 /\ i <= previous /\ previous < period
          BY <2>1, <5>1 DEF WindowInv, PreviousPeriod
        <5>3. failures[i] <= failures[previous]
          BY <2>1, <5>1, <5>2 DEF WindowInv, Ordered, n
        <5>4. last_check_time - failures[previous] > Window
          BY <5>2 DEF WindowInv, PreviousPeriod
        <5>5. failures[i] \in Int /\ failures[previous] \in Int
          BY <2>1, <2>2, <5>1, <5>2
        <5> QED BY <2>1, <2>2, <4>2, <5>1, <5>2, <5>3, <5>4, <5>5
      <4> QED BY <2>1, <4>1, <4>2
    <3> QED BY <1>1, <2>4, <3>3, <3>4, <3>5, <3>6 DEF WindowInv
  <2> QED BY <2>6, <2>7
<1>3. CASE Tick
  <2>1. /\ UNCHANGED <<last_check_time, failure_count, stopped, failures, period,
                      previous>>
    BY <1>3 DEF Tick
  <2> QED
    BY <1>1, <2>1 DEF WindowInv, Ordered, CountsPeriod, PreviousPeriod,
       StopJustified, SlackBounded
<1>4. CASE Done \/ UNCHANGED vars
  BY <1>1, <1>4 DEF Done, vars, WindowInv, Ordered, CountsPeriod,
     PreviousPeriod, StopJustified, SlackBounded
<1> QED BY <1>2, <1>3, <1>4 DEF Next

\* A bunch is only stopped for fails_limit + 1 failures within one minute
\* (reg_new_failure_and_is_limit_exceeded), for every limit and window.
THEOREM StopIsJustified == LimitFits => (Spec => []StopJustified)
<1> SUFFICES ASSUME LimitFits PROVE Spec => []StopJustified
  OBVIOUS
<1>1. WindowInv => StopJustified
  BY DEF WindowInv
<1>2. WindowInv /\ [Next]_vars => WindowInv'
  BY NextWindowInv
<1> QED BY InitWindowInv, <1>1, <1>2, PTL DEF Spec

\* A bunch that goes on never had more than 2 * fails_limit + 1 failures in a
\* minute, for every limit and window.
THEOREM SlackIsBounded == LimitFits => (Spec => []SlackBounded)
<1> SUFFICES ASSUME LimitFits PROVE Spec => []SlackBounded
  OBVIOUS
<1>1. WindowInv => SlackBounded
  BY DEF WindowInv
<1>2. WindowInv /\ [Next]_vars => WindowInv'
  BY NextWindowInv
<1> QED BY InitWindowInv, <1>1, <1>2, PTL DEF Spec
=============================================================================
