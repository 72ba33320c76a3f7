---------------------------- MODULE HcmHealthProofs ----------------------------
(***************************************************************************)
(* CircuitBreaker's safety properties, for any number of callers and any    *)
(* thresholds and timeout.  Health checks run beside the breaker without     *)
(* disturbing it, so what holds of Spec holds of HealthSpec; and the safety   *)
(* properties of the checks themselves.                                     *)
(***************************************************************************)
EXTENDS HcmHealth, TLAPS

-----------------------------------------------------------------------------
(* The breaker.                                                              *)

\* The inductive invariant.  Its last part says that the breaker's own clock
\* reading is the time since the latest failure of any operation.
BreakerInv ==
    /\ TypeOK
    /\ FieldsAgree
    /\ CountsStreak
    /\ failedOnce => calm = sinceFailure

\* The breaker starts in the invariant.
LEMMA InitBreakerInv == Init => BreakerInv
<1> SUFFICES ASSUME Init PROVE BreakerInv
  OBVIOUS
<1> USE ThresholdAssumption DEF Init
<1>1. failedOnce \in BOOLEAN /\ hcmUp \in BOOLEAN
  BY Zenon
<1>2. failedOnce => calm = sinceFailure
  BY Zenon
<1>3. TypeOK
  <2>1. /\ state \in States
        /\ failureCount \in 0..CountCap
        /\ consecutiveSuccesses \in 0..SuccessThreshold
        /\ sinceFailure \in 0..ResetTimeout
        /\ begunIn \in [Calls -> States \cup {"idle"}]
        /\ streak \in 0..CountCap
        /\ calm \in 0..ResetTimeout
    BY DEF States
  <2>2. QED
    BY <1>1, <2>1, Zenon DEF TypeOK
<1>4. FieldsAgree /\ CountsStreak
  BY DEF FieldsAgree, CountsStreak
<1>5. QED
  BY <1>2, <1>3, <1>4 DEF BreakerInv

\* Closing the breaker restores the part of the invariant about its fields.
LEMMA CloseAgrees ==
    ASSUME Close
    PROVE  /\ state' \in States
           /\ failureCount' \in 0..CountCap
           /\ consecutiveSuccesses' \in 0..SuccessThreshold
           /\ failedOnce' \in BOOLEAN
           /\ sinceFailure' \in 0..ResetTimeout
           /\ FieldsAgree'
           /\ failedOnce' => calm' = sinceFailure'
<1>1. failedOnce' \in BOOLEAN /\ (failedOnce' => calm' = sinceFailure')
  BY Zenon DEF Close
<1>2. /\ state' \in States
      /\ failureCount' \in 0..CountCap
      /\ consecutiveSuccesses' \in 0..SuccessThreshold
      /\ sinceFailure' \in 0..ResetTimeout
      /\ FieldsAgree'
  BY ThresholdAssumption DEF Close, States, FieldsAgree
<1>3. QED
  BY <1>1, <1>2, Zenon

\* Every action, and a stuttering step, preserves the invariant.
LEMMA NextBreakerInv == BreakerInv /\ [Next]_vars => BreakerInv'
<1> SUFFICES ASSUME BreakerInv, [Next]_vars PROVE BreakerInv'
  OBVIOUS
<1> USE ThresholdAssumption DEF BreakerInv, TypeOK, FieldsAgree, CountsStreak, States
<1>1. ASSUME NEW c \in Calls, Begin(c) PROVE BreakerInv'
  BY <1>1 DEF Begin, TimedOut
<1>2. ASSUME NEW c \in Calls, Succeed(c) PROVE BreakerInv'
  <2>1. CASE Close
    <3>1. /\ begunIn' \in [Calls -> States \cup {"idle"}]
          /\ hcmUp' \in BOOLEAN
          /\ streak' \in 0..CountCap
          /\ calm' \in 0..ResetTimeout
          /\ CountsStreak'
      BY <1>2, <2>1 DEF Succeed, Close
    <3>2. QED
      BY <3>1, <2>1, CloseAgrees, Zenon DEF TypeOK, BreakerInv
  <2>2. CASE ~Close
    BY <1>2, <2>2 DEF Succeed, RecordSuccess, breaker
  <2>3. QED
    BY <2>1, <2>2
<1>3. ASSUME NEW c \in Calls, Fail(c) PROVE BreakerInv'
  BY <1>3 DEF Fail, RecordFailure, Capped
<1>4. CASE Reset
  <2>1. /\ begunIn' \in [Calls -> States \cup {"idle"}]
        /\ hcmUp' \in BOOLEAN
        /\ streak' \in 0..CountCap
        /\ calm' \in 0..ResetTimeout
        /\ CountsStreak'
    BY <1>4 DEF Reset, Close
  <2>2. QED
    BY <1>4, <2>1, CloseAgrees, Zenon DEF Reset, TypeOK, BreakerInv
<1>5. CASE Tick
  BY <1>5 DEF Tick
<1>6. CASE Outage
  BY <1>6 DEF Outage, breaker
<1>7. CASE UNCHANGED vars
  BY <1>7 DEF vars, breaker
<1>8. QED
  BY <1>1, <1>2, <1>3, <1>4, <1>5, <1>6, <1>7 DEF Next, Execute

\* The invariant holds in every reachable state.
THEOREM BreakerInvariant == Spec => []BreakerInv
BY InitBreakerInv, NextBreakerInv, PTL DEF Spec

\* Type correctness.
THEOREM BreakerTypeOK == Spec => []TypeOK
BY BreakerInvariant, PTL DEF BreakerInv

\* The breaker's fields never disagree, so an OPEN breaker can always leave
\* OPEN by its timeout.
THEOREM BreakerFieldsAgree == Spec => []FieldsAgree
BY BreakerInvariant, PTL DEF BreakerInv

\* The failure count of a CLOSED breaker is the current streak of failures.
THEOREM BreakerCountsStreak == Spec => []CountsStreak
BY BreakerInvariant, PTL DEF BreakerInv

\* One step of TripsOnStreak.
LEMMA StepTrips ==
    BreakerInv /\ [Next]_vars =>
        [state = "CLOSED" => (state' = "OPEN" <=> streak' >= FailureThreshold)]_vars
<1> SUFFICES ASSUME BreakerInv, [Next]_vars, state = "CLOSED"
             PROVE state' = "OPEN" <=> streak' >= FailureThreshold
  OBVIOUS
<1> USE ThresholdAssumption DEF BreakerInv, TypeOK, FieldsAgree, CountsStreak, States
<1>1. ASSUME NEW c \in Calls, Begin(c) PROVE state' # "OPEN" /\ streak' = streak
  BY <1>1 DEF Begin, TimedOut
<1>2. ASSUME NEW c \in Calls, Succeed(c) PROVE state' = "CLOSED" /\ streak' = 0
  BY <1>2 DEF Succeed, RecordSuccess
<1>3. ASSUME NEW c \in Calls, Fail(c)
      PROVE state' = "OPEN" <=> streak' >= FailureThreshold
  BY <1>3 DEF Fail, RecordFailure, Capped
<1>4. ASSUME Reset PROVE state' = "CLOSED" /\ streak' = 0
  BY <1>4 DEF Reset, Close
<1>5. ASSUME Tick \/ Outage \/ UNCHANGED vars
      PROVE state' = state /\ streak' = streak
  BY <1>5 DEF Tick, Outage, vars, breaker
<1>6. QED
  BY <1>1, <1>2, <1>3, <1>4, <1>5 DEF Next, Execute

\* The breaker opens exactly when the streak of failures reaches the threshold.
THEOREM BreakerTripsOnStreak == Spec => TripsOnStreak
BY BreakerInvariant, StepTrips, PTL DEF Spec, TripsOnStreak

\* One step of FailsFast.
LEMMA StepFailsFast ==
    BreakerInv /\ [Next]_vars =>
        [state = "OPEN" /\ (\E c \in Calls : begunIn[c] = "idle" /\ begunIn'[c] # "idle")
            => calm = ResetTimeout]_vars
<1> SUFFICES ASSUME BreakerInv, [Next]_vars, state = "OPEN",
                    NEW d \in Calls, begunIn[d] = "idle", begunIn'[d] # "idle"
             PROVE calm = ResetTimeout
  OBVIOUS
<1> USE ThresholdAssumption DEF BreakerInv, TypeOK, FieldsAgree, States
<1>1. ASSUME NEW c \in Calls, Begin(c) PROVE calm = ResetTimeout
  BY <1>1 DEF Begin, TimedOut
<1>2. ASSUME NEW c \in Calls, Succeed(c) \/ Fail(c) PROVE FALSE
  BY <1>2 DEF Succeed, Fail
<1>3. ASSUME Reset \/ Tick \/ Outage \/ UNCHANGED vars PROVE FALSE
  BY <1>3 DEF Reset, Tick, Outage, vars
<1>4. QED
  BY <1>1, <1>2, <1>3 DEF Next, Execute

\* No operation begins before a full reset timeout free of failures.
THEOREM BreakerFailsFast == Spec => FailsFast
BY BreakerInvariant, StepFailsFast, PTL DEF Spec, FailsFast

-----------------------------------------------------------------------------
(* Health checks beside it.                                                  *)

\* Every step of the composition is a breaker step or leaves the breaker alone.
LEMMA HealthStepMaps ==
    ASSUME [HealthNext]_<<vars, healthVars>>
    PROVE  [Next]_vars
<1>1. CASE Next /\ UNCHANGED healthVars
  BY <1>1
<1>2. CASE \E h \in Checks : CheckBegin(h) \/ CheckStep(h)
  BY <1>2 DEF CheckBegin, CheckStep, PingAnswered, PingFailed, Wake
<1>3. CASE UNCHANGED <<vars, healthVars>>
  BY <1>3
<1> QED
  BY <1>1, <1>2, <1>3 DEF HealthNext

\* checkHCMHealth reads the breaker and never changes it: the composition
\* implements the circuit breaker alone.
THEOREM HealthImplementsBreaker == HealthSpec => Spec
<1>1. HealthInit => Init
  BY DEF HealthInit
<1>2. [HealthNext]_<<vars, healthVars>> => [Next]_vars
  BY HealthStepMaps
<1> QED
  BY <1>1, <1>2, PTL DEF HealthSpec, Spec

-----------------------------------------------------------------------------
\* The initial state has the types.
LEMMA HealthInitType == HealthInit => HealthTypeOK
<1> SUFFICES ASSUME HealthInit PROVE HealthTypeOK
  OBVIOUS
<1>1. ChecksTyped
  BY HcmMaxRetriesAssumption DEF HealthInit, ChecksTyped, States
<1>2. FlagsTyped
  BY Zenon DEF HealthInit, FlagsTyped
<1> QED
  BY <1>1, <1>2 DEF HealthTypeOK

\* The flags are only ever set to TRUE or FALSE.
LEMMA FlagsStayTyped ==
    ASSUME FlagsTyped, NEW h \in Checks, CheckBegin(h) \/ CheckStep(h)
    PROVE  FlagsTyped'
BY Zenon DEF FlagsTyped, CheckBegin, CheckStep, PingAnswered, PingFailed, Wake,
             RetryLater, CheckFailed

\* A check that begins keeps the types.
LEMMA CheckBeginType ==
    ASSUME TypeOK, ChecksTyped, NEW h \in Checks, CheckBegin(h)
    PROVE  ChecksTyped'
<1>1. CASE state = "OPEN"
  BY <1>1, HcmMaxRetriesAssumption DEF ChecksTyped, CheckBegin, CheckFailed, Answer
<1>2. CASE state # "OPEN"
  <2>1. /\ state \in States
        /\ hpc' = [hpc EXCEPT ![h] = "ping"]
        /\ readState' = [readState EXCEPT ![h] = state]
        /\ told' = [told EXCEPT ![h] = "none"]
        /\ UNCHANGED tries
    BY <1>2 DEF CheckBegin, TypeOK
  <2> QED
    BY <2>1 DEF ChecksTyped, States
<1> QED
  BY <1>1, <1>2

\* A check that ends keeps the types.
LEMMA CheckEndType ==
    ASSUME ChecksTyped, NEW h \in Checks,
           NEW s \in {"UP", "DOWN", "DEGRADED"}, Answer(h, s)
    PROVE  ChecksTyped'
BY HcmMaxRetriesAssumption DEF ChecksTyped, Answer

\* So does each later step of a check.
LEMMA CheckStepType ==
    ASSUME ChecksTyped, NEW h \in Checks, CheckStep(h)
    PROVE  ChecksTyped'
<1>1. CASE PingAnswered(h)
  BY <1>1, CheckEndType DEF PingAnswered
<1>2. CASE PingFailed(h)
  <2>1. CASE RetryLater(h) /\ hpc[h] = "ping"
    BY <2>1, HcmMaxRetriesAssumption DEF ChecksTyped, RetryLater
  <2>2. CASE \E s \in {"DOWN", "DEGRADED"} : CheckFailed(h, s)
    BY <2>2, CheckEndType DEF CheckFailed
  <2> QED
    BY <1>2, <2>1, <2>2 DEF PingFailed
<1>3. CASE Wake(h)
  BY <1>3 DEF ChecksTyped, Wake
<1> QED
  BY <1>1, <1>2, <1>3 DEF CheckStep

\* The checks' variables keep their shape, and no check pings more than
\* HcmMaxRetries + 1 times, however many checks and callers there are.
THEOREM HealthTypeCorrect == HealthSpec => []HealthTypeOK
<1>1. HealthInit => HealthTypeOK
  BY HealthInitType
<1>2. TypeOK /\ HealthTypeOK /\ [HealthNext]_<<vars, healthVars>> => HealthTypeOK'
  <2> SUFFICES ASSUME TypeOK, HealthTypeOK, [HealthNext]_<<vars, healthVars>>
               PROVE  HealthTypeOK'
    OBVIOUS
  <2>1. CASE UNCHANGED healthVars
    <3>1. ChecksTyped'
      BY <2>1 DEF HealthTypeOK, ChecksTyped, healthVars, checkRegs
    <3>2. FlagsTyped'
      BY <2>1, Zenon DEF HealthTypeOK, FlagsTyped, healthVars
    <3> QED
      BY <3>1, <3>2 DEF HealthTypeOK
  <2>2. CASE \E h \in Checks : CheckBegin(h) \/ CheckStep(h)
    BY <2>2, CheckBeginType, CheckStepType, FlagsStayTyped DEF HealthTypeOK
  <2> QED
    BY <2>1, <2>2 DEF HealthNext
<1>3. HealthSpec => []TypeOK
  BY HealthImplementsBreaker, BreakerTypeOK, PTL
<1> QED
  BY <1>1, <1>2, <1>3, PTL DEF HealthSpec

=============================================================================
