----------------------------- MODULE CircuitBreaker -----------------------------
(***************************************************************************)
(* CircuitBreakerService: execute(), with its private recordSuccess,        *)
(* recordFailure and tryReset, and reset().                                *)
(*                                                                         *)
(* execute() runs without interruption up to its await and again from the   *)
(* operation's outcome on, so it is two actions, and the operations of       *)
(* other callers begin and end in between: an operation admitted while the  *)
(* breaker was CLOSED may end when it is OPEN, HALF_OPEN or CLOSED again.    *)
(* A call that is rejected changes nothing and is no action.                *)
(***************************************************************************)
EXTENDS Integers

CONSTANTS
    Calls,              \* callers that can be inside execute() at once
    FailureThreshold,   \* CIRCUIT_BREAKER_FAILURE_THRESHOLD
    SuccessThreshold,   \* successThresholdForHalfOpen
    ResetTimeout,       \* resetTimeoutMs, in ticks of the clock
    CountCap            \* bound: failure counts from here on are one value

ASSUME ThresholdAssumption ==
    /\ FailureThreshold \in Nat \ {0}
    /\ SuccessThreshold \in Nat \ {0}
    /\ ResetTimeout \in Nat \ {0}
    /\ CountCap \in Nat /\ CountCap >= FailureThreshold

VARIABLES
    state,                  \* "CLOSED", "OPEN" or "HALF_OPEN"
    failureCount,
    consecutiveSuccesses,
    failedOnce,             \* lastFailureTime is not null
    sinceFailure,           \* Date.now() - lastFailureTime, up to ResetTimeout
    begunIn,                \* caller -> breaker state its operation began in
    hcmUp,                  \* FALSE while operations may fail
    streak,                 \* history: failures since the latest success
    calm                    \* history: ticks since the latest failure

breaker == <<state, failureCount, consecutiveSuccesses, failedOnce, sinceFailure>>
vars    == <<breaker, begunIn, hcmUp, streak, calm>>

States == {"CLOSED", "OPEN", "HALF_OPEN"}

Capped(n) == IF n > CountCap THEN CountCap ELSE n

Init ==
    /\ state = "CLOSED"
    /\ failureCount = 0
    /\ consecutiveSuccesses = 0
    /\ failedOnce = FALSE
    /\ sinceFailure = 0
    /\ begunIn = [c \in Calls |-> "idle"]
    /\ hcmUp = TRUE
    /\ streak = 0
    /\ calm = ResetTimeout

-----------------------------------------------------------------------------
\* Mutant: the trial needs more than the reset timeout and never comes.
TimedOutNever == state = "OPEN" /\ failedOnce /\ sinceFailure > ResetTimeout

\* tryReset's condition for OPEN -> HALF_OPEN.
TimedOut == state = "OPEN" /\ failedOnce /\ sinceFailure >= ResetTimeout

\* execute() up to its await: tryReset, then the fail-fast check.
Begin(c) ==
    /\ begunIn[c] = "idle"
    /\ \/ /\ TimedOut
          /\ state' = "HALF_OPEN"
          /\ consecutiveSuccesses' = 0
       \/ /\ state # "OPEN"
          /\ UNCHANGED <<state, consecutiveSuccesses>>
    /\ begunIn' = [begunIn EXCEPT ![c] = state']
    /\ UNCHANGED <<failureCount, failedOnce, sinceFailure, hcmUp, streak, calm>>

Close ==
    /\ state' = "CLOSED"
    /\ failureCount' = 0
    /\ consecutiveSuccesses' = 0
    /\ failedOnce' = FALSE
    /\ sinceFailure' = 0

\* Mutant: a success in CLOSED leaves the failure count alone.
RecordSuccessKeepsCount ==
    \/ /\ state = "HALF_OPEN"
       /\ Close
    \/ /\ state # "HALF_OPEN"
       /\ UNCHANGED breaker

\* Mutant: successes in HALF_OPEN are counted and never close the breaker.
RecordSuccessNeverCloses ==
    \/ /\ state = "HALF_OPEN"
       /\ consecutiveSuccesses' = consecutiveSuccesses + 1
       /\ UNCHANGED <<state, failureCount, failedOnce, sinceFailure>>
    \/ /\ state # "HALF_OPEN"
       /\ failureCount' = IF state = "CLOSED" THEN 0 ELSE failureCount
       /\ UNCHANGED <<state, consecutiveSuccesses, failedOnce, sinceFailure>>

RecordSuccess ==
    \/ /\ state = "HALF_OPEN"
       /\ consecutiveSuccesses + 1 >= SuccessThreshold
       /\ Close
    \/ /\ state = "HALF_OPEN"
       /\ consecutiveSuccesses + 1 < SuccessThreshold
       /\ consecutiveSuccesses' = consecutiveSuccesses + 1
       /\ UNCHANGED <<state, failureCount, failedOnce, sinceFailure>>
    \/ /\ state = "CLOSED"
       /\ failureCount' = 0
       /\ UNCHANGED <<state, consecutiveSuccesses, failedOnce, sinceFailure>>
    \/ /\ state = "OPEN"
       /\ UNCHANGED breaker

\* Mutant: the time of a failure is kept from the first one on.
RecordFailureFirstTime ==
    /\ failureCount' = Capped(failureCount + 1)
    /\ failedOnce' = TRUE
    /\ sinceFailure' = IF failedOnce THEN sinceFailure ELSE 0
    /\ consecutiveSuccesses' = 0
    /\ state' = IF state = "HALF_OPEN" \/ failureCount' >= FailureThreshold
                THEN "OPEN" ELSE state

\* Mutant: the breaker opens one failure late.
RecordFailureOffByOne ==
    /\ failureCount' = Capped(failureCount + 1)
    /\ failedOnce' = TRUE
    /\ sinceFailure' = 0
    /\ consecutiveSuccesses' = 0
    /\ state' = IF state = "HALF_OPEN" \/ failureCount' > FailureThreshold
                THEN "OPEN" ELSE state

RecordFailure ==
    /\ failureCount' = Capped(failureCount + 1)
    /\ failedOnce' = TRUE
    /\ sinceFailure' = 0
    /\ consecutiveSuccesses' = 0
    /\ state' = IF state = "HALF_OPEN" \/ failureCount' >= FailureThreshold
                THEN "OPEN" ELSE state

\* execute() from the operation's outcome on.
Succeed(c) ==
    /\ begunIn[c] # "idle"
    /\ RecordSuccess
    /\ begunIn' = [begunIn EXCEPT ![c] = "idle"]
    /\ streak' = 0
    /\ UNCHANGED <<hcmUp, calm>>

Fail(c) ==
    /\ begunIn[c] # "idle"
    /\ ~hcmUp
    /\ RecordFailure
    /\ begunIn' = [begunIn EXCEPT ![c] = "idle"]
    /\ streak' = Capped(streak + 1)
    /\ calm' = 0
    /\ UNCHANGED hcmUp

\* reset(): closes the breaker whatever its state.
Reset ==
    /\ state # "CLOSED" \/ failureCount # 0
    /\ Close
    /\ streak' = 0
    /\ UNCHANGED <<begunIn, hcmUp, calm>>

\* Time passes; what is older than the reset timeout is old enough.
Tick ==
    /\ sinceFailure < ResetTimeout \/ calm < ResetTimeout
    /\ sinceFailure' = IF sinceFailure < ResetTimeout THEN sinceFailure + 1
                                                      ELSE sinceFailure
    /\ calm' = IF calm < ResetTimeout THEN calm + 1 ELSE calm
    /\ UNCHANGED <<state, failureCount, consecutiveSuccesses, failedOnce,
                   begunIn, hcmUp, streak>>

Outage == hcmUp' = ~hcmUp /\ UNCHANGED <<breaker, begunIn, streak, calm>>

-----------------------------------------------------------------------------
Execute(c) == Begin(c) \/ Succeed(c) \/ Fail(c)

Next ==
    \/ \E c \in Calls : Execute(c)
    \/ Reset
    \/ Tick
    \/ Outage

Spec == Init /\ [][Next]_vars

\* Callers keep calling, every operation ends, and the clock runs.
FairSpec ==
    /\ Spec
    /\ WF_vars(Tick)
    /\ \A c \in Calls : WF_vars(Begin(c)) /\ WF_vars(Succeed(c) \/ Fail(c))

-----------------------------------------------------------------------------
\* Type invariant.
TypeOK ==
    /\ state \in States
    /\ failureCount \in 0..CountCap
    /\ consecutiveSuccesses \in 0..SuccessThreshold
    /\ failedOnce \in BOOLEAN
    /\ sinceFailure \in 0..ResetTimeout
    /\ begunIn \in [Calls -> States \cup {"idle"}]
    /\ hcmUp \in BOOLEAN
    /\ streak \in 0..CountCap
    /\ calm \in 0..ResetTimeout

\* The breaker's four fields agree whatever operations end late: below the
\* threshold exactly while CLOSED, and a breaker that is not CLOSED always has
\* the failure time without which tryReset would leave it OPEN for ever.
FieldsAgree ==
    /\ state = "CLOSED" <=> failureCount < FailureThreshold
    /\ state # "CLOSED" => failedOnce
    /\ consecutiveSuccesses > 0 => state = "HALF_OPEN"

\* While CLOSED the count is the number of failures since the latest success
\* of any caller, the ones begun before an outage included.
CountsStreak == state = "CLOSED" => failureCount = streak

\* "CLOSED -> OPEN: when failure count reaches threshold": it takes that many
\* failures with no success of any caller in between, and not one more.
TripsOnStreak ==
    [][state = "CLOSED" => (state' = "OPEN" <=> streak' >= FailureThreshold)]_vars

\* "Requests fail fast without calling HCM": once the breaker has opened, no
\* operation begins until a full reset timeout without any failure has passed,
\* the failures of operations that were still under way included.
FailsFast ==
    [][state = "OPEN" /\ (\E c \in Calls : begunIn[c] = "idle" /\ begunIn'[c] # "idle")
          => calm = ResetTimeout]_vars

\* Once the HCM stays up, the breaker closes and stays closed.
Recovers == <>[]hcmUp => <>[](state = "CLOSED")

=============================================================================
