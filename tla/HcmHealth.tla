------------------------------- MODULE HcmHealth -------------------------------
(***************************************************************************)
(* HealthCheckService over HCMRetryService and HCMClient.pingHealth, beside  *)
(* the callers of the circuit breaker.                                      *)
(*                                                                         *)
(* checkHCMHealth reads the breaker's state, then awaits up to              *)
(* HcmMaxRetries + 1 pings with a sleep between two of them; the breaker and *)
(* other checks go on meanwhile.  A check only reads the breaker: its pings  *)
(* do not go through execute().                                             *)
(***************************************************************************)
EXTENDS CircuitBreaker

CONSTANTS
    Checks,             \* health requests that can be in flight at once
    HcmMaxRetries       \* HCM_MAX_RETRIES

ASSUME HcmMaxRetriesAssumption == HcmMaxRetries \in Nat

VARIABLES
    hpc,                \* check -> "idle", "ping" or "sleep"
    readState,          \* check -> breaker state read before the first await
    tries,              \* check -> the retry loop's attempt
    told,               \* check -> status of its latest answer
    succeededOnce,      \* lastSuccessfulCheck is not null
    failedCheck,        \* lastFailedCheck is not null
    failureReason       \* failureReason is not null

checkRegs  == <<hpc, readState, tries, told>>
healthVars == <<checkRegs, succeededOnce, failedCheck, failureReason>>

HealthInit ==
    /\ Init
    /\ hpc = [h \in Checks |-> "idle"]
    /\ readState = [h \in Checks |-> "none"]
    /\ tries = [h \in Checks |-> 0]
    /\ told = [h \in Checks |-> "none"]
    /\ succeededOnce = FALSE /\ failedCheck = FALSE /\ failureReason = FALSE

-----------------------------------------------------------------------------
Answer(h, status) ==
    /\ hpc' = [hpc EXCEPT ![h] = "idle"]
    /\ readState' = [readState EXCEPT ![h] = "none"]
    /\ tries' = [tries EXCEPT ![h] = 0]
    /\ told' = [told EXCEPT ![h] = status]

CheckFailed(h, status) ==
    /\ Answer(h, status)
    /\ failedCheck' = TRUE
    /\ failureReason' = TRUE
    /\ UNCHANGED succeededOnce

\* An OPEN breaker answers the check without a ping.
CheckBegin(h) ==
    /\ hpc[h] = "idle"
    /\ \/ /\ state = "OPEN"
          /\ CheckFailed(h, "DOWN")
       \/ /\ state # "OPEN"
          /\ hpc' = [hpc EXCEPT ![h] = "ping"]
          /\ readState' = [readState EXCEPT ![h] = state]
          /\ told' = [told EXCEPT ![h] = "none"]
          /\ UNCHANGED <<tries, succeededOnce, failedCheck, failureReason>>
    /\ UNCHANGED vars

\* Mutant: a success leaves the reason of an earlier failure.
PingAnsweredKeepsReason(h) ==
    /\ hpc[h] = "ping"
    /\ Answer(h, "UP")
    /\ succeededOnce' = TRUE
    /\ UNCHANGED <<vars, failedCheck, failureReason>>

\* Any answer with a status below 400: its body is not looked at.
PingAnswered(h) ==
    /\ hpc[h] = "ping"
    /\ Answer(h, "UP")
    /\ succeededOnce' = TRUE
    /\ failureReason' = FALSE
    /\ UNCHANGED <<vars, failedCheck>>

\* Mutant: the loop's attempt is not counted.
RetryLaterUncounted(h) ==
    /\ hpc' = [hpc EXCEPT ![h] = "sleep"]
    /\ UNCHANGED <<readState, tries, told, succeededOnce, failedCheck,
                   failureReason>>

\* Mutant: the last attempt is retried as well.
RetryLaterUnbounded(h) ==
    /\ tries' = [tries EXCEPT ![h] = @ + 1]
    /\ hpc' = [hpc EXCEPT ![h] = "sleep"]
    /\ UNCHANGED <<readState, told, succeededOnce, failedCheck, failureReason>>

\* A transient error before the last attempt.
RetryLater(h) ==
    /\ tries[h] < HcmMaxRetries
    /\ tries' = [tries EXCEPT ![h] = @ + 1]
    /\ hpc' = [hpc EXCEPT ![h] = "sleep"]
    /\ UNCHANGED <<readState, told, succeededOnce, failedCheck, failureReason>>

\* A timeout, a network error, a 5xx answer or an unknown error is transient, a
\* 4xx answer permanent.  DEGRADED goes by the breaker state the check read.
PingFailed(h) ==
    /\ hpc[h] = "ping"
    /\ ~hcmUp
    /\ \E transient \in BOOLEAN :
          \/ transient /\ RetryLater(h)
          \/ /\ transient => tries[h] = HcmMaxRetries
             /\ CheckFailed(h, IF readState[h] = "HALF_OPEN" THEN "DEGRADED"
                                                             ELSE "DOWN")
    /\ UNCHANGED vars

\* The backoff is over.
Wake(h) ==
    /\ hpc[h] = "sleep"
    /\ hpc' = [hpc EXCEPT ![h] = "ping"]
    /\ UNCHANGED <<vars, readState, tries, told, succeededOnce, failedCheck,
                   failureReason>>

-----------------------------------------------------------------------------
CheckStep(h) == PingAnswered(h) \/ PingFailed(h) \/ Wake(h)

HealthNext ==
    \/ Next /\ UNCHANGED healthVars
    \/ \E h \in Checks : CheckBegin(h) \/ CheckStep(h)

HealthSpec == HealthInit /\ [][HealthNext]_<<vars, healthVars>>

\* The breaker's fairness; every ping is answered, fails or times out, and
\* every sleep ends.  Whoever watches the health endpoint keeps asking.
HealthFairSpec ==
    /\ HealthSpec
    /\ WF_vars(Tick /\ UNCHANGED healthVars)
    /\ \A c \in Calls :
          /\ WF_vars(Begin(c) /\ UNCHANGED healthVars)
          /\ WF_vars((Succeed(c) \/ Fail(c)) /\ UNCHANGED healthVars)
    /\ \A h \in Checks : WF_healthVars(CheckBegin(h)) /\ WF_healthVars(CheckStep(h))

-----------------------------------------------------------------------------
(* Properties.                                                               *)

ChecksTyped ==
    /\ hpc \in [Checks -> {"idle", "ping", "sleep"}]
    /\ readState \in [Checks -> States \cup {"none"}]
    /\ \A h \in Checks : hpc[h] = "idle" <=> readState[h] = "none"
    /\ tries \in [Checks -> 0..HcmMaxRetries]
    /\ told \in [Checks -> {"none", "UP", "DOWN", "DEGRADED"}]

FlagsTyped ==
    /\ succeededOnce \in BOOLEAN
    /\ failedCheck \in BOOLEAN
    /\ failureReason \in BOOLEAN

\* Type invariant; it bounds the pings of a check to HcmMaxRetries + 1.
HealthTypeOK == ChecksTyped /\ FlagsTyped

\* Every health request is answered, also while the HCM is down for good.
ChecksAnswered == \A h \in Checks : hpc[h] # "idle" ~> hpc[h] = "idle"

\* Once the HCM stays up, an outage is forgotten: from some time on no health
\* request is answered DOWN or DEGRADED and no failureReason is on record.  It
\* takes the callers to close the breaker, the checks begun before that to end,
\* and one more check to clear what the last of them left.
OutageForgotten ==
    <>[]hcmUp => <>[](~failureReason /\ \A h \in Checks : told[h] \in {"none", "UP"})

=============================================================================
