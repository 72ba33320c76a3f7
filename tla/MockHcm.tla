-------------------------------- MODULE MockHcm --------------------------------
(***************************************************************************)
(* The mock HCM server: BehaviorEngine, BalanceService, RequestService and   *)
(* the administrative endpoints, as the service's tests drive it.            *)
(*                                                                         *)
(* A call runs to its end in one turn, except under TIMEOUT: then it sleeps  *)
(* for 6.5 s before its operation runs, on whatever balances and behavior    *)
(* the server has by then, and its client may have given up long before.     *)
(***************************************************************************)
EXTENDS Integers, Sequences, FiniteSetsExt

CONSTANTS
    Callers,            \* HTTP calls that can be in flight at once
    Dimensions,         \* employee/location/leaveType combinations asked for
    Seed,               \* seeded dimension -> available balance
    Submissions,        \* time-off requests that may be submitted (their UUIDs)
    DimensionOf,        \* submission -> its dimension
    DaysOf,             \* submission -> requestedDays
    Batches,            \* lists of dimensions a batch asks for
    Numbers,            \* balances update-balance may set
    PartialFailures,    \* calls PARTIAL_FAILURE fails
    MaxFailures         \* calls CIRCUIT_BREAKER fails

ASSUME SeedAssumption ==
    /\ DOMAIN Seed \subseteq Dimensions
    /\ Seed \in [DOMAIN Seed -> Nat]
ASSUME SubmissionAssumption ==
    /\ DimensionOf \in [Submissions -> Dimensions]
    /\ DaysOf \in [Submissions -> Nat \ {0}]
ASSUME BatchesAssumption == Batches \subseteq Seq(Dimensions)
ASSUME NumbersAssumption == Numbers \subseteq Nat
ASSUME FailureAssumption ==
    PartialFailures \in Nat /\ MaxFailures \in Nat /\ PartialFailures <= MaxFailures

VARIABLES
    behavior,           \* BehaviorEngine.currentBehavior
    failureCount,       \* up to FailureCap
    driftCounter,       \* modulo 3, the only way it is used
    available,          \* BalanceService.balances: dimension -> available
    requests,           \* RequestService.requests: submissions on record
    sleeping,           \* caller -> the operation TIMEOUT delays, or NoOp
    status,             \* caller -> HTTP status of its latest answer
    failed,             \* history: calls the behavior failed since it was set
    passed,             \* history: one ran since the behavior was set
    covered             \* history: submission -> balance held when recorded

engine  == <<behavior, failureCount, driftCounter>>
calling == <<sleeping, status>>
history == <<failed, passed>>
vars    == <<engine, available, requests, calling, history, covered>>

Behaviors == {"NORMAL", "TIMEOUT", "PARTIAL_FAILURE", "DRIFT", "CIRCUIT_BREAKER",
              "INVALID_DIMENSION", "INSUFFICIENT_BALANCE"}

FailureCap == MaxFailures + 1       \* bound: more failures count the same

\* What may be left of a batch.
Rests == UNION {{SubSeq(b, i, Len(b)) : i \in 1..Len(b)} : b \in Batches}

\* A call is getBalance of a dimension, submitTimeOffRequest, the answer of
\* update-balance, which reads the balance it has just set, or a batch, of which
\* the dimensions not read yet are kept.
Ops == [op : {"get", "echo"}, dim : Dimensions] \cup [op : {"submit"}, sub : Submissions]
       \cup [op : {"batch"}, dims : Rests]
NoOp == [op |-> "none"]
DimOf(o) == IF o.op = "submit" THEN DimensionOf[o.sub] ELSE o.dim

Init ==
    /\ behavior = "NORMAL" /\ failureCount = 0 /\ driftCounter = 0
    /\ available = Seed
    /\ requests = {}
    /\ sleeping = [c \in Callers |-> NoOp]
    /\ status = [c \in Callers |-> 0]
    /\ failed = 0 /\ passed = FALSE
    /\ covered = [s \in Submissions |-> 0]

-----------------------------------------------------------------------------
(* BehaviorEngine.                                                           *)

\* The number of calls a behavior fails before it lets calls through.
FailFirst(b) == CASE b = "PARTIAL_FAILURE" -> PartialFailures
                  [] b = "CIRCUIT_BREAKER" -> MaxFailures
                  [] OTHER                 -> 0

Counting == behavior \in {"PARTIAL_FAILURE", "CIRCUIT_BREAKER"}
Refusing == behavior \in {"INVALID_DIMENSION", "INSUFFICIENT_BALANCE"}

\* The status the controllers give to the behavior's exceptions: only the ones
\* they name become 400, and the two controllers name different ones.
Refusal(o) ==
    CASE o.op = "echo" -> 400
      [] behavior = "INVALID_DIMENSION" -> 400
      [] behavior = "INSUFFICIENT_BALANCE" -> IF o.op = "submit" THEN 400 ELSE 500
      [] behavior = "PARTIAL_FAILURE" -> IF o.op = "get" THEN 400 ELSE 500
      [] OTHER -> 500

\* Mutant: the drift is added.
DriftedUp(n) == n + ((driftCounter + 1) % 3)

\* DRIFT shows 0, 1 or 2 days less than there are, and never less than none.
Drifted(n) == LET d == (driftCounter + 1) % 3 IN IF n > d THEN n - d ELSE 0

\* What the operation is shown of a balance.
Shown(n) == IF behavior = "DRIFT" THEN Drifted(n) ELSE n

-----------------------------------------------------------------------------
(* The operations.                                                           *)

Reply(c, code) == status' = [status EXCEPT ![c] = code]

\* Without the days: 400, InsufficientBalanceException.
Submit(c, s, shown) ==
    \/ /\ DaysOf[s] <= shown
       /\ requests' = requests \cup {s}
       /\ covered' = [covered EXCEPT ![s] = available[DimensionOf[s]]]
       /\ Reply(c, 201)
    \/ /\ DaysOf[s] > shown
       /\ Reply(c, 400)
       /\ UNCHANGED <<requests, covered>>

\* getBalance's callback and what its caller does with the result.  An unknown
\* dimension is 400 everywhere.
Run(c, o, shown) ==
    IF DimOf(o) \notin DOMAIN available
    THEN Reply(c, 400) /\ UNCHANGED <<requests, covered>>
    ELSE IF o.op = "submit" THEN Submit(c, o.sub, shown)
    ELSE Reply(c, 200) /\ UNCHANGED <<requests, covered>>

ShownOf(o) == IF DimOf(o) \in DOMAIN available THEN Shown(available[DimOf(o)]) ELSE 0

\* executeWithBehavior.
Execute(c, o) ==
    \/ /\ behavior = "TIMEOUT"
       /\ sleeping' = [sleeping EXCEPT ![c] = o]
       /\ Reply(c, 0)
       /\ UNCHANGED <<failureCount, driftCounter, requests, history, covered>>
    \/ /\ Counting /\ failureCount < FailFirst(behavior)
       /\ failureCount' = failureCount + 1
       /\ failed' = failed + 1
       /\ Reply(c, Refusal(o))
       /\ UNCHANGED <<driftCounter, requests, sleeping, passed, covered>>
    \/ /\ Counting /\ failureCount >= FailFirst(behavior)
       /\ failureCount' = IF failureCount < FailureCap THEN failureCount + 1
                                                       ELSE failureCount
       /\ passed' = TRUE
       /\ Run(c, o, ShownOf(o))
       /\ UNCHANGED <<driftCounter, sleeping, failed>>
    \/ /\ Refusing
       /\ Reply(c, Refusal(o))
       /\ UNCHANGED <<failureCount, driftCounter, requests, sleeping, history, covered>>
    \/ /\ behavior \in {"NORMAL", "DRIFT"}
       /\ driftCounter' = IF behavior = "DRIFT" /\ DimOf(o) \in DOMAIN available
                          THEN (driftCounter + 1) % 3 ELSE driftCounter
       /\ Run(c, o, ShownOf(o))
       /\ UNCHANGED <<failureCount, sleeping, history>>

\* batchGetBalances over the given dimensions: one getBalance after another,
\* each under the behavior, in a single turn unless one of them sleeps.  What
\* they throw is logged and the batch is accepted whatever it found.
Batch(c, dims) ==
    LET n == Len(dims)
        f == IF failureCount >= FailFirst(behavior) THEN 0
             ELSE Min({n, FailFirst(behavior) - failureCount})
        known == Cardinality({i \in 1..n : dims[i] \in DOMAIN available})
    IN  IF behavior = "TIMEOUT" /\ n > 0
        THEN /\ sleeping' = [sleeping EXCEPT ![c] = [op |-> "batch", dims |-> dims]]
             /\ Reply(c, 0)
             /\ UNCHANGED <<failureCount, driftCounter, history>>
        ELSE /\ sleeping' = [sleeping EXCEPT ![c] = NoOp]
             /\ Reply(c, 202)
             /\ failureCount' = IF Counting THEN Min({failureCount + n, FailureCap})
                                            ELSE failureCount
             /\ failed' = failed + f
             /\ passed' = (passed \/ (Counting /\ f < n))
             /\ driftCounter' = IF behavior = "DRIFT" THEN (driftCounter + known) % 3
                                                      ELSE driftCounter

\* A caller whose previous call is over.
Free(c) == sleeping[c] = NoOp

GetBalance(c, d) ==
    /\ Free(c)
    /\ Execute(c, [op |-> "get", dim |-> d])
    /\ UNCHANGED <<behavior, available>>

\* A dimension without a balance is refused before the behavior applies.
SubmitRequest(c, s) ==
    /\ Free(c)
    /\ s \notin requests /\ \A k \in Callers : sleeping[k] # [op |-> "submit", sub |-> s]
    /\ IF DimensionOf[s] \in DOMAIN available
       THEN Execute(c, [op |-> "submit", sub |-> s])
       ELSE Reply(c, 400) /\ UNCHANGED <<failureCount, driftCounter, requests,
                                         sleeping, history, covered>>
    /\ UNCHANGED <<behavior, available>>

\* update-balance: the number is set at once and whatever becomes of the rest.
UpdateBalance(c, d, n) ==
    /\ Free(c)
    /\ \/ /\ d \in DOMAIN available
          /\ available' = [available EXCEPT ![d] = n]
          /\ Execute(c, [op |-> "echo", dim |-> d])
       \/ /\ d \notin DOMAIN available
          /\ Reply(c, 400)
          /\ UNCHANGED <<failureCount, driftCounter, available, requests,
                         sleeping, history, covered>>
    /\ UNCHANGED behavior

BatchSync(c, dims) ==
    /\ Free(c)
    /\ Batch(c, dims)
    /\ UNCHANGED <<behavior, available, requests, covered>>

\* The 6.5 s are over: the operation runs, without any behavior.  A batch goes on
\* with the rest of its list under the behavior of this moment.
Land(c) ==
    /\ sleeping[c] # NoOp
    /\ LET o == sleeping[c]
       IN  IF o.op = "batch"
           THEN Batch(c, Tail(o.dims)) /\ UNCHANGED <<requests, covered>>
           ELSE /\ sleeping' = [sleeping EXCEPT ![c] = NoOp]
                /\ Run(c, o, IF DimOf(o) \in DOMAIN available THEN available[DimOf(o)]
                                                              ELSE 0)
                /\ UNCHANGED <<failureCount, driftCounter, history>>
    /\ UNCHANGED <<behavior, available>>

-----------------------------------------------------------------------------
(* The administrative endpoints.                                             *)

\* Mutant: the counters survive a change of behavior.
SetBehaviorKeepsCounters(b) ==
    /\ behavior' = b
    /\ failed' = 0 /\ passed' = FALSE
    /\ UNCHANGED <<failureCount, driftCounter>>

Behave(b) ==
    /\ behavior' = b
    /\ failureCount' = 0
    /\ driftCounter' = 0
    /\ failed' = 0 /\ passed' = FALSE

\* set-behavior, and reset-behavior with NORMAL.
SetBehavior(b) == Behave(b) /\ UNCHANGED <<available, requests, calling, covered>>

\* Mutant: the balances are cleared and not seeded again.
ResetAllUnseeded ==
    /\ Behave("NORMAL")
    /\ available' = [d \in {} |-> 0]
    /\ requests' = {}
    /\ UNCHANGED <<calling, covered>>

\* reset-all; calls that sleep are not recalled.
ResetAll ==
    /\ Behave("NORMAL")
    /\ available' = Seed
    /\ requests' = {}
    /\ UNCHANGED <<calling, covered>>

-----------------------------------------------------------------------------
Next ==
    \/ \E c \in Callers : \E d \in Dimensions :
          GetBalance(c, d) \/ \E n \in Numbers : UpdateBalance(c, d, n)
    \/ \E c \in Callers : \E s \in Submissions : SubmitRequest(c, s)
    \/ \E c \in Callers : Land(c) \/ \E b \in Batches : BatchSync(c, b)
    \/ \E b \in Behaviors : SetBehavior(b)
    \/ ResetAll

Spec == Init /\ [][Next]_vars

-----------------------------------------------------------------------------
(* Properties.                                                               *)

\* Type invariant.
TypeOK ==
    /\ behavior \in Behaviors
    /\ failureCount \in 0..FailureCap
    /\ driftCounter \in 0..2
    /\ available \in [DOMAIN Seed -> Nat]
    /\ requests \subseteq Submissions
    /\ sleeping \in [Callers -> Ops \cup {NoOp}]
    /\ status \in [Callers -> {0, 200, 201, 202, 400, 500}]
    /\ failed \in 0..MaxFailures
    /\ passed \in BOOLEAN
    /\ covered \in [Submissions -> Nat]

\* "Fail first N calls, then succeed": since a behavior was set, whatever was
\* set before and whatever calls are still asleep from then, exactly its first
\* N calls fail and none after them does.
FailsFirstN ==
    /\ failed <= FailFirst(behavior)
    /\ passed => failed = FailFirst(behavior)
    /\ Counting /\ ~passed => failed = failureCount

\* However behaviors, balance updates, resets and sleeping submissions follow
\* one another, a request is only on record if the balance held when it was
\* recorded covered it: drift and delay never make the server accept more.
RecordsCovered == \A s \in requests : DaysOf[s] <= covered[s]

=============================================================================
