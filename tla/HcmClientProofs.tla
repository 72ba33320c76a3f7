---------------------------- MODULE HcmClientProofs ----------------------------
(***************************************************************************)
(* Theorems about the mock server, for any dimensions, submissions, batches,  *)
(* callers and numbers of failures, and about the client's operations that    *)
(* wait on it.                                                               *)
(***************************************************************************)
EXTENDS HcmClient, FiniteSetTheorems, TLAPS

-----------------------------------------------------------------------------
(* What the operators return.                                                *)

\* The lesser of two numbers.
LEMMA MinOfTwo ==
    ASSUME NEW a \in Int, NEW b \in Int
    PROVE  Min({a, b}) = IF a <= b THEN a ELSE b
<1>1. CASE a <= b
  <2>1. Min({a, b}) \in {a, b} /\ \A y \in {a, b} : Min({a, b}) <= y
    <3>1. a \in {a, b} /\ \A y \in {a, b} : a <= y
      BY <1>1
    <3> QED  BY <3>1 DEF Min
  <2> QED  BY <2>1, <1>1
<1>2. CASE ~(a <= b)
  <2>1. Min({a, b}) \in {a, b} /\ \A y \in {a, b} : Min({a, b}) <= y
    <3>1. b \in {a, b} /\ \A y \in {a, b} : b <= y
      BY <1>2
    <3> QED  BY <3>1 DEF Min
  <2> QED  BY <2>1, <1>2
<1> QED  BY <1>1, <1>2

\* Drift never shows more than there is.
LEMMA ShownAtMost ==
    ASSUME NEW n \in Nat, driftCounter \in 0..2
    PROVE  Shown(n) \in Nat /\ Shown(n) <= n
BY DEF Shown, Drifted

\* No behavior asks for more failures than the bound.
LEMMA FailFirstBounds ==
    ASSUME NEW b
    PROVE  FailFirst(b) \in 0..MaxFailures
BY FailureAssumption DEF FailFirst

\* What is left of a batch that has begun is again something that may be left.
LEMMA RestsShrink ==
    /\ \A b \in Batches : Len(b) > 0 => b \in Rests
    /\ \A r \in Rests : r \in Seq(Dimensions) /\ Len(r) > 0
    /\ \A r \in Rests : Len(Tail(r)) > 0 => Tail(r) \in Rests
<1>1. ASSUME NEW b \in Batches, Len(b) > 0
      PROVE  b \in Rests
  <2>1. b \in Seq(Dimensions)
    BY BatchesAssumption
  <2>2. SubSeq(b, 1, Len(b)) = b
    BY <2>1
  <2>3. 1 \in 1..Len(b)
    BY <2>1, <1>1
  <2> QED  BY <2>2, <2>3 DEF Rests
<1>2. ASSUME NEW r \in Rests
      PROVE  /\ r \in Seq(Dimensions) /\ Len(r) > 0
             /\ Len(Tail(r)) > 0 => Tail(r) \in Rests
  <2>1. PICK b \in Batches : \E i \in 1..Len(b) : r = SubSeq(b, i, Len(b))
    BY <1>2 DEF Rests
  <2>2. PICK i \in 1..Len(b) : r = SubSeq(b, i, Len(b))
    BY <2>1
  <2>3. b \in Seq(Dimensions) /\ Len(b) \in Nat
    BY BatchesAssumption
  <2>4. r \in Seq(Dimensions) /\ Len(r) = Len(b) - i + 1
    BY <2>2, <2>3
  <2>5. ASSUME Len(Tail(r)) > 0
        PROVE  Tail(r) \in Rests
    <3>1. i + 1 \in 1..Len(b)
      BY <2>3, <2>4, <2>5
    <3>2. Tail(r) = SubSeq(b, i + 1, Len(b))
      BY <2>2, <2>3, <2>4, <3>1
    <3>3. Tail(r) \in {SubSeq(b, k, Len(b)) : k \in 1..Len(b)}
      BY <3>1, <3>2
    <3>4. \A S : S \in {{SubSeq(x, k, Len(x)) : k \in 1..Len(x)} : x \in Batches}
                     /\ Tail(r) \in S => Tail(r) \in Rests
      BY DEF Rests
    <3> QED  BY <3>3, <3>4
  <2> QED  BY <2>4, <2>5, <2>3
<1> QED  BY <1>1, <1>2

\* What a submission and a batch carry.
LEMMA OpsHave ==
    ASSUME NEW o \in Ops
    PROVE  /\ o.op \in {"get", "echo", "submit", "batch"}
           /\ o.op = "submit" => o.sub \in Submissions
           /\ o.op = "batch" => o.dims \in Rests
BY DEF Ops

-----------------------------------------------------------------------------
(* Type correctness.                                                         *)

\* An operation that is not refused.
LEMMA RunTyped ==
    ASSUME TypeOK, NEW c \in Callers, NEW o \in Ops, o.op # "batch", NEW shown \in Nat,
           Run(c, o, shown)
    PROVE  /\ requests' \subseteq Submissions
           /\ covered' \in [Submissions -> Nat]
           /\ status' \in [Callers -> {0, 200, 201, 202, 400, 500}]
<1>1. status \in [Callers -> {0, 200, 201, 202, 400, 500}]
  BY DEF TypeOK
<1>2. CASE DimOf(o) \notin DOMAIN available
  BY <1>1, <1>2 DEF Run, Reply, TypeOK
<1>3. CASE DimOf(o) \in DOMAIN available /\ o.op = "submit"
  <2>1. o.sub \in Submissions /\ DimOf(o) = DimensionOf[o.sub]
    BY <1>3, OpsHave DEF DimOf
  <2>2. available[DimensionOf[o.sub]] \in Nat
    BY <1>3, <2>1, SeedAssumption DEF TypeOK
  <2>3. Submit(c, o.sub, shown)
    BY <1>3 DEF Run
  <2> QED  BY <1>1, <2>1, <2>2, <2>3 DEF Submit, Reply, TypeOK
<1>4. CASE DimOf(o) \in DOMAIN available /\ o.op # "submit"
  BY <1>1, <1>4 DEF Run, Reply, TypeOK
<1> QED  BY <1>2, <1>3, <1>4

\* The mock never shows a negative balance.
LEMMA ShownOfTyped ==
    ASSUME TypeOK, NEW o \in Ops
    PROVE  ShownOf(o) \in Nat
<1>1. CASE DimOf(o) \in DOMAIN available
  <2>1. available[DimOf(o)] \in Nat
    BY <1>1, SeedAssumption DEF TypeOK
  <2> QED  BY <1>1, <2>1, ShownAtMost DEF ShownOf, TypeOK
<1>2. CASE DimOf(o) \notin DOMAIN available
  BY <1>2 DEF ShownOf
<1> QED  BY <1>1, <1>2

\* The counters of a behavior count its calls.
Counters ==
    /\ Counting /\ ~passed => failed = failureCount /\ failureCount <= FailFirst(behavior)
    /\ Counting /\ passed => failed = FailFirst(behavior) /\ failureCount >= failed
    /\ ~Counting => failed = 0 /\ passed = FALSE

Inv == TypeOK /\ Counters

\* What a call may leave of the counters and of the calls that sleep.
CallTyped ==
    /\ failureCount' \in 0..FailureCap
    /\ driftCounter' \in 0..2
    /\ requests' \subseteq Submissions
    /\ sleeping' \in [Callers -> Ops \cup {NoOp}]
    /\ status' \in [Callers -> {0, 200, 201, 202, 400, 500}]
    /\ failed' \in 0..MaxFailures
    /\ passed' \in BOOLEAN
    /\ covered' \in [Submissions -> Nat]

\* What an injected failure is answered with.
LEMMA RefusalCode ==
    ASSUME NEW o
    PROVE  Refusal(o) \in {400, 500}
BY DEF Refusal

\* A single call, refused or run, and its count.
LEMMA ExecuteTyped ==
    ASSUME Inv, NEW c \in Callers, NEW o \in Ops, o.op # "batch", Execute(c, o),
           behavior' = behavior
    PROVE  CallTyped /\ Counters'
<1> USE DEF Inv
<1>1. FailFirst(behavior) \in 0..MaxFailures /\ FailureCap = MaxFailures + 1 /\ MaxFailures \in Nat
  BY FailFirstBounds, FailureAssumption DEF FailureCap
<1>2. Refusal(o) \in {400, 500}
  BY RefusalCode
<1>3. (Counting <=> Counting') /\ FailFirst(behavior)' = FailFirst(behavior)
  BY DEF Counting, FailFirst
<1>4. CASE /\ behavior = "TIMEOUT"
           /\ sleeping' = [sleeping EXCEPT ![c] = o]
           /\ Reply(c, 0)
           /\ UNCHANGED <<failureCount, driftCounter, requests, history, covered>>
  BY <1>3, <1>4 DEF CallTyped, TypeOK, Counters, Reply, history
<1>5. CASE /\ Counting /\ failureCount < FailFirst(behavior)
           /\ failureCount' = failureCount + 1
           /\ failed' = failed + 1
           /\ Reply(c, Refusal(o))
           /\ UNCHANGED <<driftCounter, requests, sleeping, passed, covered>>
  <2>1. passed = FALSE /\ failed = failureCount /\ failureCount \in Nat
    BY <1>1, <1>5 DEF TypeOK, Counters
  <2>2. failureCount' \in 0..FailureCap /\ failed' \in 0..MaxFailures
    BY <1>1, <1>5, <2>1
  <2>3. CallTyped
    BY <1>2, <1>5, <2>2 DEF CallTyped, TypeOK, Reply
  <2>4. Counters'
    BY <1>1, <1>3, <1>5, <2>1 DEF Counters
  <2> QED  BY <2>3, <2>4
<1>6. CASE /\ Counting /\ failureCount >= FailFirst(behavior)
           /\ failureCount' = IF failureCount < FailureCap THEN failureCount + 1
                                                           ELSE failureCount
           /\ passed' = TRUE
           /\ Run(c, o, ShownOf(o))
           /\ UNCHANGED <<driftCounter, sleeping, failed>>
  <2>1. failed = FailFirst(behavior) /\ failureCount \in 0..FailureCap
    BY <1>1, <1>6 DEF TypeOK, Counters
  <2>2. failureCount' \in 0..FailureCap /\ failureCount' >= failureCount
    BY <1>1, <1>6, <2>1
  <2>3. CallTyped
    BY <1>6, <2>2, RunTyped, ShownOfTyped DEF CallTyped, TypeOK
  <2>4. Counters'
    BY <1>1, <1>3, <1>6, <2>1, <2>2 DEF Counters
  <2> QED  BY <2>3, <2>4
<1>7. CASE /\ Refusing
           /\ Reply(c, Refusal(o))
           /\ UNCHANGED <<failureCount, driftCounter, requests, sleeping, history, covered>>
  BY <1>2, <1>3, <1>7 DEF CallTyped, TypeOK, Counters, Reply, history
<1>8. CASE /\ behavior \in {"NORMAL", "DRIFT"}
           /\ driftCounter' = IF behavior = "DRIFT" /\ DimOf(o) \in DOMAIN available
                              THEN (driftCounter + 1) % 3 ELSE driftCounter
           /\ Run(c, o, ShownOf(o))
           /\ UNCHANGED <<failureCount, sleeping, history>>
  <2>1. driftCounter' \in 0..2
    BY <1>8 DEF TypeOK
  <2>2. CallTyped
    BY <1>8, <2>1, RunTyped, ShownOfTyped DEF CallTyped, TypeOK, history
  <2>3. Counters'
    BY <1>3, <1>8 DEF Counters, history
  <2> QED  BY <2>2, <2>3
<1> QED  BY <1>4, <1>5, <1>6, <1>7, <1>8 DEF Execute

\* A batch, of which every dimension is answered and counted.
LEMMA BatchTyped ==
    ASSUME Inv, NEW c \in Callers, NEW dims \in Seq(Dimensions),
           Len(dims) > 0 => dims \in Rests, Batch(c, dims), behavior' = behavior,
           UNCHANGED <<requests, covered>>
    PROVE  CallTyped /\ Counters'
<1> USE DEF Inv
<1> DEFINE n == Len(dims)
           f == IF failureCount >= FailFirst(behavior) THEN 0
                ELSE Min({n, FailFirst(behavior) - failureCount})
           known == Cardinality({i \in 1..n : dims[i] \in DOMAIN available})
<1>1. FailFirst(behavior) \in 0..MaxFailures /\ FailureCap = MaxFailures + 1 /\ MaxFailures \in Nat
  BY FailFirstBounds, FailureAssumption DEF FailureCap
<1>2. failureCount \in 0..FailureCap /\ failed \in 0..MaxFailures /\ n \in Nat
  BY DEF TypeOK
<1>3. (Counting <=> Counting') /\ FailFirst(behavior)' = FailFirst(behavior)
  BY DEF Counting, FailFirst
<1>4. CASE behavior = "TIMEOUT" /\ n > 0
  <2>1. [op |-> "batch", dims |-> dims] \in Ops
    BY <1>4 DEF Ops
  <2>2. /\ sleeping' = [sleeping EXCEPT ![c] = [op |-> "batch", dims |-> dims]]
        /\ Reply(c, 0)
        /\ UNCHANGED <<failureCount, driftCounter, history>>
    BY <1>4 DEF Batch
  <2>3. CallTyped
    BY <2>1, <2>2 DEF CallTyped, TypeOK, Reply, history
  <2>4. Counters'
    BY <1>3, <2>2 DEF Counters, history
  <2> QED  BY <2>3, <2>4
<1>5. CASE ~(behavior = "TIMEOUT" /\ n > 0)
  <2>1. /\ sleeping' = [sleeping EXCEPT ![c] = NoOp]
        /\ Reply(c, 202)
        /\ failureCount' = IF Counting THEN Min({failureCount + n, FailureCap})
                                       ELSE failureCount
        /\ failed' = failed + f
        /\ passed' = (passed \/ (Counting /\ f < n))
        /\ driftCounter' = IF behavior = "DRIFT" THEN (driftCounter + known) % 3
                                                 ELSE driftCounter
    BY <1>5 DEF Batch
  <2>2. known \in Nat
    <3>1. IsFiniteSet(1..n)
      BY <1>2, FS_Interval
    <3>2. IsFiniteSet({i \in 1..n : dims[i] \in DOMAIN available})
      BY <3>1, FS_Subset
    <3> QED  BY <3>2, FS_CardinalityType
  <2>3. driftCounter' \in 0..2
    BY <2>1, <2>2 DEF TypeOK
  <2>4. Min({failureCount + n, FailureCap}) = IF failureCount + n <= FailureCap
                                              THEN failureCount + n ELSE FailureCap
    BY <1>1, <1>2, MinOfTwo
  <2>5. failureCount' \in 0..FailureCap
    BY <1>1, <1>2, <2>1, <2>4
  <2>6. f = IF failureCount >= FailFirst(behavior) THEN 0
            ELSE IF n <= FailFirst(behavior) - failureCount THEN n
            ELSE FailFirst(behavior) - failureCount
    BY <1>1, <1>2, MinOfTwo
  <2>7. failed' \in 0..MaxFailures /\ Counters'
    <3> HIDE DEF n, f, known
    <3>1. CASE ~Counting
      <4>1. FailFirst(behavior) = 0
        BY <3>1 DEF Counting, FailFirst
      <4>2. f = 0
        BY <1>1, <1>2, <2>6, <4>1
      <4>3. failed = 0 /\ ~passed
        BY <3>1 DEF Counters
      <4>4. failed' = 0 /\ 0 \in 0..MaxFailures
        BY <1>1, <2>1, <4>2, <4>3
      <4>5. passed' = FALSE
        BY <2>1, <3>1, <4>3
      <4> QED  BY <1>3, <3>1, <4>4, <4>5 DEF Counters
    <3>2. CASE Counting /\ passed
      <4>1. failed = FailFirst(behavior) /\ failureCount >= FailFirst(behavior)
        BY <3>2 DEF Counters
      <4>2. passed' = TRUE
        BY <2>1, <3>2
      <4>3. f = 0
        BY <2>6, <4>1
      <4>4. failed' = FailFirst(behavior) /\ failureCount' >= FailFirst(behavior)
        BY <1>1, <1>2, <2>1, <2>4, <3>2, <4>1, <4>3
      <4> QED  BY <1>1, <1>3, <3>2, <4>2, <4>4 DEF Counters
    <3>3. CASE Counting /\ ~passed
      <4>1. failed = failureCount /\ failureCount <= FailFirst(behavior)
        BY <3>3 DEF Counters
      <4>2. failureCount' = IF failureCount + n <= FailureCap THEN failureCount + n
                                                              ELSE FailureCap
        BY <2>1, <2>4, <3>3
      <4>3. failed' = failed + f
        BY <2>1
      <4>4. CASE f < n
        <5>1. passed' = TRUE
          BY <2>1, <3>3, <4>4
        <5>2. failed' = FailFirst(behavior) /\ failureCount' >= FailFirst(behavior)
          BY <1>1, <1>2, <2>6, <4>1, <4>2, <4>3, <4>4
        <5> QED  BY <1>1, <1>3, <3>3, <5>1, <5>2 DEF Counters
      <4>5. CASE ~(f < n)
        <5>1. passed' = FALSE
          BY <2>1, <3>3, <4>5
        <5>2. failed' = failureCount' /\ failureCount' <= FailFirst(behavior)
          BY <1>1, <1>2, <2>6, <4>1, <4>2, <4>3, <4>5
        <5>3. failed' \in 0..MaxFailures
          BY <1>1, <1>2, <2>6, <4>1, <4>3, <5>2
        <5> QED  BY <1>1, <1>3, <3>3, <5>1, <5>2, <5>3 DEF Counters
      <4> QED  BY <4>4, <4>5
    <3> QED  BY <3>1, <3>2, <3>3
  <2>8. sleeping' \in [Callers -> Ops \cup {NoOp}]
        /\ status' \in [Callers -> {0, 200, 201, 202, 400, 500}]
    BY <2>1 DEF TypeOK, Reply
  <2>9. passed' \in BOOLEAN
    BY <2>1 DEF TypeOK
  <2>10. requests' \subseteq Submissions /\ covered' \in [Submissions -> Nat]
    BY DEF TypeOK
  <2> QED  BY <2>3, <2>5, <2>7, <2>8, <2>9, <2>10 DEF CallTyped
<1> QED  BY <1>4, <1>5

\* A call leaves the behavior alone, and the balances in their type.
LEMMA CallInv ==
    ASSUME CallTyped, Counters', TypeOK, behavior' = behavior,
           available' \in [DOMAIN Seed -> Nat]
    PROVE  Inv'
BY DEF CallTyped, Inv, TypeOK

\* A started mock has its seed and no behavior's count.
LEMMA InitInv == Init => Inv
<1> SUFFICES ASSUME Init PROVE Inv
  OBVIOUS
<1>1. 0 \in 0..FailureCap /\ 0 \in 0..MaxFailures
  BY FailureAssumption DEF FailureCap
<1>2. Seed \in [DOMAIN Seed -> Nat]
  BY SeedAssumption
<1>3. 0 \in 0..2 /\ 0 \in Nat
  OBVIOUS
<1>4. Counters /\ behavior \in Behaviors /\ passed \in BOOLEAN
  BY DEF Init, Counters, Counting, Behaviors
<1>5. /\ sleeping \in [Callers -> Ops \cup {NoOp}]
      /\ status \in [Callers -> {0, 200, 201, 202, 400, 500}]
      /\ covered \in [Submissions -> Nat]
      /\ requests \subseteq Submissions
  BY DEF Init
<1> QED  BY <1>1, <1>2, <1>3, <1>4, <1>5 DEF Init, Inv, TypeOK

\* Setting or resetting the behavior starts its counters afresh.
LEMMA BehaveInv ==
    ASSUME Inv, NEW b \in Behaviors, Behave(b), UNCHANGED calling,
           requests' \subseteq Submissions, UNCHANGED covered,
           available' \in [DOMAIN Seed -> Nat]
    PROVE  Inv'
<1>1. FailFirst(b) \in 0..MaxFailures
  BY FailFirstBounds
<1>2. 0 \in 0..FailureCap /\ 0 \in 0..MaxFailures
  BY FailureAssumption DEF FailureCap
<1>3. TypeOK'
  <2>1. /\ behavior' \in Behaviors
        /\ failureCount' \in 0..FailureCap /\ driftCounter' \in 0..2
        /\ failed' \in 0..MaxFailures /\ passed' \in BOOLEAN
    <3>1. 0 \in 0..2
      OBVIOUS
    <3> QED  BY <1>2, <3>1, Zenon DEF Behave
  <2>2. /\ sleeping' \in [Callers -> Ops \cup {NoOp}]
        /\ status' \in [Callers -> {0, 200, 201, 202, 400, 500}]
        /\ covered' \in [Submissions -> Nat]
    BY DEF Inv, TypeOK, calling
  <2> QED  BY <2>1, <2>2 DEF TypeOK
<1>4. Counters'
  BY <1>1, <1>2 DEF Behave, Counters
<1> QED  BY <1>3, <1>4 DEF Inv

\* Every step of the mock keeps types and counters.
LEMMA NextInv == Inv /\ [Next]_vars => Inv'
<1> SUFFICES ASSUME Inv, [Next]_vars PROVE Inv'
  OBVIOUS
<1>1. TypeOK /\ Counters /\ available \in [DOMAIN Seed -> Nat]
  BY DEF Inv, TypeOK
<1>2. ASSUME NEW c \in Callers, NEW d \in Dimensions, GetBalance(c, d)
      PROVE  Inv'
  <2>1. [op |-> "get", dim |-> d] \in Ops
    BY DEF Ops
  <2>2. CallTyped /\ Counters'
    BY <1>2, <2>1, ExecuteTyped DEF GetBalance
  <2> QED  BY <1>1, <1>2, <2>2, CallInv DEF GetBalance
<1>3. ASSUME NEW c \in Callers, NEW d \in Dimensions, NEW n \in Numbers, UpdateBalance(c, d, n)
      PROVE  Inv'
  <2>1. CASE /\ d \in DOMAIN available
             /\ available' = [available EXCEPT ![d] = n]
             /\ Execute(c, [op |-> "echo", dim |-> d])
    <3>1. [op |-> "echo", dim |-> d] \in Ops
      BY DEF Ops
    <3>2. CallTyped /\ Counters'
      BY <1>3, <2>1, <3>1, ExecuteTyped DEF UpdateBalance
    <3>3. available' \in [DOMAIN Seed -> Nat]
      BY <1>1, <2>1, NumbersAssumption
    <3> QED  BY <1>1, <1>3, <3>2, <3>3, CallInv DEF UpdateBalance
  <2>2. CASE /\ Reply(c, 400)
             /\ UNCHANGED <<failureCount, driftCounter, available, requests,
                            sleeping, history, covered>>
    BY <1>1, <1>3, <2>2 DEF UpdateBalance, Inv, TypeOK, Counters, Counting, FailFirst,
                            Reply, history
  <2> QED  BY <1>3, <2>1, <2>2 DEF UpdateBalance
<1>4. ASSUME NEW c \in Callers, NEW s \in Submissions, SubmitRequest(c, s)
      PROVE  Inv'
  <2>1. CASE Execute(c, [op |-> "submit", sub |-> s])
    <3>1. [op |-> "submit", sub |-> s] \in Ops
      BY DEF Ops
    <3>2. CallTyped /\ Counters'
      BY <1>4, <2>1, <3>1, ExecuteTyped DEF SubmitRequest
    <3> QED  BY <1>1, <1>4, <3>2, CallInv DEF SubmitRequest
  <2>2. CASE Reply(c, 400) /\ UNCHANGED <<failureCount, driftCounter, requests,
                                          sleeping, history, covered>>
    BY <1>1, <1>4, <2>2 DEF SubmitRequest, Inv, TypeOK, Counters, Counting, FailFirst,
                            Reply, history
  <2> QED  BY <1>4, <2>1, <2>2 DEF SubmitRequest
<1>5. ASSUME NEW c \in Callers, Land(c)
      PROVE  Inv'
  <2> DEFINE o == sleeping[c]
  <2>1. o \in Ops
    BY <1>1, <1>5 DEF TypeOK, Land
  <2>2. CASE o.op = "batch"
    <3>1. o.dims \in Rests /\ o.dims \in Seq(Dimensions) /\ Len(o.dims) > 0
      BY <2>1, <2>2, OpsHave, RestsShrink
    <3>2. Tail(o.dims) \in Seq(Dimensions)
      BY <3>1
    <3>3. Len(Tail(o.dims)) > 0 => Tail(o.dims) \in Rests
      BY <3>1, RestsShrink
    <3>4. Batch(c, Tail(o.dims)) /\ UNCHANGED <<requests, covered>>
          /\ UNCHANGED <<behavior, available>>
      BY <1>5, <2>2 DEF Land
    <3>5. CallTyped /\ Counters'
      BY <3>2, <3>3, <3>4, BatchTyped
    <3> QED  BY <1>1, <3>4, <3>5, CallInv
  <2>3. CASE o.op # "batch"
    <3> DEFINE shown == IF DimOf(o) \in DOMAIN available THEN available[DimOf(o)] ELSE 0
    <3>1. /\ sleeping' = [sleeping EXCEPT ![c] = NoOp]
          /\ Run(c, o, shown)
          /\ UNCHANGED <<failureCount, driftCounter, history>>
          /\ UNCHANGED <<behavior, available>>
      BY <1>5, <2>3 DEF Land
    <3>2. shown \in Nat
      BY <1>1
    <3>3. /\ requests' \subseteq Submissions
          /\ covered' \in [Submissions -> Nat]
          /\ status' \in [Callers -> {0, 200, 201, 202, 400, 500}]
      BY <1>1, <2>1, <2>3, <3>1, <3>2, RunTyped
    <3>4. CallTyped
      BY <1>1, <3>1, <3>3 DEF CallTyped, TypeOK, history
    <3>5. Counters'
      BY <1>1, <3>1 DEF Counters, Counting, FailFirst, history
    <3> QED  BY <1>1, <3>1, <3>4, <3>5, CallInv
  <2> QED  BY <2>2, <2>3
<1>6. ASSUME NEW c \in Callers, NEW b \in Batches, BatchSync(c, b)
      PROVE  Inv'
  <2>1. b \in Seq(Dimensions) /\ (Len(b) > 0 => b \in Rests)
    BY BatchesAssumption, RestsShrink
  <2>2. CallTyped /\ Counters'
    BY <1>6, <2>1, BatchTyped DEF BatchSync
  <2> QED  BY <1>1, <1>6, <2>2, CallInv DEF BatchSync
<1>7. ASSUME NEW b \in Behaviors, SetBehavior(b)
      PROVE  Inv'
  BY <1>1, <1>7, BehaveInv DEF SetBehavior, TypeOK
<1>8. CASE ResetAll
  <2>1. Seed \in [DOMAIN Seed -> Nat] /\ "NORMAL" \in Behaviors
    BY SeedAssumption DEF Behaviors
  <2> QED  BY <1>8, <2>1, BehaveInv DEF ResetAll
<1>9. CASE UNCHANGED vars
  BY <1>1, <1>9 DEF vars, engine, calling, history, Inv, TypeOK, Counters, Counting, FailFirst
<1> QED  BY <1>2, <1>3, <1>4, <1>5, <1>6, <1>7, <1>8, <1>9 DEF Next

\* TypeOK: whatever sleeps, is updated, reset or drifts, the server's state keeps
\* its types, what is left of a sleeping batch included.
THEOREM MockTypeOK == Spec => []TypeOK
<1>1. Inv => TypeOK
  BY DEF Inv
<1> QED  BY <1>1, InitInv, NextInv, PTL DEF Spec

\* FailsFirstN: exactly the first calls since a behavior was set fail, as many as
\* it says, for any numbers of failures, callers and batches.
THEOREM MockFailsFirstN == Spec => []FailsFirstN
<1>1. Inv => FailsFirstN
  <2> SUFFICES ASSUME Inv PROVE FailsFirstN
    OBVIOUS
  <2>1. FailFirst(behavior) \in 0..MaxFailures /\ MaxFailures \in Nat
    BY FailFirstBounds, FailureAssumption
  <2> QED  BY <2>1 DEF Inv, TypeOK, Counters, FailsFirstN
<1> QED  BY <1>1, InitInv, NextInv, PTL DEF Spec

-----------------------------------------------------------------------------
(* Requests on record.                                                       *)

\* A submission is recorded when the balance it was checked on covers it.
LEMMA RunRecords ==
    ASSUME TypeOK, RecordsCovered, NEW c \in Callers, NEW o \in Ops, o.op # "batch",
           NEW shown \in Nat, DimOf(o) \in DOMAIN available => shown <= available[DimOf(o)],
           Run(c, o, shown)
    PROVE  RecordsCovered'
<1>1. CASE UNCHANGED <<requests, covered>>
  BY <1>1 DEF RecordsCovered
<1>2. CASE DimOf(o) \in DOMAIN available /\ o.op = "submit" /\ DaysOf[o.sub] <= shown
  <2>1. o.sub \in Submissions /\ DimOf(o) = DimensionOf[o.sub]
    BY <1>2, OpsHave DEF DimOf
  <2>2. /\ requests' = requests \cup {o.sub}
        /\ covered' = [covered EXCEPT ![o.sub] = available[DimensionOf[o.sub]]]
    BY <1>2, <2>1, SubmissionAssumption DEF Run, Submit
  <2>3. available[DimOf(o)] \in Nat /\ DaysOf[o.sub] \in Nat
    BY <1>2, <2>1, SubmissionAssumption DEF TypeOK
  <2>4. covered'[o.sub] = available[DimOf(o)] /\ DaysOf[o.sub] <= covered'[o.sub]
    BY <1>2, <2>1, <2>2, <2>3 DEF TypeOK
  <2>5. \A s \in requests : s # o.sub => covered'[s] = covered[s]
    BY <2>2 DEF TypeOK
  <2> QED  BY <2>2, <2>4, <2>5 DEF RecordsCovered
<1> QED
  <2>1. shown \in Int /\ (o.op = "submit" => DaysOf[o.sub] \in Int)
    BY OpsHave, SubmissionAssumption
  <2> QED  BY <1>1, <1>2, <2>1 DEF Run, Submit

\* A refused call records nothing.
LEMMA ExecuteRecords ==
    ASSUME TypeOK, RecordsCovered, NEW c \in Callers, NEW o \in Ops, o.op # "batch",
           Execute(c, o)
    PROVE  RecordsCovered'
<1>1. CASE UNCHANGED <<requests, covered>>
  BY <1>1 DEF RecordsCovered
<1>2. CASE Run(c, o, ShownOf(o))
  <2>1. DimOf(o) \in DOMAIN available => ShownOf(o) <= available[DimOf(o)]
    BY ShownAtMost DEF ShownOf, TypeOK
  <2> QED  BY <1>2, <2>1, ShownOfTyped, RunRecords
<1> QED  BY <1>1, <1>2 DEF Execute

\* No other step touches a record's cover.
LEMMA NextRecords == TypeOK /\ RecordsCovered /\ [Next]_vars => RecordsCovered'
<1> SUFFICES ASSUME TypeOK, RecordsCovered, [Next]_vars PROVE RecordsCovered'
  OBVIOUS
<1>1. CASE UNCHANGED <<requests, covered>>
  BY <1>1 DEF RecordsCovered
<1>2. ASSUME NEW c \in Callers, NEW d \in Dimensions, GetBalance(c, d)
      PROVE  RecordsCovered'
  <2>1. [op |-> "get", dim |-> d] \in Ops
    BY DEF Ops
  <2> QED  BY <1>2, <2>1, ExecuteRecords DEF GetBalance
<1>3. ASSUME NEW c \in Callers, NEW d \in Dimensions, NEW n \in Numbers, UpdateBalance(c, d, n)
      PROVE  RecordsCovered'
  <2>1. [op |-> "echo", dim |-> d] \in Ops
    BY DEF Ops
  <2> QED  BY <1>1, <1>3, <2>1, ExecuteRecords DEF UpdateBalance
<1>4. ASSUME NEW c \in Callers, NEW s \in Submissions, SubmitRequest(c, s)
      PROVE  RecordsCovered'
  <2>1. [op |-> "submit", sub |-> s] \in Ops
    BY DEF Ops
  <2> QED  BY <1>1, <1>4, <2>1, ExecuteRecords DEF SubmitRequest
<1>5. ASSUME NEW c \in Callers, Land(c)
      PROVE  RecordsCovered'
  <2> DEFINE o == sleeping[c]
             shown == IF DimOf(o) \in DOMAIN available THEN available[DimOf(o)] ELSE 0
  <2>1. o \in Ops
    BY <1>5 DEF TypeOK, Land
  <2>2. CASE o.op = "batch"
    BY <1>1, <1>5, <2>2 DEF Land
  <2>3. CASE o.op # "batch"
    <3>1. Run(c, o, shown)
      BY <1>5, <2>3 DEF Land
    <3>2. shown \in Nat /\ (DimOf(o) \in DOMAIN available => shown <= available[DimOf(o)])
      BY DEF TypeOK
    <3> HIDE DEF shown
    <3> QED  BY <2>1, <2>3, <3>1, <3>2, RunRecords
  <2> QED  BY <2>2, <2>3
<1>6. ASSUME NEW c \in Callers, NEW b \in Batches, BatchSync(c, b)
      PROVE  RecordsCovered'
  BY <1>1, <1>6 DEF BatchSync
<1>7. ASSUME NEW b \in Behaviors, SetBehavior(b)
      PROVE  RecordsCovered'
  BY <1>1, <1>7 DEF SetBehavior
<1>8. CASE ResetAll
  BY <1>8 DEF ResetAll, RecordsCovered
<1>9. CASE UNCHANGED vars
  BY <1>1, <1>9 DEF vars
<1> QED  BY <1>2, <1>3, <1>4, <1>5, <1>6, <1>7, <1>8, <1>9 DEF Next

\* RecordsCovered: no request on record exceeds the balance held when it was
\* recorded, whatever drift showed of it and however long the call slept.
THEOREM MockRecordsCovered == Spec => []RecordsCovered
<1>1. Init => RecordsCovered
  BY DEF Init, RecordsCovered
<1>2. Inv => TypeOK
  BY DEF Inv
<1> QED  BY <1>1, <1>2, InitInv, NextInv, NextRecords, PTL DEF Spec

-----------------------------------------------------------------------------
(* The clients.  The invariant says what an operation in progress has: the   *)
(* behavior it has seen, and a connection only while the server sleeps on it. *)

Outcomes == {"none", "ok", "null", "permanent", "transient", "up"} \cup Unserved

ClientTyped ==
    /\ op \in [Clients -> {"idle"} \cup Operations]
    /\ dim \in [Clients -> Dimensions \cup {None}]
    /\ attempt \in [Clients -> 0..2]
    /\ conn \in [Clients -> Callers \cup {None}]
    /\ age \in [Clients -> Nat]
    /\ left \in [Callers -> Nat]
    /\ told \in [Clients -> Outcomes]
    /\ since \in [Clients -> Behaviors \cup {"none", "several"}]
    /\ refused \in Nat

\* An operation has a dimension and a candidate left to try.
Attempting ==
    \A p \in Clients :
       IF op[p] = "idle" THEN ~Waiting(p)
       ELSE dim[p] \in Dimensions /\ attempt[p] \in 1..Candidates(op[p])

\* An operation knows whether the behavior changed under it, and waits only for
\* a server it has seen sleep.
OneBehavior ==
    \A p \in Clients :
       /\ op[p] # "idle" => since[p] \in {behavior, "several"}
       /\ Waiting(p) => since[p] \in {"TIMEOUT", "several"}

\* Only reads sleep, and who waits does so for one that sleeps, alone.
Dozing ==
    /\ \A c \in Callers : sleeping[c] # NoOp => sleeping[c].op = "get"
    /\ \A p \in Clients : Waiting(p) => sleeping[conn[p]] # NoOp
    /\ \A p, q \in Clients : Waiting(p) /\ conn[p] = conn[q] => p = q

ClientInv == Inv /\ ClientTyped /\ Attempting /\ OneBehavior /\ Dozing

\* What a call that was answered or given up leaves of its operation: it is over,
\* or hydration goes on with its second candidate.
Advanced(p) ==
    /\ op' \in [Clients -> {"idle"} \cup Operations]
    /\ dim' \in [Clients -> Dimensions \cup {None}]
    /\ attempt' \in [Clients -> 0..2]
    /\ told' \in [Clients -> Outcomes]
    /\ refused' \in Nat
    /\ \A q \in Clients : q # p => /\ op'[q] = op[q] /\ dim'[q] = dim[q]
                                   /\ attempt'[q] = attempt[q] /\ told'[q] = told[q]
    /\ \/ op'[p] = "idle"
       \/ /\ op[p] = "hydrateCapitals" /\ attempt[p] = 1
          /\ op'[p] = "hydrateCapitals" /\ dim'[p] = dim[p] /\ attempt'[p] = 2
          /\ told'[p] = told[p] /\ refused' = refused

\* Only a hydration asks twice, of an ID with capitals.
LEMMA CandidatesCount ==
    ASSUME NEW kind
    PROVE  Candidates(kind) \in 1..2 /\ (Candidates(kind) = 2 => kind = "hydrateCapitals")
BY DEF Candidates

\* A failed call ends its operation, or makes hydration try again.
LEMMA CallFailedAdvances ==
    ASSUME ClientTyped, Attempting, NEW p \in Clients, op[p] # "idle", NEW code,
           CallFailed(p, code)
    PROVE  Advanced(p) /\ (op'[p] = "idle" => told'[p] \in {"null", "permanent", "transient"})
<1>1. attempt[p] \in 1..Candidates(op[p])
  BY DEF Attempting
<1>2. CASE /\ attempt[p] < Candidates(op[p])
           /\ attempt' = [attempt EXCEPT ![p] = @ + 1]
           /\ UNCHANGED <<op, dim, told, refused>>
  <2>1. op[p] = "hydrateCapitals" /\ attempt[p] = 1
    BY <1>1, <1>2, CandidatesCount
  <2>2. attempt' = [attempt EXCEPT ![p] = 2]
    BY <1>2, <2>1
  <2> QED  BY <1>2, <2>1, <2>2 DEF Advanced, ClientTyped
<1>3. CASE /\ attempt[p] >= Candidates(op[p])
           /\ End(p, IF op[p] \in Hydrations THEN "null" ELSE Class(code))
           /\ refused' = IF Counting /\ since[p] = behavior /\ dim[p] \in DOMAIN available
                         THEN refused + (IF op[p] = "hydrateCapitals" THEN 2 ELSE 1) ELSE refused
  <2> DEFINE outcome == IF op[p] \in Hydrations THEN "null" ELSE Class(code)
  <2>1. outcome \in {"null", "permanent", "transient"}
    BY DEF Class
  <2>2. refused' \in Nat
    BY <1>3 DEF ClientTyped
  <2>3. /\ op' = [op EXCEPT ![p] = "idle"] /\ dim' = [dim EXCEPT ![p] = None]
        /\ attempt' = [attempt EXCEPT ![p] = 0] /\ told' = [told EXCEPT ![p] = outcome]
    BY <1>3 DEF End
  <2> HIDE DEF outcome
  <2>4. outcome \in Outcomes
    BY <2>1 DEF Outcomes
  <2> QED  BY <2>1, <2>2, <2>3, <2>4 DEF Advanced, ClientTyped
<1> QED  BY <1>2, <1>3 DEF CallFailed

\* So does an answer; only a 200 tells a balance.
LEMMA AnsweredAdvances ==
    ASSUME ClientTyped, Attempting, NEW p \in Clients, op[p] # "idle", NEW code,
           Answered(p, code)
    PROVE  Advanced(p)
<1>1. CASE code = 200 /\ End(p, "ok") /\ UNCHANGED refused
  <2>1. "ok" \in Outcomes
    BY DEF Outcomes
  <2> QED  BY <1>1, <2>1 DEF End, Advanced, ClientTyped
<1>2. CASE code # 200 /\ CallFailed(p, code)
  BY <1>2, CallFailedAdvances
<1> QED  BY <1>1, <1>2 DEF Answered

\* What getBalance does at the server: it sleeps under TIMEOUT; otherwise it is
\* answered, and a refusal of a known dimension is one of the counted failures.
LEMMA GetBalanceReplies ==
    ASSUME Inv, NEW c \in Callers, NEW d \in Dimensions, GetBalance(c, d)
    PROVE  /\ sleeping[c] = NoOp
           /\ UNCHANGED <<behavior, available>>
           /\ \/ /\ behavior = "TIMEOUT" /\ UNCHANGED failed
                 /\ sleeping' = [sleeping EXCEPT ![c] = [op |-> "get", dim |-> d]]
              \/ /\ behavior # "TIMEOUT" /\ UNCHANGED sleeping
                 /\ failed' = failed \/ failed' = failed + 1
                 /\ Counting /\ d \in DOMAIN available /\ status'[c] # 200
                       => failed' = failed + 1
<1> DEFINE o == [op |-> "get", dim |-> d]
<1>1. Execute(c, o) /\ sleeping[c] = NoOp /\ UNCHANGED <<behavior, available>>
  BY DEF GetBalance, Free
<1>2. Counting => behavior # "TIMEOUT"
  BY DEF Counting
<1>3. Refusing => behavior # "TIMEOUT" /\ ~Counting
  BY DEF Refusing, Counting
<1>4. o.op = "get" /\ DimOf(o) = d
  BY DEF DimOf
<1>5. d \in DOMAIN available /\ Run(c, o, ShownOf(o)) => status'[c] = 200
  BY <1>4 DEF Run, Reply, Inv, TypeOK
<1> HIDE DEF o
<1>6. CASE /\ behavior = "TIMEOUT"
           /\ sleeping' = [sleeping EXCEPT ![c] = o]
           /\ Reply(c, 0)
           /\ UNCHANGED <<failureCount, driftCounter, requests, history, covered>>
  BY <1>1, <1>6 DEF history, o
<1>7. CASE /\ Counting /\ failureCount < FailFirst(behavior)
           /\ failureCount' = failureCount + 1
           /\ failed' = failed + 1
           /\ Reply(c, Refusal(o))
           /\ UNCHANGED <<driftCounter, requests, sleeping, passed, covered>>
  BY <1>1, <1>2, <1>7
<1>8. CASE /\ Counting /\ failureCount >= FailFirst(behavior)
           /\ failureCount' = IF failureCount < FailureCap THEN failureCount + 1
                                                           ELSE failureCount
           /\ passed' = TRUE
           /\ Run(c, o, ShownOf(o))
           /\ UNCHANGED <<driftCounter, sleeping, failed>>
  BY <1>1, <1>2, <1>5, <1>8
<1>9. CASE /\ Refusing
           /\ Reply(c, Refusal(o))
           /\ UNCHANGED <<failureCount, driftCounter, requests, sleeping, history, covered>>
  BY <1>1, <1>3, <1>9 DEF history
<1>10. CASE /\ behavior \in {"NORMAL", "DRIFT"}
            /\ driftCounter' = IF behavior = "DRIFT" /\ DimOf(o) \in DOMAIN available
                               THEN (driftCounter + 1) % 3 ELSE driftCounter
            /\ Run(c, o, ShownOf(o))
            /\ UNCHANGED <<failureCount, sleeping, history>>
  BY <1>1, <1>10 DEF history, Counting
<1> QED  BY <1>1, <1>6, <1>7, <1>8, <1>9, <1>10 DEF Execute

\* A read that wakes leaves the behavior, its counters and the other sleepers
\* alone.
LEMMA LandOfRead ==
    ASSUME Inv, Dozing, NEW c \in Callers, Land(c)
    PROVE  /\ sleeping[c] # NoOp
           /\ sleeping' = [sleeping EXCEPT ![c] = NoOp]
           /\ UNCHANGED <<behavior, available, failed>>
<1>1. sleeping[c].op # "batch"
  BY DEF Dozing, Land
<1> QED  BY <1>1 DEF Land, history

\* Each step of the clients is a step of the server, or none of its business.
LEMMA ClientStepsServer ==
    ASSUME ClientTyped, Attempting, [ClientNext]_<<vars, clientVars>>
    PROVE  [Next]_vars
<1>1. ASSUME NEW p \in Clients, NEW c \in Callers, Send(p, c)
      PROVE  Next
  <2>1. dim[p] \in Dimensions /\ GetBalance(c, dim[p])
    BY <1>1 DEF Send, Attempting, Operations, Hydrations
  <2> QED  BY <2>1 DEF Next
<1>2. ASSUME NEW c \in Callers, Wake(c)
      PROVE  Next
  BY <1>2 DEF Wake, Next
<1>3. ASSUME NEW b \in Behaviors, Switch(b)
      PROVE  Next
  BY <1>3 DEF Switch, Next
<1>4. ASSUME NEW p \in Clients, NEW kind,
             \/ \E d \in Dimensions : Start(p, kind, d)
             \/ GiveUp(p)
             \/ CheckHealth(p)
             \/ CallUnserved(p, kind)
      PROVE  UNCHANGED vars
  BY <1>4 DEF Start, GiveUp, CheckHealth, CallUnserved
<1>5. CASE Tick
  BY <1>5 DEF Tick
<1>6. CASE UNCHANGED <<vars, clientVars>>
  BY <1>6
<1> QED  BY <1>1, <1>2, <1>3, <1>4, <1>5, <1>6 DEF ClientNext, Progress

\* At first no operation waits and no connection is taken.
LEMMA ClientInitInv == ClientInit => ClientInv
<1> SUFFICES ASSUME ClientInit PROVE ClientInv
  OBVIOUS
<1>1. Inv
  BY InitInv DEF ClientInit
<1>2. ClientTyped
  BY DEF ClientInit, ClientTyped, Outcomes
<1>3. Attempting /\ OneBehavior
  BY DEF ClientInit, Attempting, OneBehavior, Waiting
<1>4. Dozing
  BY DEF ClientInit, Init, Dozing, Waiting
<1> QED  BY <1>1, <1>2, <1>3, <1>4 DEF ClientInv

\* Each kind of step keeps the invariant: a call sent,
LEMMA SendInv ==
    ASSUME ClientInv, NEW p \in Clients, NEW c \in Callers, Send(p, c)
    PROVE  ClientTyped' /\ Attempting' /\ OneBehavior' /\ Dozing'
<1> USE DEF ClientInv
<1>1. /\ op[p] # "idle" /\ ~Waiting(p) /\ dim[p] \in Dimensions
      /\ GetBalance(c, dim[p])
      /\ age' = [age EXCEPT ![p] = 0] /\ since' = since
  BY DEF Send, Attempting, Operations, Hydrations
<1>2. sleeping[c] = NoOp /\ behavior' = behavior
  BY <1>1, GetBalanceReplies
<1>3. \A q \in Clients : Waiting(q) => conn[q] \in Callers
  BY DEF ClientTyped, Waiting
<1>4. \A q \in Clients : Waiting(q) => conn[q] # c
  BY <1>2 DEF Dozing
<1>5. sleeping \in [Callers -> Ops \cup {NoOp}]
  BY DEF Inv, TypeOK
<1>6. c # None
  BY NoneAssumption
<1>7. CASE /\ behavior = "TIMEOUT"
           /\ sleeping' = [sleeping EXCEPT ![c] = [op |-> "get", dim |-> dim[p]]]
  <2> DEFINE o == [op |-> "get", dim |-> dim[p]]
  <2>1. o # NoOp /\ o.op = "get"
    BY DEF NoOp
  <2> HIDE DEF o
  <2>2. sleeping' = [sleeping EXCEPT ![c] = o]
    BY <1>7 DEF o
  <2>3. sleeping'[c] = o /\ \A k \in Callers : k # c => sleeping'[k] = sleeping[k]
    BY <1>5, <2>2
  <2>4. /\ conn' = [conn EXCEPT ![p] = c]
        /\ left' = [left EXCEPT ![c] = ServerDelay]
        /\ UNCHANGED <<op, dim, attempt, told, refused>>
    BY <2>1, <2>3 DEF Send
  <2>5. ClientTyped'
    BY <1>1, <2>4, TicksAssumption DEF ClientTyped
  <2>6. conn'[p] = c /\ \A q \in Clients : q # p => conn'[q] = conn[q]
    BY <2>4 DEF ClientTyped
  <2>7. Attempting'
    BY <1>1, <2>4, <2>6 DEF Attempting, Waiting
  <2>8. OneBehavior'
    BY <1>1, <1>2, <1>7, <2>4, <2>6 DEF OneBehavior, Waiting
  <2>9. Dozing'
    BY <1>3, <1>4, <2>1, <2>3, <2>6 DEF Dozing, Waiting
  <2> QED  BY <2>5, <2>7, <2>8, <2>9
<1>8. CASE behavior # "TIMEOUT" /\ UNCHANGED sleeping
  <2>1. Answered(p, status'[c]) /\ UNCHANGED <<conn, left>>
    BY <1>2, <1>8 DEF Send
  <2>2. Advanced(p)
    BY <1>1, <2>1, AnsweredAdvances
  <2>3. ClientTyped'
    BY <1>1, <2>1, <2>2 DEF ClientTyped, Advanced
  <2>4. Attempting'
    BY <1>1, <2>1, <2>2 DEF Attempting, Advanced, Waiting, Candidates
  <2>5. OneBehavior'
    BY <1>1, <1>2, <2>1, <2>2 DEF OneBehavior, Advanced, Waiting
  <2>6. Dozing'
    BY <1>8, <2>1 DEF Dozing, Waiting
  <2> QED  BY <2>3, <2>4, <2>5, <2>6
<1> QED  BY <1>1, <1>7, <1>8, GetBalanceReplies

\* a call given up,
LEMMA GiveUpInv ==
    ASSUME ClientInv, NEW p \in Clients, GiveUp(p)
    PROVE  ClientTyped' /\ Attempting' /\ OneBehavior' /\ Dozing'
<1> USE DEF ClientInv
<1>1. /\ Waiting(p) /\ op[p] # "idle"
      /\ conn' = [conn EXCEPT ![p] = None]
      /\ CallFailed(p, 0)
      /\ UNCHANGED <<sleeping, behavior, age, left, since>>
  BY DEF GiveUp, Expired, Attempting, vars, engine, calling
<1>2. Advanced(p)
  BY <1>1, CallFailedAdvances
<1>3. conn'[p] = None /\ \A q \in Clients : q # p => conn'[q] = conn[q]
  BY <1>1 DEF ClientTyped
<1>4. ClientTyped'
  BY <1>1, <1>2 DEF ClientTyped, Advanced
<1>5. Attempting'
  BY <1>1, <1>2, <1>3 DEF Attempting, Advanced, Waiting, Candidates
<1>6. OneBehavior'
  BY <1>1, <1>2, <1>3 DEF OneBehavior, Advanced, Waiting
<1>7. Dozing'
  BY <1>1, <1>3 DEF Dozing, Waiting
<1> QED  BY <1>4, <1>5, <1>6, <1>7

\* and a sleeper that wakes, for the client that waits on it or for nobody.
LEMMA WakeInv ==
    ASSUME ClientInv, NEW c \in Callers, Wake(c)
    PROVE  ClientTyped' /\ Attempting' /\ OneBehavior' /\ Dozing'
<1> USE DEF ClientInv
<1>1. /\ sleeping[c] # NoOp
      /\ sleeping' = [sleeping EXCEPT ![c] = NoOp]
      /\ UNCHANGED <<behavior, available, failed>>
  BY LandOfRead DEF Wake
<1>2. sleeping'[c] = NoOp /\ \A k \in Callers : k # c => sleeping'[k] = sleeping[k]
  BY <1>1 DEF Inv, TypeOK
<1>3. UNCHANGED <<age, left, since>>
  BY DEF Wake
<1>4. \A q \in Clients : Waiting(q) => conn[q] \in Callers
  BY DEF ClientTyped, Waiting
<1>5. CASE \E q \in Clients : conn[q] = c
  <2> DEFINE p == CHOOSE q \in Clients : conn[q] = c
  <2>1. p \in Clients /\ conn[p] = c
    BY <1>5
  <2>2. Answered(p, status'[c]) /\ conn' = [conn EXCEPT ![p] = None]
    BY <1>5 DEF Wake
  <2> HIDE DEF p
  <2>3. Waiting(p) /\ op[p] # "idle"
    BY <2>1, NoneAssumption DEF Waiting, Attempting
  <2>4. Advanced(p)
    BY <2>1, <2>2, <2>3, AnsweredAdvances
  <2>5. conn'[p] = None /\ \A q \in Clients : q # p => conn'[q] = conn[q]
    BY <2>1, <2>2 DEF ClientTyped
  <2>6. ClientTyped'
    BY <1>3, <2>1, <2>2, <2>4 DEF ClientTyped, Advanced
  <2>7. Attempting'
    BY <2>1, <2>4, <2>5 DEF Attempting, Advanced, Waiting, Candidates
  <2>8. OneBehavior'
    BY <1>1, <1>3, <2>1, <2>4, <2>5 DEF OneBehavior, Advanced, Waiting
  <2>9. \A q \in Clients : q # p /\ Waiting(q) => conn[q] \in Callers /\ conn[q] # c
    BY <1>4, <2>1 DEF Dozing
  <2>10. Dozing'
    BY <1>2, <2>1, <2>5, <2>9 DEF Dozing, Waiting
  <2> QED  BY <2>6, <2>7, <2>8, <2>10
<1>6. CASE ~ \E q \in Clients : conn[q] = c
  <2>1. UNCHANGED <<op, dim, attempt, told, refused, conn>>
    BY <1>6 DEF Wake
  <2>2. ClientTyped' /\ Attempting' /\ OneBehavior'
    BY <1>1, <1>3, <2>1 DEF ClientTyped, Attempting, OneBehavior, Waiting
  <2>3. Dozing'
    BY <1>2, <1>4, <1>6, <2>1 DEF Dozing, Waiting
  <2> QED  BY <2>2, <2>3
<1> QED  BY <1>5, <1>6

\* Steps that move neither an operation nor a sleeper.
LEMMA NobodyMoves ==
    ASSUME Attempting, OneBehavior, Dozing,
           UNCHANGED <<behavior, sleeping, op, dim, attempt, conn, since>>
    PROVE  Attempting' /\ OneBehavior' /\ Dozing'
<1>1. /\ behavior' = behavior /\ sleeping' = sleeping /\ op' = op /\ dim' = dim
      /\ attempt' = attempt /\ conn' = conn /\ since' = since
  OBVIOUS
<1>2. Attempting'
  BY <1>1 DEF Attempting, Waiting
<1>3. OneBehavior'
  BY <1>1 DEF OneBehavior, Waiting
<1>4. Dozing'
  BY <1>1, Zenon DEF Dozing, Waiting
<1> QED  BY <1>2, <1>3, <1>4

\* The clients' invariant is inductive.
LEMMA ClientNextInv == ClientInv /\ [ClientNext]_<<vars, clientVars>> => ClientInv'
<1> SUFFICES ASSUME ClientInv, [ClientNext]_<<vars, clientVars>> PROVE ClientInv'
  OBVIOUS
<1> USE DEF ClientInv
<1>1. Inv'
  BY ClientStepsServer, NextInv
<1>2. ASSUME NEW p \in Clients, NEW c \in Callers, Send(p, c)
      PROVE  ClientTyped' /\ Attempting' /\ OneBehavior' /\ Dozing'
  BY <1>2, SendInv
<1>3. ASSUME NEW p \in Clients, GiveUp(p)
      PROVE  ClientTyped' /\ Attempting' /\ OneBehavior' /\ Dozing'
  BY <1>3, GiveUpInv
<1>4. ASSUME NEW c \in Callers, Wake(c)
      PROVE  ClientTyped' /\ Attempting' /\ OneBehavior' /\ Dozing'
  BY <1>4, WakeInv
<1>5. ASSUME NEW p \in Clients, NEW kind \in Operations, NEW d \in Dimensions,
             Start(p, kind, d)
      PROVE  ClientTyped' /\ Attempting' /\ OneBehavior' /\ Dozing'
  <2>1. behavior \in Behaviors /\ behavior' = behavior /\ sleeping' = sleeping
    BY <1>5 DEF Start, Inv, TypeOK, vars, engine, calling
  <2>2. /\ op[p] = "idle" /\ conn' = conn
        /\ op'[p] = kind /\ dim'[p] = d /\ attempt'[p] = 1 /\ since'[p] = behavior
        /\ \A q \in Clients : q # p => /\ op'[q] = op[q] /\ dim'[q] = dim[q]
                                       /\ attempt'[q] = attempt[q] /\ since'[q] = since[q]
    BY <1>5 DEF Start, ClientTyped
  <2>3. "none" \in Outcomes
    BY DEF Outcomes
  <2>4. ClientTyped'
    BY <1>5, <2>1, <2>3 DEF Start, ClientTyped
  <2>5. ~Waiting(p)
    BY <2>2 DEF Attempting
  <2>6. Attempting'
    BY <2>2, <2>5, CandidatesCount DEF Attempting, Waiting, Candidates
  <2>7. OneBehavior'
    BY <2>1, <2>2, <2>5 DEF OneBehavior, Waiting
  <2>8. Dozing'
    BY <2>1, <2>2 DEF Dozing, Waiting
  <2> QED  BY <2>4, <2>6, <2>7, <2>8
<1>6. ASSUME NEW p \in Clients, CheckHealth(p)
      PROVE  ClientTyped' /\ Attempting' /\ OneBehavior' /\ Dozing'
  <2>1. UNCHANGED <<behavior, sleeping>> /\ "up" \in Outcomes
    BY <1>6 DEF CheckHealth, vars, engine, calling, Outcomes
  <2>2. told' = [told EXCEPT ![p] = "up"]
        /\ UNCHANGED <<op, dim, attempt, conn, age, left, since, refused>>
    BY <1>6 DEF CheckHealth
  <2>3. ClientTyped'
    BY <2>1, <2>2 DEF ClientTyped
  <2>4. UNCHANGED <<behavior, sleeping, op, dim, attempt, conn, since>>
    BY <2>1, <2>2
  <2> QED  BY <2>3, <2>4, NobodyMoves
<1>7. ASSUME NEW p \in Clients, NEW kind \in Unserved, CallUnserved(p, kind)
      PROVE  ClientTyped' /\ Attempting' /\ OneBehavior' /\ Dozing'
  <2>1. UNCHANGED <<behavior, sleeping>> /\ kind \in Outcomes /\ behavior \in Behaviors
    BY <1>7 DEF CallUnserved, vars, engine, calling, Outcomes, Inv, TypeOK
  <2>2. /\ op[p] = "idle"
        /\ told' = [told EXCEPT ![p] = kind] /\ since' = [since EXCEPT ![p] = behavior]
        /\ UNCHANGED <<op, dim, attempt, conn, age, left, refused>>
    BY <1>7 DEF CallUnserved
  <2>3. ~Waiting(p)
    BY <2>2 DEF Attempting
  <2>4. ClientTyped'
    BY <2>1, <2>2 DEF ClientTyped
  <2>5. OneBehavior'
    BY <2>1, <2>2, <2>3 DEF OneBehavior, Waiting, ClientTyped
  <2>6. Attempting' /\ Dozing'
    BY <2>1, <2>2 DEF Attempting, Dozing, Waiting
  <2> QED  BY <2>4, <2>5, <2>6
<1>8. CASE Tick
  <2>1. UNCHANGED <<behavior, sleeping>>
        /\ UNCHANGED <<op, dim, attempt, conn, told, since, refused>>
    BY <1>8 DEF Tick, vars, engine, calling
  <2>2. age' \in [Clients -> Nat]
    BY <1>8 DEF Tick, ClientTyped
  <2>3. \A c \in Callers : (IF Free(c) THEN 0 ELSE left[c] - 1) \in Nat
    BY <1>8 DEF Tick, ClientTyped
  <2>4. left' \in [Callers -> Nat]
    BY <1>8, <2>3 DEF Tick
  <2>5. ClientTyped'
    BY <2>1, <2>2, <2>4 DEF ClientTyped
  <2>6. UNCHANGED <<behavior, sleeping, op, dim, attempt, conn, since>>
    BY <2>1
  <2> QED  BY <1>1, <2>5, <2>6, NobodyMoves
<1>9. ASSUME NEW b \in Behaviors, Switch(b)
      PROVE  ClientTyped' /\ Attempting' /\ OneBehavior' /\ Dozing'
  <2>1. /\ UNCHANGED sleeping
        /\ since' = [p \in Clients |-> IF op[p] # "idle" THEN "several" ELSE since[p]]
        /\ refused' = 0
        /\ UNCHANGED <<op, dim, attempt, conn, age, left, told>>
    BY <1>9 DEF Switch, SetBehavior, calling
  <2>2. ClientTyped'
    BY <2>1 DEF ClientTyped
  <2>3. Attempting' /\ Dozing'
    BY <2>1 DEF Attempting, Dozing, Waiting
  <2>4. OneBehavior'
    BY <2>1 DEF OneBehavior, Attempting, Waiting
  <2> QED  BY <2>2, <2>3, <2>4
<1>10. CASE UNCHANGED <<vars, clientVars>>
  <2>1. UNCHANGED <<behavior, sleeping>>
        /\ UNCHANGED <<op, dim, attempt, conn, age, left, told, since, refused>>
    BY <1>10 DEF clientVars, vars, engine, calling
  <2>2. ClientTyped'
    BY <2>1 DEF ClientTyped
  <2>3. UNCHANGED <<behavior, sleeping, op, dim, attempt, conn, since>>
    BY <2>1
  <2> QED  BY <1>1, <2>2, <2>3, NobodyMoves
<1>11. ClientTyped' /\ Attempting' /\ OneBehavior' /\ Dozing'
  BY <1>2, <1>3, <1>4, <1>5, <1>6, <1>7, <1>8, <1>9, <1>10 DEF ClientNext, Progress
<1> QED  BY <1>1, <1>11

-----------------------------------------------------------------------------
(* Failures are paid for.                                                    *)

\* Hydrations that used up one failure of the behavior and may yet use another.
Pending == {p \in Clients : /\ op[p] = "hydrateCapitals" /\ attempt[p] = 2
                            /\ Counting /\ since[p] = behavior
                            /\ dim[p] \in DOMAIN available}

\* The failures refused operations used up, and those pending ones hold, are
\* failures the server has played.
Paid == refused + Cardinality(Pending) <= failed

\* A call that failed while the server counted one more failure, or that the
\* behavior did not refuse.
LEMMA CallFailedPaid ==
    ASSUME IsFiniteSet(Clients), ClientInv, Paid, NEW p \in Clients, op[p] # "idle", NEW code,
           CallFailed(p, code), UNCHANGED <<behavior, available, since>>,
           failed' \in Nat, failed' >= failed,
           Counting /\ since[p] = behavior /\ dim[p] \in DOMAIN available
              => failed' = failed + 1
    PROVE  Paid'
<1> USE DEF ClientInv
<1>1. /\ IsFiniteSet(Pending) /\ Cardinality(Pending) \in Nat
      /\ refused \in Nat /\ failed \in Nat
  <2>1. IsFiniteSet(Pending)
    BY FS_Subset DEF Pending
  <2> QED  BY <2>1, FS_CardinalityType DEF ClientTyped, Inv, TypeOK
<1>2. Counting' <=> Counting
  BY DEF Counting
<1>3. Advanced(p)
  BY CallFailedAdvances
<1>4. \A q \in Clients : q # p => (q \in Pending' <=> q \in Pending)
  BY <1>2, <1>3 DEF Advanced, Pending
<1>5. Pending \subseteq Clients /\ Pending' \subseteq Clients
  BY DEF Pending
<1>6. attempt[p] \in 1..Candidates(op[p])
  BY DEF Attempting
<1>7. CASE /\ attempt[p] < Candidates(op[p])
           /\ attempt' = [attempt EXCEPT ![p] = @ + 1]
           /\ UNCHANGED <<op, dim, told, refused>>
  <2>1. attempt[p] = 1
    BY <1>6, <1>7, CandidatesCount
  <2>2. p \notin Pending
    BY <2>1 DEF Pending
  <2>3. CASE p \in Pending'
    <3>1. Pending' = Pending \cup {p}
      BY <1>4, <1>5, <2>3
    <3>2. Cardinality(Pending') = Cardinality(Pending) + 1
      BY <1>1, <2>2, <3>1, FS_AddElement
    <3>3. failed' = failed + 1
      BY <1>2, <1>7, <2>3 DEF Pending
    <3> QED  BY <1>1, <1>7, <3>2, <3>3 DEF Paid
  <2>4. CASE p \notin Pending'
    <3>1. Pending' = Pending
      BY <1>4, <1>5, <2>2, <2>4
    <3> QED  BY <1>1, <1>7, <3>1 DEF Paid
  <2> QED  BY <2>3, <2>4
<1>8. CASE /\ attempt[p] >= Candidates(op[p])
           /\ End(p, IF op[p] \in Hydrations THEN "null" ELSE Class(code))
           /\ refused' = IF Counting /\ since[p] = behavior /\ dim[p] \in DOMAIN available
                         THEN refused + (IF op[p] = "hydrateCapitals" THEN 2 ELSE 1) ELSE refused
  <2>1. op'[p] = "idle"
    BY <1>8 DEF End, ClientTyped
  <2>2. p \notin Pending'
    BY <2>1 DEF Pending
  <2>3. Pending' = Pending \ {p}
    BY <1>4, <1>5, <2>2
  <2>4. CASE p \in Pending
    <3>1. Cardinality(Pending') = Cardinality(Pending) - 1
      BY <1>1, <2>3, <2>4, FS_RemoveElement
    <3>2. refused' = refused + 2 /\ failed' = failed + 1
      BY <1>8, <2>4 DEF Pending
    <3> QED  BY <1>1, <3>1, <3>2 DEF Paid
  <2>5. CASE p \notin Pending
    <3>1. Pending' = Pending
      BY <2>3, <2>5
    <3>2. CASE Counting /\ since[p] = behavior /\ dim[p] \in DOMAIN available
      <4>1. op[p] # "hydrateCapitals"
        BY <1>6, <1>8, <2>5, <3>2 DEF Pending, Candidates
      <4>2. refused' = refused + 1 /\ failed' = failed + 1
        BY <1>8, <3>2, <4>1
      <4> QED  BY <1>1, <3>1, <4>2 DEF Paid
    <3>3. CASE ~(Counting /\ since[p] = behavior /\ dim[p] \in DOMAIN available)
      <4>1. refused' = refused
        BY <1>8, <3>3
      <4> QED  BY <1>1, <3>1, <4>1 DEF Paid
    <3> QED  BY <3>2, <3>3
  <2> QED  BY <2>4, <2>5
<1> QED  BY <1>7, <1>8 DEF CallFailed

\* A call that was answered: a balance costs nothing.
LEMMA AnsweredPaid ==
    ASSUME IsFiniteSet(Clients), ClientInv, Paid, NEW p \in Clients, op[p] # "idle", NEW code,
           Answered(p, code), UNCHANGED <<behavior, available, since>>,
           failed' \in Nat, failed' >= failed,
           Counting /\ since[p] = behavior /\ dim[p] \in DOMAIN available /\ code # 200
              => failed' = failed + 1
    PROVE  Paid'
<1> USE DEF ClientInv
<1>1. CASE code # 200 /\ CallFailed(p, code)
  BY <1>1, CallFailedPaid
<1>2. CASE code = 200 /\ End(p, "ok") /\ UNCHANGED refused
  <2>1. /\ IsFiniteSet(Pending) /\ Cardinality(Pending) \in Nat
        /\ refused \in Nat /\ failed \in Nat
    <3>1. IsFiniteSet(Pending)
      BY FS_Subset DEF Pending
    <3> QED  BY <3>1, FS_CardinalityType DEF ClientTyped, Inv, TypeOK
  <2>2. Advanced(p)
    BY AnsweredAdvances
  <2>3. op'[p] = "idle"
    BY <1>2 DEF End, ClientTyped
  <2>4. Counting' <=> Counting
    BY DEF Counting
  <2>5. Pending' \subseteq Pending
    BY <2>2, <2>3, <2>4 DEF Advanced, Pending
  <2>6. Cardinality(Pending') <= Cardinality(Pending) /\ Cardinality(Pending') \in Nat
    BY <2>1, <2>5, FS_Subset, FS_CardinalityType
  <2> QED  BY <1>2, <2>1, <2>6 DEF Paid
<1> QED  BY <1>1, <1>2 DEF Answered

\* Steps of which no operation's attempts, and no counter, know.
LEMMA NothingPaid ==
    ASSUME Paid, UNCHANGED <<behavior, available, failed, op, dim, attempt, since, refused>>
    PROVE  Paid'
<1>1. Pending' = Pending
  BY DEF Pending, Counting
<1> QED  BY <1>1 DEF Paid

\* The account is kept by every step.
LEMMA ClientNextPaid ==
    ASSUME IsFiniteSet(Clients)
    PROVE  ClientInv /\ Paid /\ [ClientNext]_<<vars, clientVars>> => Paid'
<1> SUFFICES ASSUME ClientInv, Paid, [ClientNext]_<<vars, clientVars>> PROVE Paid'
  OBVIOUS
<1> USE DEF ClientInv
<1>1. failed \in Nat /\ refused \in Nat /\ failed' \in Nat
  <2>1. ClientInv'
    BY ClientNextInv
  <2> QED  BY <2>1 DEF Inv, TypeOK, ClientTyped
<1>2. ASSUME NEW p \in Clients, NEW c \in Callers, Send(p, c)
      PROVE  Paid'
  <2>1. /\ op[p] # "idle" /\ dim[p] \in Dimensions
        /\ GetBalance(c, dim[p]) /\ since' = since
    BY <1>2 DEF Send, Attempting, Operations, Hydrations
  <2>2. UNCHANGED <<behavior, available>>
    BY <2>1, GetBalanceReplies
  <2>3. CASE /\ behavior = "TIMEOUT" /\ UNCHANGED failed
             /\ sleeping' = [sleeping EXCEPT ![c] = [op |-> "get", dim |-> dim[p]]]
    <3> DEFINE o == [op |-> "get", dim |-> dim[p]]
    <3>1. o # NoOp
      BY DEF NoOp
    <3> HIDE DEF o
    <3>2. sleeping'[c] # NoOp
      <4>1. sleeping' = [sleeping EXCEPT ![c] = o]
        BY <2>3 DEF o
      <4> QED  BY <3>1, <4>1 DEF Inv, TypeOK
    <3>3. UNCHANGED <<op, dim, attempt, told, refused>>
      BY <1>2, <3>2 DEF Send
    <3>4. UNCHANGED <<behavior, available, failed, op, dim, attempt, since, refused>>
      BY <2>1, <2>2, <2>3, <3>3
    <3> QED  BY <3>4, NothingPaid
  <2>4. CASE /\ behavior # "TIMEOUT" /\ UNCHANGED sleeping
             /\ failed' = failed \/ failed' = failed + 1
             /\ Counting /\ dim[p] \in DOMAIN available /\ status'[c] # 200
                   => failed' = failed + 1
    <3>1. Answered(p, status'[c])
      BY <1>2, <2>1, <2>4, GetBalanceReplies DEF Send
    <3>2. failed' >= failed
      BY <1>1, <2>4
    <3> QED  BY <1>1, <2>1, <2>2, <2>4, <3>1, <3>2, AnsweredPaid
  <2> QED  BY <2>1, <2>3, <2>4, GetBalanceReplies
<1>3. ASSUME NEW p \in Clients, GiveUp(p)
      PROVE  Paid'
  <2>1. /\ Waiting(p) /\ op[p] # "idle" /\ CallFailed(p, 0)
        /\ UNCHANGED <<behavior, available, failed, since>>
    BY <1>3 DEF GiveUp, Expired, Attempting, vars, engine, history
  <2>2. ~(Counting /\ since[p] = behavior)
    BY <2>1 DEF OneBehavior, Counting
  <2>3. failed' >= failed
    BY <1>1, <2>1
  <2> QED  BY <1>1, <2>1, <2>2, <2>3, CallFailedPaid
<1>4. ASSUME NEW c \in Callers, Wake(c)
      PROVE  Paid'
  <2>1. UNCHANGED <<behavior, available, failed>> /\ UNCHANGED since
    BY <1>4, LandOfRead DEF Wake
  <2>2. CASE \E q \in Clients : conn[q] = c
    <3> DEFINE p == CHOOSE q \in Clients : conn[q] = c
    <3>1. p \in Clients /\ conn[p] = c
      BY <2>2
    <3>2. Answered(p, status'[c])
      BY <1>4, <2>2 DEF Wake
    <3> HIDE DEF p
    <3>3. Waiting(p) /\ op[p] # "idle"
      BY <3>1, NoneAssumption DEF Waiting, Attempting
    <3>4. ~(Counting /\ since[p] = behavior)
      BY <3>1, <3>3 DEF OneBehavior, Counting
    <3>5. failed' >= failed
      BY <1>1, <2>1
    <3> QED  BY <1>1, <2>1, <3>1, <3>2, <3>3, <3>4, <3>5, AnsweredPaid
  <2>3. CASE ~ \E q \in Clients : conn[q] = c
    <3>1. UNCHANGED <<op, dim, attempt, told, refused, conn>>
      BY <1>4, <2>3 DEF Wake
    <3>2. UNCHANGED <<behavior, available, failed, op, dim, attempt, since, refused>>
      BY <2>1, <3>1
    <3> QED  BY <3>2, NothingPaid
  <2> QED  BY <2>2, <2>3
<1>5. ASSUME NEW p \in Clients, NEW kind \in Operations, NEW d \in Dimensions,
             Start(p, kind, d)
      PROVE  Paid'
  <2>1. UNCHANGED <<behavior, available, failed, refused>> /\ op[p] = "idle"
    BY <1>5 DEF Start, vars, engine, history
  <2>2. /\ attempt'[p] = 1
        /\ \A q \in Clients : q # p => /\ op'[q] = op[q] /\ dim'[q] = dim[q]
                                       /\ attempt'[q] = attempt[q] /\ since'[q] = since[q]
    BY <1>5 DEF Start, ClientTyped
  <2>3. Counting' <=> Counting
    BY <2>1 DEF Counting
  <2>4. Pending' = Pending
    BY <2>1, <2>2, <2>3 DEF Pending
  <2> QED  BY <2>1, <2>4 DEF Paid
<1>6. ASSUME NEW p \in Clients, NEW kind \in Unserved, CallUnserved(p, kind)
      PROVE  Paid'
  <2>1. /\ UNCHANGED <<behavior, available, failed, refused, op, dim, attempt>>
        /\ op[p] = "idle"
    BY <1>6 DEF CallUnserved, vars, engine, history
  <2>2. \A q \in Clients : q # p => since'[q] = since[q]
    BY <1>6 DEF CallUnserved, ClientTyped
  <2>3. Counting' <=> Counting
    BY <2>1 DEF Counting
  <2>4. Pending' = Pending
    BY <2>1, <2>2, <2>3 DEF Pending
  <2> QED  BY <2>1, <2>4 DEF Paid
<1>7. ASSUME NEW p \in Clients, CheckHealth(p)
      PROVE  Paid'
  <2>1. UNCHANGED <<behavior, available, failed, op, dim, attempt, since, refused>>
    BY <1>7 DEF CheckHealth, vars, engine, history
  <2> QED  BY <2>1, NothingPaid
<1>8. CASE Tick
  <2>1. UNCHANGED <<behavior, available, failed, op, dim, attempt, since, refused>>
    BY <1>8 DEF Tick, vars, engine, history
  <2> QED  BY <2>1, NothingPaid
<1>9. ASSUME NEW b \in Behaviors, Switch(b)
      PROVE  Paid'
  <2>1. /\ failed' = 0 /\ refused' = 0 /\ op' = op
        /\ since' = [p \in Clients |-> IF op[p] # "idle" THEN "several" ELSE since[p]]
        /\ behavior' = b
    BY <1>9 DEF Switch, SetBehavior, Behave
  <2>2. b # "several"
    BY DEF Behaviors
  <2>3. Pending' = {}
    BY <2>1, <2>2 DEF Pending
  <2>4. Cardinality(Pending') = 0
    BY <2>3, FS_EmptySet
  <2> QED  BY <2>1, <2>4 DEF Paid
<1>10. CASE UNCHANGED <<vars, clientVars>>
  <2>1. UNCHANGED <<behavior, available, failed, op, dim, attempt, since, refused>>
    BY <1>10 DEF clientVars, vars, engine, history
  <2> QED  BY <2>1, NothingPaid
<1> QED  BY <1>2, <1>3, <1>4, <1>5, <1>6, <1>7, <1>8, <1>9, <1>10 DEF ClientNext, Progress

\* FailuresPaid: however many operations compete for a counting behavior's
\* failures, those it refused have used up one per spelling they had to try,
\* for any clients, connections, patience and numbers of failures: one for a
\* getBalance or a lower-case hydration, two where the ID has capitals.
THEOREM ClientFailuresPaid ==
    ASSUME IsFiniteSet(Clients)
    PROVE  ClientSpec => []FailuresPaid
<1>1. ClientInit => Paid
  <2> SUFFICES ASSUME ClientInit PROVE Paid
    OBVIOUS
  <2>1. Pending = {}
    BY DEF ClientInit, Pending
  <2>2. Cardinality(Pending) = 0
    BY <2>1, FS_EmptySet
  <2> QED  BY <2>2 DEF Paid, ClientInit, Init
<1>2. ClientInv /\ Paid => FailuresPaid
  <2> SUFFICES ASSUME ClientInv, Paid PROVE FailuresPaid
    OBVIOUS
  <2>1. FailFirst(behavior) \in Nat /\ failed \in Nat /\ refused \in Nat /\ failed <= FailFirst(behavior)
    <3>1. FailFirst(behavior) \in 0..MaxFailures /\ MaxFailures \in Nat
      BY FailFirstBounds, FailureAssumption
    <3> QED  BY <3>1 DEF ClientInv, Inv, TypeOK, Counters, ClientTyped
  <2>2. Cardinality(Pending) \in Nat
    <3>1. IsFiniteSet(Pending)
      BY FS_Subset DEF Pending
    <3> QED  BY <3>1, FS_CardinalityType
  <2> QED  BY <2>1, <2>2 DEF Paid, FailuresPaid
<1>3. ClientInv /\ Paid /\ [ClientNext]_<<vars, clientVars>> => Paid'
  BY ClientNextPaid
<1> QED  BY <1>1, <1>2, <1>3, ClientInitInv, ClientNextInv, PTL DEF ClientSpec

-----------------------------------------------------------------------------
(* Whoever waits gives up before the server wakes.                           *)

\* The wait so far and the sleep still to come make up the server's sleep.
Patience ==
    \A p \in Clients :
       Waiting(p) => age[p] <= HcmTimeout /\ age[p] + left[conn[p]] = ServerDelay

\* Nobody who waits is still there when the server wakes.
LEMMA WakeFindsNobody ==
    ASSUME HcmTimeout < ServerDelay, ClientInv, Patience, NEW c \in Callers, Wake(c)
    PROVE  ~ \E p \in Clients : conn[p] = c
<1> SUFFICES ASSUME NEW p \in Clients, conn[p] = c PROVE FALSE
  OBVIOUS
<1>1. Waiting(p)
  BY NoneAssumption DEF Waiting
<1>2. age[p] <= HcmTimeout /\ age[p] + left[c] = ServerDelay /\ left[c] = 0
  BY <1>1 DEF Patience, Wake
<1>3. age[p] \in Nat /\ HcmTimeout \in Nat /\ ServerDelay \in Nat
  BY TicksAssumption DEF ClientInv, ClientTyped
<1> QED  BY <1>2, <1>3

\* Patience is kept by every step.
LEMMA ClientNextPatience ==
    ASSUME HcmTimeout < ServerDelay
    PROVE  ClientInv /\ Patience /\ [ClientNext]_<<vars, clientVars>> => Patience'
<1> SUFFICES ASSUME ClientInv, Patience, [ClientNext]_<<vars, clientVars>> PROVE Patience'
  OBVIOUS
<1> USE DEF ClientInv
<1>1. CASE UNCHANGED <<conn, age, left>>
  BY <1>1 DEF Patience, Waiting
<1>2. ASSUME NEW p \in Clients, NEW c \in Callers, Send(p, c)
      PROVE  Patience'
  <2>1. /\ op[p] # "idle" /\ ~Waiting(p) /\ dim[p] \in Dimensions
        /\ GetBalance(c, dim[p]) /\ age' = [age EXCEPT ![p] = 0]
    BY <1>2 DEF Send, Attempting, Operations, Hydrations
  <2>2. sleeping[c] = NoOp
    BY <2>1, GetBalanceReplies
  <2>3. \A q \in Clients : Waiting(q) => conn[q] \in Callers /\ conn[q] # c
    BY <2>2 DEF Dozing, ClientTyped, Waiting
  <2>4. age'[p] = 0 /\ \A q \in Clients : q # p => age'[q] = age[q]
    BY <2>1 DEF ClientTyped
  <2>5. CASE UNCHANGED <<conn, left>>
    BY <2>1, <2>4, <2>5 DEF Patience, Waiting
  <2>6. CASE /\ conn' = [conn EXCEPT ![p] = c]
             /\ left' = [left EXCEPT ![c] = ServerDelay]
    <3>1. conn'[p] = c /\ \A q \in Clients : q # p => conn'[q] = conn[q]
      BY <2>6 DEF ClientTyped
    <3>2. left'[c] = ServerDelay /\ \A k \in Callers : k # c => left'[k] = left[k]
      BY <2>6 DEF ClientTyped
    <3>3. 0 <= HcmTimeout /\ 0 + ServerDelay = ServerDelay
      BY TicksAssumption
    <3> QED  BY <2>3, <2>4, <3>1, <3>2, <3>3 DEF Patience, Waiting
  <2> QED  BY <1>2, <2>5, <2>6 DEF Send
<1>3. ASSUME NEW p \in Clients, GiveUp(p)
      PROVE  Patience'
  <2>1. conn' = [conn EXCEPT ![p] = None] /\ UNCHANGED <<age, left>>
    BY <1>3 DEF GiveUp
  <2>2. conn'[p] = None /\ \A q \in Clients : q # p => conn'[q] = conn[q]
    BY <2>1 DEF ClientTyped
  <2> QED  BY <2>1, <2>2 DEF Patience, Waiting
<1>4. ASSUME NEW c \in Callers, Wake(c)
      PROVE  Patience'
  <2>1. UNCHANGED <<conn, age, left>>
    BY <1>4, WakeFindsNobody DEF Wake
  <2> QED  BY <1>1, <2>1
<1>5. CASE Tick
  <2>1. /\ \A p \in Clients : ~Expired(p)
        /\ age' = [p \in Clients |-> IF Waiting(p) THEN age[p] + 1 ELSE 0]
        /\ left' = [c \in Callers |-> IF Free(c) THEN 0 ELSE left[c] - 1]
        /\ conn' = conn
    BY <1>5 DEF Tick
  <2> SUFFICES ASSUME NEW p \in Clients, Waiting(p)
               PROVE  age'[p] <= HcmTimeout /\ age'[p] + left'[conn[p]] = ServerDelay
    BY <2>1 DEF Patience, Waiting
  <2>2. conn[p] \in Callers /\ ~Free(conn[p])
    BY DEF ClientTyped, Waiting, Dozing, Free
  <2>3. age'[p] = age[p] + 1 /\ left'[conn[p]] = left[conn[p]] - 1
    BY <2>1, <2>2
  <2>4. age[p] <= HcmTimeout /\ age[p] # HcmTimeout /\ age[p] + left[conn[p]] = ServerDelay
    BY <2>1 DEF Patience, Expired
  <2>5. /\ age[p] \in Nat /\ left[conn[p]] \in Nat
        /\ HcmTimeout \in Nat /\ ServerDelay \in Nat
    BY <2>2, TicksAssumption DEF ClientTyped
  <2> QED  BY <2>3, <2>4, <2>5
<1>6. ASSUME NEW p \in Clients, NEW kind,
             \/ \E d \in Dimensions : Start(p, kind, d)
             \/ CheckHealth(p)
             \/ CallUnserved(p, kind)
      PROVE  Patience'
  <2>1. UNCHANGED <<conn, age, left>>
    BY <1>6 DEF Start, CheckHealth, CallUnserved
  <2> QED  BY <1>1, <2>1
<1>7. ASSUME NEW b \in Behaviors, Switch(b)
      PROVE  Patience'
  BY <1>1, <1>7 DEF Switch
<1>8. CASE UNCHANGED <<vars, clientVars>>
  BY <1>1, <1>8 DEF clientVars
<1> QED  BY <1>2, <1>3, <1>4, <1>5, <1>6, <1>7, <1>8 DEF ClientNext, Progress

\* No step tells a balance to an operation that has seen nothing but TIMEOUT.
LEMMA ClientNextUnanswered ==
    ASSUME HcmTimeout < ServerDelay
    PROVE  ClientInv /\ Patience /\ TimeoutsNeverAnswered
              /\ [ClientNext]_<<vars, clientVars>> => TimeoutsNeverAnswered'
<1> SUFFICES ASSUME ClientInv, Patience, TimeoutsNeverAnswered,
                    [ClientNext]_<<vars, clientVars>>
             PROVE  TimeoutsNeverAnswered'
  OBVIOUS
<1> USE DEF ClientInv
<1>1. CASE UNCHANGED <<op, told, since>>
  BY <1>1 DEF TimeoutsNeverAnswered
<1>2. ASSUME NEW p \in Clients, NEW c \in Callers, Send(p, c)
      PROVE  TimeoutsNeverAnswered'
  <2>1. /\ op[p] # "idle" /\ dim[p] \in Dimensions
        /\ GetBalance(c, dim[p]) /\ since' = since
    BY <1>2 DEF Send, Attempting, Operations, Hydrations
  <2>2. CASE /\ behavior = "TIMEOUT"
             /\ sleeping' = [sleeping EXCEPT ![c] = [op |-> "get", dim |-> dim[p]]]
    <3> DEFINE o == [op |-> "get", dim |-> dim[p]]
    <3>1. o # NoOp
      BY DEF NoOp
    <3> HIDE DEF o
    <3>2. sleeping'[c] # NoOp
      <4>1. sleeping' = [sleeping EXCEPT ![c] = o]
        BY <2>2 DEF o
      <4> QED  BY <3>1, <4>1 DEF Inv, TypeOK
    <3>3. UNCHANGED <<op, told>>
      BY <1>2, <3>2 DEF Send
    <3> QED  BY <1>1, <2>1, <3>3
  <2>3. CASE behavior # "TIMEOUT" /\ UNCHANGED sleeping
    <3>1. Answered(p, status'[c])
      BY <1>2, <2>1, <2>3, GetBalanceReplies DEF Send
    <3>2. Advanced(p)
      BY <2>1, <3>1, AnsweredAdvances
    <3>3. since[p] # "TIMEOUT"
      BY <2>1, <2>3 DEF OneBehavior
    <3> QED  BY <2>1, <3>2, <3>3 DEF Advanced, TimeoutsNeverAnswered
  <2> QED  BY <2>1, <2>2, <2>3, GetBalanceReplies
<1>3. ASSUME NEW p \in Clients, GiveUp(p)
      PROVE  TimeoutsNeverAnswered'
  <2>1. Waiting(p) /\ op[p] # "idle" /\ CallFailed(p, 0) /\ since' = since
    BY <1>3 DEF GiveUp, Expired, Attempting
  <2>2. Advanced(p) /\ (op'[p] = "idle" => told'[p] \in {"null", "permanent", "transient"})
    BY <2>1, CallFailedAdvances
  <2> QED  BY <2>1, <2>2 DEF Advanced, TimeoutsNeverAnswered
<1>4. ASSUME NEW c \in Callers, Wake(c)
      PROVE  TimeoutsNeverAnswered'
  <2>1. UNCHANGED <<op, told, since>>
    BY <1>4, WakeFindsNobody DEF Wake
  <2> QED  BY <1>1, <2>1
<1>5. CASE Tick
  BY <1>1, <1>5 DEF Tick
<1>6. ASSUME NEW p \in Clients, NEW kind \in Operations, NEW d \in Dimensions,
             Start(p, kind, d)
      PROVE  TimeoutsNeverAnswered'
  <2>1. /\ op'[p] # "idle"
        /\ \A q \in Clients : q # p => /\ op'[q] = op[q] /\ told'[q] = told[q]
                                       /\ since'[q] = since[q]
    BY <1>6 DEF Start, ClientTyped, Operations, Hydrations
  <2> QED  BY <2>1 DEF TimeoutsNeverAnswered
<1>7. ASSUME NEW p \in Clients, NEW kind \in Unserved, CallUnserved(p, kind)
      PROVE  TimeoutsNeverAnswered'
  <2>1. kind # "ok"
    BY DEF Unserved
  <2>2. /\ told'[p] # "ok" /\ op' = op
        /\ \A q \in Clients : q # p => told'[q] = told[q] /\ since'[q] = since[q]
    BY <1>7, <2>1 DEF CallUnserved, ClientTyped
  <2> QED  BY <2>2 DEF TimeoutsNeverAnswered
<1>8. ASSUME NEW p \in Clients, CheckHealth(p)
      PROVE  TimeoutsNeverAnswered'
  <2>1. /\ told'[p] # "ok" /\ op' = op /\ since' = since
        /\ \A q \in Clients : q # p => told'[q] = told[q]
    BY <1>8 DEF CheckHealth, ClientTyped
  <2> QED  BY <2>1 DEF TimeoutsNeverAnswered
<1>9. ASSUME NEW b \in Behaviors, Switch(b)
      PROVE  TimeoutsNeverAnswered'
  <2>1. /\ UNCHANGED <<op, told>>
        /\ since' = [p \in Clients |-> IF op[p] # "idle" THEN "several" ELSE since[p]]
    BY <1>9 DEF Switch
  <2> QED  BY <2>1 DEF TimeoutsNeverAnswered
<1>10. CASE UNCHANGED <<vars, clientVars>>
  BY <1>1, <1>10 DEF clientVars
<1> QED  BY <1>2, <1>3, <1>4, <1>5, <1>6, <1>7, <1>8, <1>9, <1>10 DEF ClientNext, Progress

\* TimeoutsNeverAnswered: with HCM_TIMEOUT below the server's sleep, as by
\* default, an operation that lived under TIMEOUT is never told a balance,
\* whatever other calls, clients and behaviors surround it.
THEOREM ClientTimeoutsNeverAnswered ==
    ASSUME HcmTimeout < ServerDelay
    PROVE  ClientSpec => []TimeoutsNeverAnswered
<1>1. ClientInit => Patience /\ TimeoutsNeverAnswered
  BY DEF ClientInit, Patience, TimeoutsNeverAnswered, Waiting
<1>2. ClientInv /\ Patience /\ [ClientNext]_<<vars, clientVars>> => Patience'
  BY ClientNextPatience
<1>3. ClientInv /\ Patience /\ TimeoutsNeverAnswered
         /\ [ClientNext]_<<vars, clientVars>> => TimeoutsNeverAnswered'
  BY ClientNextUnanswered
<1> QED  BY <1>1, <1>2, <1>3, ClientInitInv, ClientNextInv, PTL DEF ClientSpec

=============================================================================
