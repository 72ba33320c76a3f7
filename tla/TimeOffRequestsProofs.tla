-------------------------- MODULE TimeOffRequestsProofs --------------------------
(***************************************************************************)
(* Theorems about TimeOffRequests for any requests, slots, leave types,     *)
(* balances and bounds.                                                    *)
(***************************************************************************)
EXTENDS TimeOffRequests, TLAPS

-----------------------------------------------------------------------------
(* Type correctness.                                                         *)

\* A handler that is about to cache, judge or write a balance holds one.
HoldsRow ==
    \A p \in Slots :
        pc[p] \in {"fill", "refreshSave", "refreshFill", "deductSave", "refundSave"}
            => row[p] \in Rows

TypeInv == TypeOK /\ HoldsRow

\* Calls of the three shapes and what they name.
LEMMA CallShape ==
    /\ NoCall.kind = "none"
    /\ \A c \in GetCalls : c.kind = "get" /\ c.leave \in LeaveTypes
    /\ \A c \in RequestCalls :
          /\ c.kind \in DecisionKinds \cup {"create"}
          /\ c.req \in Requests
          /\ c.leave = LeaveOf[c.req]
          /\ c.leave \in LeaveTypes
BY LeaveOfAssumption DEF NoCall, GetCalls, RequestCalls, DecisionKinds

\* The kinds of call that have a given step.
LEMMA StepKinds ==
    ASSUME NEW k
    PROVE  /\ "idle" \in StepsOf(k) =>
                k \notin {"get", "create", "approve", "reject", "cancel"}
           /\ "dimRead" \in StepsOf(k) => k = "create"
           /\ "createSave" \in StepsOf(k) => k = "create"
           /\ \A s \in {"lookup", "balRead", "fill", "hcm", "insert"} :
                s \in StepsOf(k) => k \in {"get", "create"}
           /\ \A s \in ApproveSteps : s \in StepsOf(k) => k = "approve"
           /\ \A s \in CancelSteps : s \in StepsOf(k) => k = "cancel"
           /\ \A s \in {"readReq", "saveReq"} :
                s \in StepsOf(k) => k \in DecisionKinds
           /\ "audit" \in StepsOf(k) => k \in DecisionKinds \cup {"create"}
BY DEF StepsOf, FetchSteps, HydrateSteps, CreateSteps, ApproveSteps, CancelSteps,
       DecisionKinds

\* A busy handler serves a call; one past a get's steps serves a request's.
LEMMA Busy ==
    ASSUME TypeOK, NEW p \in Slots, pc[p] # "idle"
    PROVE  /\ call[p] \in GetCalls \cup RequestCalls
           /\ Leave(p) \in LeaveTypes
           /\ call[p].kind # "get" =>
                /\ call[p] \in RequestCalls
                /\ Req(p) \in Requests
                /\ Days(p) \in Nat \ {0}
                /\ Leave(p) = LeaveOf[Req(p)]
<1>1. call[p] # NoCall
  BY DEF TypeOK, NoCall, StepsOf
<1>2. call[p] \in GetCalls \cup RequestCalls
  BY <1>1 DEF TypeOK
<1>3. call[p].kind # "get" => call[p] \in RequestCalls
  BY <1>2, CallShape
<1>4. QED
  BY <1>2, <1>3, CallShape, DaysOfAssumption DEF Leave, Req, Days

\* The type invariant, split into the handlers' registers and the rest.
RegsOK ==
    /\ pc \in [Slots -> StepNames]
    /\ call \in [Slots -> GetCalls \cup RequestCalls \cup {NoCall}]
    /\ \A q \in Slots : pc[q] \in StepsOf(call[q].kind)
    /\ seen \in [Slots -> Nat]
    /\ row \in [Slots -> Rows \cup {NoRow}]
    /\ attempt \in [Slots -> 0..MaxRetries]
    /\ reply \in [Slots -> Replies]
    /\ HoldsRow

TabsOK ==
    /\ reqs \in [Requests -> [status : Statuses, version : Nat]]
    /\ balance \in [LeaveTypes -> Rows \cup {NoRow}]
    /\ audit \subseteq Requests \X Statuses
    /\ cache \in [LeaveTypes -> Rows \cup {NoRow}]
    /\ calls \in 0..MaxCalls
    /\ faults \in 0..MaxFaults
    /\ taken \in [Requests -> Nat]
    /\ refunded \in [Requests -> Nat]
    /\ debited \in [LeaveTypes -> Nat]
    /\ credited \in [LeaveTypes -> Nat]

\* The invariant in two halves, the handlers and the shared state.
LEMMA TypeSplit == TypeInv <=> RegsOK /\ TabsOK
BY DEF TypeInv, TypeOK, RegsOK, TabsOK

\* The same for the next state.
LEMMA TypeSplitNext == TypeInv' <=> RegsOK' /\ TabsOK'
BY DEF TypeInv, TypeOK, RegsOK, TabsOK, HoldsRow

\* What Finish does to the handler's registers.
LEMMA FinishType ==
    ASSUME TypeInv, NEW p \in Slots, NEW a \in Replies, Finish(p, a)
    PROVE  RegsOK'
<1> USE DEF TypeInv, TypeOK, Finish
<1>1. pc' \in [Slots -> StepNames]
  BY DEF StepNames
<1>2. \A q \in Slots : pc'[q] \in StepsOf(call'[q].kind)
  BY CallShape DEF StepsOf
<1>3. HoldsRow'
  BY DEF HoldsRow
<1>4. QED
  BY <1>1, <1>2, <1>3, BoundsAssumption DEF RegsOK

\* What a jump does to the handler's registers when the call is kept.
LEMMA GotoType ==
    ASSUME TypeInv, NEW p \in Slots, NEW s \in StepsOf(call[p].kind),
           s \in StepNames, Goto(p, s), UNCHANGED <<call, seen, attempt, reply>>,
           row' \in [Slots -> Rows \cup {NoRow}],
           \A q \in Slots : q # p => row'[q] = row[q],
           s \in {"fill", "refreshSave", "refreshFill", "deductSave", "refundSave"}
              => row'[p] \in Rows
    PROVE  RegsOK'
BY DEF TypeInv, TypeOK, Goto, HoldsRow, RegsOK

\* The same for a jump that keeps the entity held, to a step that needs none.
LEMMA GotoSame ==
    ASSUME TypeInv, NEW p \in Slots, NEW s \in StepsOf(call[p].kind),
           s \in StepNames, Goto(p, s), UNCHANGED regs,
           s \notin {"fill", "refreshSave", "refreshFill", "deductSave", "refundSave"}
    PROVE  RegsOK'
BY GotoType DEF TypeInv, TypeOK, regs

\* A call arrives.
LEMMA BeginType ==
    ASSUME TypeInv, NEW p \in Slots, NEW c \in GetCalls \cup RequestCalls,
           NEW s \in StepsOf(c.kind), s \in {"lookup", "dimRead", "readReq"},
           Begin(p, c, s)
    PROVE  TypeInv'
<1> USE DEF TypeInv, TypeOK, Begin, Goto
<1>1. RegsOK'
  BY BoundsAssumption
     DEF RegsOK, HoldsRow, StepNames, CreateSteps, FetchSteps, Replies, history
<1>2. TabsOK'
  BY BoundsAssumption DEF TabsOK, tables, history
<1>3. QED
  BY <1>1, <1>2, TypeSplitNext

\* Arriving calls keep the types.
LEMMA StartType ==
    ASSUME TypeInv, NEW p \in Slots, Start(p) PROVE TypeInv'
<1>1. CASE StartGet(p)
  <2>1. PICK c \in GetCalls : Begin(p, c, "lookup")
    BY <1>1 DEF StartGet
  <2>2. "lookup" \in StepsOf(c.kind)
    BY CallShape DEF StepsOf, FetchSteps
  <2>3. QED
    BY <2>1, <2>2, BeginType
<1>2. CASE StartCreate(p)
  <2>1. PICK c \in RequestCalls : c.kind = "create" /\ Begin(p, c, "dimRead")
    BY <1>2 DEF StartCreate
  <2>2. "dimRead" \in StepsOf(c.kind)
    BY <2>1 DEF StepsOf, CreateSteps
  <2>3. QED
    BY <2>1, <2>2, BeginType
<1>3. CASE StartDecision(p)
  <2>1. PICK c \in RequestCalls : c.kind \in DecisionKinds /\ Begin(p, c, "readReq")
    BY <1>3 DEF StartDecision
  <2>2. "readReq" \in StepsOf(c.kind)
    BY <2>1 DEF StepsOf, DecisionKinds
  <2>3. QED
    BY <2>1, <2>2, BeginType
<1>4. QED
  BY <1>1, <1>2, <1>3 DEF Start

\* FindRow, the read inside refreshBalance, updateUsedBalance, refundBalance.
LEMMA FindRowType ==
    ASSUME TypeInv, NEW p \in Slots, pc[p] # "idle",
           NEW s \in StepsOf(call[p].kind), s \in StepNames, FindRow(p, s)
    PROVE  RegsOK'
<1>1. CASE balance[Leave(p)] = NoRow
  BY <1>1, FinishType DEF FindRow, Replies
<1>2. CASE balance[Leave(p)] # NoRow
  <2>1. Leave(p) \in LeaveTypes
    BY Busy DEF TypeInv
  <2>2. balance[Leave(p)] \in Rows
    BY <1>2, <2>1 DEF TypeInv, TypeOK
  <2>3. /\ row' \in [Slots -> Rows \cup {NoRow}]
        /\ row'[p] \in Rows
        /\ \A q \in Slots : q # p => row'[q] = row[q]
    BY <1>2, <2>2 DEF FindRow, TypeInv, TypeOK
  <2>4. QED
    BY <1>2, <2>3, GotoType DEF FindRow
<1>3. QED
  BY <1>1, <1>2

\* UseBalance, what follows getBalance.
LEMMA UseBalanceType ==
    ASSUME TypeInv, NEW p \in Slots, NEW b, call[p].kind \in {"get", "create"},
           UseBalance(p, b)
    PROVE  RegsOK'
<1>1. CASE \E a \in {"ok", "insufficient"} : Finish(p, a)
  BY <1>1, FinishType DEF Replies
<1>2. CASE call[p].kind = "create" /\ Goto(p, "createSave") /\ UNCHANGED regs
  <2>1. "createSave" \in StepsOf(call[p].kind) /\ "createSave" \in StepNames
    BY <1>2 DEF StepsOf, CreateSteps, StepNames
  <2>2. QED
    BY <1>2, <2>1, GotoSame
<1>3. QED
  BY <1>1, <1>2 DEF UseBalance

\* A failed hydration answers its call.
LEMMA HydrationFailedType ==
    ASSUME TypeInv, NEW p \in Slots, HydrationFailed(p) PROVE RegsOK'
BY FinishType DEF HydrationFailed, Replies

\* The tables when a handler's step leaves them alone.
LEMMA SameTables ==
    ASSUME TypeInv, UNCHANGED <<tables, cache, budget, history>> PROVE TabsOK'
BY DEF TypeInv, TypeOK, TabsOK, tables, budget, history

\* validateDimensions, getBalance and the hydration.
LEMMA FetchType ==
    ASSUME TypeInv, NEW p \in Slots,
           DimRead(p) \/ HcmAnswer(p) \/ Insert(p) \/ Lookup(p) \/ BalRead(p) \/ Fill(p)
    PROVE  TypeInv'
<1> USE DEF TypeInv
<1>k. pc[p] \in StepsOf(call[p].kind)
  BY DEF TypeOK
<1>g. Leave(p) \in LeaveTypes /\ balance[Leave(p)] \in Rows \cup {NoRow}
  <2>1. pc[p] # "idle"
    BY DEF DimRead, HcmAnswer, Insert, Lookup, BalRead, Fill
  <2>2. QED
    BY <2>1, Busy DEF TypeOK
<1>h. Hydrated(Leave(p)) \in Rows
  BY <1>g, HcmAssumption DEF Hydrated, Rows
<1>1. CASE DimRead(p)
  <2>1. call[p].kind = "create"
    BY <1>1, <1>k, StepKinds DEF DimRead
  <2>2. \A s \in {"hcm", "lookup"} : s \in StepsOf(call[p].kind) /\ s \in StepNames
    BY <2>1 DEF StepsOf, StepNames, CreateSteps, HydrateSteps, FetchSteps
  <2>3. QED
    BY <1>1, <2>2, GotoSame, SameTables, TypeSplitNext DEF DimRead
<1>2. CASE HcmAnswer(p)
  <2>1. call[p].kind \in {"get", "create"}
    BY <1>2, <1>k, StepKinds DEF HcmAnswer
  <2>2. "insert" \in StepsOf(call[p].kind) /\ "insert" \in StepNames
    BY <2>1 DEF StepsOf, StepNames, CreateSteps, HydrateSteps
  <2>3. QED
    BY <1>2, <2>2, GotoSame, SameTables, TypeSplitNext DEF HcmAnswer
<1>3. CASE Insert(p)
  <2>1. call[p].kind \in {"get", "create"}
    BY <1>3, <1>k, StepKinds DEF Insert
  <2>2. TabsOK'
    BY <1>3, <1>g, <1>h DEF Insert, TypeOK, TabsOK, budget, history
  <2>3. CASE HydrationFailed(p)
    BY <2>2, <2>3, HydrationFailedType, TypeSplitNext
  <2>4. CASE /\ row' = [row EXCEPT ![p] = Hydrated(Leave(p))]
             /\ Goto(p, IF call[p].kind = "create" THEN "lookup" ELSE "fill")
             /\ UNCHANGED <<call, seen, attempt, reply>>
    <3>1. /\ row' \in [Slots -> Rows \cup {NoRow}]
          /\ row'[p] \in Rows
          /\ \A q \in Slots : q # p => row'[q] = row[q]
      BY <2>4, <1>h DEF TypeOK
    <3>2. \A s \in {"fill", "lookup"} : s \in StepsOf(call[p].kind) /\ s \in StepNames
      BY <2>1 DEF StepsOf, StepNames, CreateSteps, FetchSteps
    <3>3. QED
      BY <2>2, <2>4, <3>1, <3>2, GotoType, TypeSplitNext
  <2>5. QED
    BY <1>3, <2>3, <2>4 DEF Insert
<1>4. CASE Lookup(p)
  <2>1. call[p].kind \in {"get", "create"}
    BY <1>4, <1>k, StepKinds DEF Lookup
  <2>2. CASE UseBalance(p, cache[Leave(p)])
    BY <1>4, <2>1, <2>2, UseBalanceType, SameTables, TypeSplitNext DEF Lookup
  <2>3. CASE Goto(p, "balRead") /\ UNCHANGED regs
    <3>1. "balRead" \in StepsOf(call[p].kind) /\ "balRead" \in StepNames
      BY <2>1 DEF StepsOf, StepNames, CreateSteps, FetchSteps
    <3>2. QED
      BY <1>4, <2>3, <3>1, GotoSame, SameTables, TypeSplitNext DEF Lookup
  <2>4. QED
    BY <1>4, <2>2, <2>3 DEF Lookup
<1>5. CASE BalRead(p)
  <2>1. call[p].kind \in {"get", "create"}
    BY <1>5, <1>k, StepKinds DEF BalRead
  <2>2. /\ row' \in [Slots -> Rows \cup {NoRow}]
        /\ balance[Leave(p)] # NoRow => row'[p] \in Rows
        /\ \A q \in Slots : q # p => row'[q] = row[q]
    BY <1>5, <1>g DEF BalRead, TypeOK
  <2>3. \A s \in {"fill", "hcm"} : s \in StepsOf(call[p].kind) /\ s \in StepNames
    BY <2>1 DEF StepsOf, StepNames, CreateSteps, FetchSteps, HydrateSteps
  <2>4. RegsOK'
    BY <1>5, <2>2, <2>3, GotoType DEF BalRead
  <2>5. QED
    BY <1>5, <2>4, SameTables, TypeSplitNext DEF BalRead
<1>6. CASE Fill(p)
  <2>1. call[p].kind \in {"get", "create"}
    BY <1>6, <1>k, StepKinds DEF Fill
  <2>2. TabsOK'
    BY <1>6 DEF Fill, TypeOK, TabsOK, tables, budget, history
  <2>3. QED
    BY <1>6, <2>1, <2>2, UseBalanceType, TypeSplitNext DEF Fill
<1>7. QED
  BY <1>1, <1>2, <1>3, <1>4, <1>5, <1>6

\* createRequest's save and the audit record.
LEMMA RecordType ==
    ASSUME TypeInv, NEW p \in Slots, CreateSave(p) \/ AuditLog(p) \/ SaveReq(p)
    PROVE  TypeInv'
<1>k. pc[p] \in StepsOf(call[p].kind)
  BY DEF TypeInv, TypeOK
<1>r. call[p].kind \in DecisionKinds \cup {"create"}
  BY <1>k, StepKinds DEF CreateSave, AuditLog, SaveReq
<1>q. Req(p) \in Requests
  BY <1>r, Busy DEF CreateSave, AuditLog, SaveReq, TypeInv, DecisionKinds
<1>a. "audit" \in StepsOf(call[p].kind) /\ "audit" \in StepNames
  BY <1>r DEF StepsOf, StepNames, DecisionKinds
<1>t. Target(call[p].kind) \in Statuses
  BY DEF Target, Statuses
<1>1. CASE CreateSave(p)
  <2>1. reqs' \in [Requests -> [status : Statuses, version : Nat]]
    BY <1>1, <1>q DEF CreateSave, TypeInv, TypeOK, Statuses
  <2>2. TabsOK'
    BY <1>1, <2>1 DEF CreateSave, TypeInv, TypeOK, TabsOK, budget, history
  <2>3. QED
    BY <1>1, <1>a, <2>2, GotoSame, TypeSplitNext DEF CreateSave
<1>2. CASE AuditLog(p)
  <2>1. audit' \subseteq Requests \X Statuses
    BY <1>2, <1>q, <1>t DEF AuditLog, TypeInv, TypeOK
  <2>2. TabsOK'
    BY <1>2, <2>1 DEF AuditLog, TypeInv, TypeOK, TabsOK, budget, history
  <2>3. QED
    BY <1>2, <2>2, FinishType, TypeSplitNext DEF AuditLog, Replies
<1>3. CASE SaveReq(p)
  <2>1. reqs' \in [Requests -> [status : Statuses, version : Nat]]
    <3>1. reqs[Req(p)].version + 1 \in Nat
      BY <1>q DEF TypeInv, TypeOK
    <3>2. QED
      BY <1>3, <1>q, <1>t, <3>1 DEF SaveReq, TypeInv, TypeOK
  <2>2. TabsOK'
    BY <1>3, <2>1 DEF SaveReq, TypeInv, TypeOK, TabsOK, budget, history
  <2>3. CASE Goto(p, "audit") /\ UNCHANGED regs
    BY <1>a, <2>2, <2>3, GotoSame, TypeSplitNext
  <2>4. CASE RetryOrGiveUp(p)
    <3>1. CASE call[p].kind = "approve" /\ attempt[p] < MaxRetries
      <4>1. "readReq" \in StepsOf(call[p].kind) /\ "readReq" \in StepNames
        BY <3>1 DEF StepsOf, StepNames
      <4>2. attempt' \in [Slots -> 0..MaxRetries]
        BY <2>4, <3>1, BoundsAssumption DEF RetryOrGiveUp, TypeInv, TypeOK
      <4>3. RegsOK'
        BY <2>4, <3>1, <4>1, <4>2
           DEF RetryOrGiveUp, Goto, TypeInv, TypeOK, RegsOK, HoldsRow
      <4>4. QED
        BY <2>2, <4>3, TypeSplitNext
    <3>2. CASE ~(call[p].kind = "approve" /\ attempt[p] < MaxRetries)
      BY <2>2, <2>4, <3>2, FinishType, TypeSplitNext DEF RetryOrGiveUp, Replies
    <3>3. QED
      BY <3>1, <3>2
  <2>5. QED
    BY <1>3, <2>3, <2>4 DEF SaveReq
<1>4. QED
  BY <1>1, <1>2, <1>3

\* The first read of approve, reject and cancel.
LEMMA ReadReqType ==
    ASSUME TypeInv, NEW p \in Slots, ReadReq(p) PROVE TypeInv'
<1>1. call[p].kind \in DecisionKinds
  BY StepKinds DEF ReadReq, TypeInv, TypeOK
<1>2. Req(p) \in Requests
  BY <1>1, Busy DEF ReadReq, TypeInv, DecisionKinds
<1>3. TabsOK'
  BY SameTables DEF ReadReq
<1>4. CASE \E a \in {"notFound", "invalidState"} : Finish(p, a)
  BY <1>3, <1>4, FinishType, TypeSplitNext DEF Replies
<1>5. CASE ~\E a \in {"notFound", "invalidState"} : Finish(p, a)
  <2>1. /\ AfterRead(call[p].kind) \in StepsOf(call[p].kind)
        /\ AfterRead(call[p].kind) \in {"refreshRead", "refundRead", "saveReq"}
        /\ AfterRead(call[p].kind) \in StepNames
    BY <1>1 DEF AfterRead, StepsOf, DecisionKinds, ApproveSteps, CancelSteps, StepNames
  <2>2. reqs[Req(p)].version \in Nat
    BY <1>2 DEF TypeInv, TypeOK
  <2>3. RegsOK'
    BY <1>5, <2>1, <2>2 DEF ReadReq, Goto, TypeInv, TypeOK, RegsOK, HoldsRow
  <2>4. QED
    BY <1>3, <2>3, TypeSplitNext
<1>6. QED
  BY <1>4, <1>5

\* refreshBalance and updateUsedBalance.
LEMMA ApproveType ==
    ASSUME TypeInv, NEW p \in Slots,
           \/ RefreshRead(p) \/ RefreshSave(p) \/ RefreshFill(p)
           \/ DeductRead(p) \/ DeductSave(p) \/ DeductInvalidate(p)
    PROVE  TypeInv'
<1> DEFINE steps == {"refreshRead", "refreshSave", "refreshFill",
                     "deductRead", "deductSave", "deductInvalidate"}
<1>s. pc[p] \in ApproveSteps /\ pc[p] # "idle"
  BY DEF RefreshRead, RefreshSave, RefreshFill, DeductRead, DeductSave,
         DeductInvalidate, Invalidate, ApproveSteps
<1>k. call[p].kind = "approve"
  BY <1>s, StepKinds DEF TypeInv, TypeOK
<1>q. /\ Req(p) \in Requests
      /\ Days(p) \in Nat
      /\ Leave(p) \in LeaveTypes
  BY <1>s, <1>k, Busy DEF TypeInv
<1>n. \A s \in steps \cup {"saveReq"} : s \in StepsOf(call[p].kind) /\ s \in StepNames
  BY <1>k DEF StepsOf, StepNames, ApproveSteps
<1>1. CASE RefreshRead(p)
  BY <1>1, <1>s, <1>n, FindRowType, SameTables, TypeSplitNext DEF RefreshRead
<1>2. CASE RefreshSave(p)
  <2>1. row[p] \in Rows
    BY <1>2 DEF RefreshSave, TypeInv, HoldsRow
  <2>2. TabsOK'
    BY <1>2, <2>1 DEF RefreshSave, TypeInv, TypeOK, TabsOK, budget, history
  <2>3. RegsOK'
    <3>1. UNCHANGED regs /\ Goto(p, "refreshFill")
      BY <1>2 DEF RefreshSave
    <3>2. row' \in [Slots -> Rows \cup {NoRow}] /\ row' = row
      BY <3>1 DEF regs, TypeInv, TypeOK
    <3>3. "refreshFill" \in StepsOf(call[p].kind) /\ "refreshFill" \in StepNames
      BY <1>n
    <3>4. QED
      BY <2>1, <3>1, <3>2, <3>3, GotoType DEF regs
  <2>4. QED
    BY <2>2, <2>3, TypeSplitNext
<1>3. CASE RefreshFill(p)
  <2>1. row[p] \in Rows
    BY <1>3 DEF RefreshFill, TypeInv, HoldsRow
  <2>2. TabsOK'
    BY <1>3, <2>1 DEF RefreshFill, TypeInv, TypeOK, TabsOK, tables, budget, history
  <2>3. RegsOK'
    BY <1>3, <1>n, FinishType, GotoSame DEF RefreshFill, Replies
  <2>4. QED
    BY <2>2, <2>3, TypeSplitNext
<1>4. CASE DeductRead(p)
  BY <1>4, <1>s, <1>n, FindRowType, SameTables, TypeSplitNext DEF DeductRead
<1>5. CASE DeductSave(p)
  <2>1. row[p] \in Rows
    BY <1>5 DEF DeductSave, TypeInv, HoldsRow
  <2>2. row[p].available >= Days(p) => Deducted(row[p], Days(p)) \in Rows
    BY <1>q, <2>1 DEF Deducted, Rows
  <2>t. /\ taken' \in [Requests -> Nat]
        /\ debited' \in [LeaveTypes -> Nat]
        /\ UNCHANGED <<refunded, credited>>
    BY <1>5, <1>q DEF DeductSave, Debit, history, TypeInv, TypeOK
  <2>b. balance' \in [LeaveTypes -> Rows \cup {NoRow}]
    BY <1>5, <1>q, <2>2 DEF DeductSave, TypeInv, TypeOK
  <2>3. TabsOK'
    BY <1>5, <2>t, <2>b DEF DeductSave, TypeInv, TypeOK, TabsOK, budget
  <2>4. RegsOK'
    BY <1>5, <1>n, FinishType, GotoSame DEF DeductSave, Replies
  <2>5. QED
    BY <2>3, <2>4, TypeSplitNext
<1>6. CASE DeductInvalidate(p)
  <2>1. TabsOK'
    BY <1>6 DEF DeductInvalidate, Invalidate, TypeInv, TypeOK, TabsOK, tables,
                budget, history
  <2>2. RegsOK'
    BY <1>6, <1>n, GotoSame DEF DeductInvalidate, Invalidate
  <2>3. QED
    BY <2>1, <2>2, TypeSplitNext
<1>7. QED
  BY <1>1, <1>2, <1>3, <1>4, <1>5, <1>6

\* refundBalance.
LEMMA CancelType ==
    ASSUME TypeInv, NEW p \in Slots,
           RefundRead(p) \/ RefundSave(p) \/ RefundInvalidate(p)
    PROVE  TypeInv'
<1>s. pc[p] \in CancelSteps /\ pc[p] # "idle"
  BY DEF RefundRead, RefundSave, RefundInvalidate, Invalidate, CancelSteps
<1>k. call[p].kind = "cancel"
  BY <1>s, StepKinds DEF TypeInv, TypeOK
<1>q. /\ Req(p) \in Requests
      /\ Days(p) \in Nat
      /\ Leave(p) \in LeaveTypes
  BY <1>s, <1>k, Busy DEF TypeInv
<1>n. \A s \in {"refundSave", "refundInvalidate", "saveReq"} :
          s \in StepsOf(call[p].kind) /\ s \in StepNames
  BY <1>k DEF StepsOf, StepNames, CancelSteps
<1>1. CASE RefundRead(p)
  BY <1>1, <1>s, <1>n, FindRowType, SameTables, TypeSplitNext DEF RefundRead
<1>2. CASE RefundSave(p)
  <2>1. row[p] \in Rows
    BY <1>2 DEF RefundSave, TypeInv, HoldsRow
  <2>2. Refunded(row[p], Days(p)) \in Rows
    BY <1>q, <2>1 DEF Refunded, Rows
  <2>t. /\ refunded' \in [Requests -> Nat]
        /\ credited' \in [LeaveTypes -> Nat]
        /\ UNCHANGED <<taken, debited>>
    BY <1>2, <1>q DEF RefundSave, Credit, TypeInv, TypeOK
  <2>3. TabsOK'
    BY <1>2, <1>q, <2>2, <2>t DEF RefundSave, TypeInv, TypeOK, TabsOK, budget
  <2>4. RegsOK'
    BY <1>2, <1>n, GotoSame DEF RefundSave
  <2>5. QED
    BY <2>3, <2>4, TypeSplitNext
<1>3. CASE RefundInvalidate(p)
  <2>1. TabsOK'
    BY <1>3 DEF RefundInvalidate, Invalidate, TypeInv, TypeOK, TabsOK, tables,
                budget, history
  <2>2. RegsOK'
    BY <1>3, <1>n, GotoSame DEF RefundInvalidate, Invalidate
  <2>3. QED
    BY <2>1, <2>2, TypeSplitNext
<1>4. QED
  BY <1>1, <1>2, <1>3

\* Failures, expiry and crashes.
LEMMA FaultType ==
    ASSUME TypeInv, NEW p \in Slots, Fault(p) PROVE TypeInv'
<1>1. TabsOK'
  BY BoundsAssumption DEF Fault, TypeInv, TypeOK, TabsOK, tables, history
<1>2. RegsOK'
  BY FinishType, HydrationFailedType DEF Fault, Replies
<1>3. QED
  BY <1>1, <1>2, TypeSplitNext

\* An expiring entry keeps the types.
LEMMA ExpireType ==
    ASSUME TypeInv, NEW lt \in LeaveTypes, Expire(lt) PROVE TypeInv'
BY DEF Expire, TypeInv, TypeOK, HoldsRow, tables, regs, budget, history

\* A crash leaves a well-typed state behind.
LEMMA CrashType == ASSUME TypeInv, Crash PROVE TypeInv'
<1>1. TabsOK'
  BY BoundsAssumption DEF Crash, TypeInv, TypeOK, TabsOK, tables, history
<1>2. RegsOK'
  BY CallShape, BoundsAssumption
     DEF Crash, RegsOK, HoldsRow, StepNames, StepsOf, Replies
<1>3. QED
  BY <1>1, <1>2, TypeSplitNext

\* The initial state is well typed.
LEMMA InitTypeInv == Init => TypeInv
<1> SUFFICES ASSUME Init PROVE TypeInv
  OBVIOUS
<1>1. TabsOK
  BY BoundsAssumption DEF Init, TabsOK, Statuses
<1>2. RegsOK
  BY CallShape, BoundsAssumption
     DEF Init, RegsOK, HoldsRow, StepNames, StepsOf, Replies
<1>3. QED
  BY <1>1, <1>2, TypeSplit

\* Every step keeps the types.
LEMMA NextTypeInv == TypeInv /\ [Next]_vars => TypeInv'
<1> SUFFICES ASSUME TypeInv, [Next]_vars PROVE TypeInv'
  OBVIOUS
<1>1. ASSUME NEW p \in Slots, Start(p) PROVE TypeInv'
  BY <1>1, StartType
<1>2. ASSUME NEW p \in Slots, Step(p) PROVE TypeInv'
  BY <1>2, FetchType, RecordType, ReadReqType, ApproveType, CancelType DEF Step
<1>3. ASSUME NEW p \in Slots, Fault(p) PROVE TypeInv'
  BY <1>3, FaultType
<1>4. ASSUME NEW lt \in LeaveTypes, Expire(lt) PROVE TypeInv'
  BY <1>4, ExpireType
<1>5. CASE Crash
  BY <1>5, CrashType
<1>6. CASE UNCHANGED vars
  BY <1>6 DEF vars, tables, regs, budget, history, TypeInv, TypeOK, HoldsRow
<1>7. QED
  BY <1>1, <1>2, <1>3, <1>4, <1>5, <1>6 DEF Next

\* The strengthened type invariant holds throughout.
LEMMA TypeInvariant == Spec => []TypeInv
BY InitTypeInv, NextTypeInv, PTL DEF Spec

\* Type correctness: above all, available_balance is never negative, whatever
\* approvals race, because every deduction passes the CHECK constraint.
THEOREM RequestsTypeOK == Spec => []TypeOK
BY TypeInvariant, PTL DEF TypeInv

-----------------------------------------------------------------------------
(* What a save() that checks the @VersionColumn guarantees by itself: the   *)
(* lifecycle of every request, an audit trail that tells the truth, and a    *)
(* retry in approveRequest that can never succeed.                         *)

\* The steps of a decision that has read its request and not yet written it.
Midway == ApproveSteps \cup CancelSteps \cup {"saveReq"}

\* Versions identify states: PENDING is version 1, and only version 1.
RowsNumbered ==
    \A r \in Requests :
        /\ reqs[r].status = "NONE" => reqs[r].version = 0
        /\ reqs[r].status # "NONE" => reqs[r].version >= 1
        /\ reqs[r].status = "PENDING" => reqs[r].version = 1

\* A decision whose version is still current has read the current status.
DecisionCurrent(p) ==
    call[p].kind \in DecisionKinds /\ pc[p] \in Midway =>
        /\ reqs[Req(p)].status # "NONE"
        /\ seen[p] <= reqs[Req(p)].version
        /\ seen[p] = reqs[Req(p)].version =>
              reqs[Req(p)].status = Source(call[p].kind)

\* A create is the only one of its row, which does not exist before the save.
CreateAlone(p) ==
    call[p].kind = "create" =>
        /\ pc[p] # "audit" => reqs[Req(p)].status = "NONE"
        /\ \A q \in Slots : call[q].kind = "create" /\ Req(q) = Req(p) => q = p

\* The approval of a PENDING request is always in its first attempt.
AttemptOne(p) ==
    /\ attempt[p] > 1 => /\ pc[p] = "readReq"
                         /\ call[p].kind = "approve"
                         /\ reqs[Req(p)].status \notin {"NONE", "PENDING"}
    /\ pc[p] \in Midway /\ call[p].kind = "approve" => seen[p] = 1
    /\ reply[p] # "conflict"

\* A handler about to log a decision logs what the lifecycle has passed.
LogsTruth(p) ==
    pc[p] = "audit" =>
        /\ call[p].kind = "create" => reqs[Req(p)].status # "NONE"
        /\ call[p].kind = "approve" => reqs[Req(p)].status \in {"APPROVED", "CANCELLED"}
        /\ call[p].kind = "reject" => reqs[Req(p)].status = "REJECTED"
        /\ call[p].kind = "cancel" => reqs[Req(p)].status = "CANCELLED"

SlotInv(p) == DecisionCurrent(p) /\ CreateAlone(p) /\ AttemptOne(p) /\ LogsTruth(p)

VersionInv ==
    /\ RowsNumbered
    /\ AuditTruthful
    /\ \A p \in Slots : SlotInv(p)

\* The lifecycle of one request in one step.
Legal(r) ==
    reqs'[r].status # reqs[r].status =>
        <<reqs[r].status, reqs'[r].status>> \in
            {<<"NONE", "PENDING">>, <<"PENDING", "APPROVED">>,
             <<"PENDING", "REJECTED">>, <<"APPROVED", "CANCELLED">>}

\* A step of p leaves the other handlers' registers alone.
OnlySlot(p) ==
    \A q \in Slots : q # p =>
        /\ pc'[q] = pc[q] /\ call'[q] = call[q] /\ seen'[q] = seen[q]
        /\ attempt'[q] = attempt[q] /\ reply'[q] = reply[q]

\* A call on a request names a request.
LEMMA ReqOf ==
    ASSUME TypeOK, NEW p \in Slots, call[p].kind \in DecisionKinds \cup {"create"}
    PROVE  Req(p) \in Requests
BY CallShape DEF TypeOK, Req, DecisionKinds

\* Moving one handler on changes its step alone.
LEMMA GotoOnly ==
    ASSUME TypeOK, NEW p \in Slots, NEW s, Goto(p, s),
           UNCHANGED <<call, seen, attempt, reply>>
    PROVE  OnlySlot(p) /\ pc'[p] = s
BY DEF TypeOK, Goto, OnlySlot

\* Answering a call clears the registers of its own handler alone.
LEMMA FinishOnly ==
    ASSUME TypeOK, NEW p \in Slots, NEW a, Finish(p, a)
    PROVE  /\ OnlySlot(p) /\ pc'[p] = "idle" /\ call'[p] = NoCall
           /\ attempt'[p] = 0 /\ reply'[p] = a
BY DEF TypeOK, Finish, OnlySlot

\* A handler that ends without touching the requests.
LEMMA EndKeeps ==
    ASSUME TypeOK, VersionInv, NEW p \in Slots, NEW a, a # "conflict",
           Finish(p, a), UNCHANGED <<reqs, audit>>
    PROVE  VersionInv'
<1>1. OnlySlot(p) /\ pc'[p] = "idle" /\ call'[p] = NoCall /\ attempt'[p] = 0
         /\ reply'[p] = a
  BY FinishOnly
<1>2. NoCall.kind \notin DecisionKinds \cup {"create"}
  BY CallShape DEF DecisionKinds
<1>3. "idle" \notin Midway
  BY DEF Midway, ApproveSteps, CancelSteps
<1>4. SlotInv(p)'
  BY <1>1, <1>2, <1>3
     DEF SlotInv, DecisionCurrent, CreateAlone, AttemptOne, LogsTruth
<1>5. ASSUME NEW q \in Slots, q # p PROVE SlotInv(q)'
  BY <1>1, <1>2, <1>5
     DEF VersionInv, OnlySlot, SlotInv, DecisionCurrent, CreateAlone, AttemptOne,
         LogsTruth, Req
<1>6. QED
  BY <1>4, <1>5 DEF VersionInv, RowsNumbered, AuditTruthful

\* A handler that goes on without touching the requests or its registers.
LEMMA MoveKeeps ==
    ASSUME TypeOK, VersionInv, NEW p \in Slots, NEW s, Goto(p, s),
           UNCHANGED <<call, seen, attempt, reply, reqs, audit>>,
           pc[p] \notin {"readReq", "audit", "idle"}, s # "audit",
           s \in Midway => pc[p] \in Midway
    PROVE  VersionInv'
<1>1. OnlySlot(p) /\ pc'[p] = s
  BY GotoOnly
<1>2. SlotInv(p)'
  BY <1>1 DEF VersionInv, SlotInv, DecisionCurrent, CreateAlone, AttemptOne, LogsTruth,
              Req
<1>3. ASSUME NEW q \in Slots, q # p PROVE SlotInv(q)'
  BY <1>1, <1>3
     DEF VersionInv, OnlySlot, SlotInv, DecisionCurrent, CreateAlone, AttemptOne,
         LogsTruth, Req
<1>4. QED
  BY <1>2, <1>3 DEF VersionInv, RowsNumbered, AuditTruthful

\* A call arrives.
LEMMA StartKeeps ==
    ASSUME TypeOK, VersionInv, NEW p \in Slots, Start(p) PROVE VersionInv'
<1>1. PICK c \in GetCalls \cup RequestCalls, s \in {"lookup", "dimRead", "readReq"} :
        /\ Begin(p, c, s)
        /\ c.kind = "create" => /\ c \in RequestCalls
                                /\ reqs[c.req].status = "NONE"
                                /\ \A q \in Slots : call[q] # c
  BY CallShape DEF Start, StartGet, StartCreate, StartDecision, DecisionKinds
<1>2. /\ OnlySlot(p) /\ pc'[p] = s /\ call'[p] = c
      /\ seen'[p] = seen[p] /\ attempt'[p] = 1 /\ reply'[p] = "none"
      /\ UNCHANGED <<reqs, audit>>
  BY <1>1 DEF Begin, Goto, TypeOK, OnlySlot, tables
<1>3. s \notin Midway /\ s # "audit"
  BY DEF Midway, ApproveSteps, CancelSteps
<1>4. pc[p] = "idle" /\ call[p].kind \notin DecisionKinds \cup {"create"}
  BY <1>1, StepKinds DEF Begin, TypeOK, DecisionKinds
<1>5. ASSUME c.kind = "create", NEW q \in Slots, q # p, call[q].kind = "create"
      PROVE  Req(q) # c.req
  <2>1. call[q] \in RequestCalls
    BY <1>5, CallShape DEF TypeOK
  <2>2. QED
    BY <1>1, <1>5, <2>1 DEF RequestCalls, Req
<1>6. SlotInv(p)'
  <2>1. DecisionCurrent(p)'
    BY <1>1, <1>2, <1>3 DEF DecisionCurrent, Req
  <2>2. CreateAlone(p)'
    BY <1>1, <1>2, <1>5 DEF CreateAlone, OnlySlot, Req
  <2>3. AttemptOne(p)' /\ LogsTruth(p)'
    BY <1>2, <1>3 DEF AttemptOne, LogsTruth
  <2>4. QED
    BY <2>1, <2>2, <2>3 DEF SlotInv
<1>7. ASSUME NEW q \in Slots, q # p PROVE SlotInv(q)'
  <2>1. SlotInv(q)
    BY <1>7 DEF VersionInv
  <2>2. DecisionCurrent(q)' /\ AttemptOne(q)' /\ LogsTruth(q)'
    BY <1>2, <1>7, <2>1
       DEF OnlySlot, SlotInv, DecisionCurrent, AttemptOne, LogsTruth, Req
  <2>3. CreateAlone(q)'
    BY <1>2, <1>5, <1>7, <2>1 DEF OnlySlot, SlotInv, CreateAlone, Req
  <2>4. QED
    BY <2>2, <2>3 DEF SlotInv
<1>8. QED
  BY <1>2, <1>6, <1>7 DEF VersionInv, RowsNumbered, AuditTruthful

\* validateDimensions, getBalance and the hydration never touch a request.
LEMMA FetchKeeps ==
    ASSUME TypeOK, VersionInv, NEW p \in Slots,
           DimRead(p) \/ HcmAnswer(p) \/ Insert(p) \/ Lookup(p) \/ BalRead(p) \/ Fill(p)
    PROVE  VersionInv'
<1>1. UNCHANGED <<reqs, audit>>
  BY DEF DimRead, HcmAnswer, Insert, Lookup, BalRead, Fill, tables
<1>2. pc[p] \notin {"readReq", "audit", "idle"}
  BY DEF DimRead, HcmAnswer, Insert, Lookup, BalRead, Fill
<1>3. \A s \in {"hcm", "insert", "lookup", "balRead", "fill", "createSave"} :
          s \notin Midway /\ s # "audit"
  BY DEF Midway, ApproveSteps, CancelSteps
<1>4. \/ \E a : a # "conflict" /\ Finish(p, a)
      \/ \E s \in {"hcm", "insert", "lookup", "balRead", "fill", "createSave"} :
            Goto(p, s) /\ UNCHANGED <<call, seen, attempt, reply>>
  BY DEF DimRead, HcmAnswer, Insert, Lookup, BalRead, Fill, HydrationFailed,
         UseBalance, regs
<1>5. QED
  BY <1>1, <1>2, <1>3, <1>4, EndKeeps, MoveKeeps

\* The balance part of approve and cancel never touches a request.
LEMMA BalanceKeeps ==
    ASSUME TypeOK, VersionInv, NEW p \in Slots,
           \/ RefreshRead(p) \/ RefreshSave(p) \/ RefreshFill(p)
           \/ DeductRead(p) \/ DeductSave(p) \/ DeductInvalidate(p)
           \/ RefundRead(p) \/ RefundSave(p) \/ RefundInvalidate(p)
    PROVE  VersionInv'
<1>1. UNCHANGED <<reqs, audit>>
  BY DEF RefreshRead, RefreshSave, RefreshFill, DeductRead, DeductSave,
         DeductInvalidate, RefundRead, RefundSave, RefundInvalidate, Invalidate, tables
<1>2. pc[p] \in Midway /\ pc[p] \notin {"readReq", "audit", "idle"}
  BY DEF RefreshRead, RefreshSave, RefreshFill, DeductRead, DeductSave,
         DeductInvalidate, RefundRead, RefundSave, RefundInvalidate, Invalidate,
         Midway, ApproveSteps, CancelSteps
<1>3. \/ \E a : a # "conflict" /\ Finish(p, a)
      \/ \E s : /\ s # "audit"
                /\ Goto(p, s) /\ UNCHANGED <<call, seen, attempt, reply>>
  BY DEF RefreshRead, RefreshSave, RefreshFill, DeductRead, DeductSave,
         DeductInvalidate, RefundRead, RefundSave, RefundInvalidate, Invalidate,
         FindRow, regs
<1>4. QED
  BY <1>1, <1>2, <1>3, EndKeeps, MoveKeeps

\* A decision that goes on read the status it starts from; a retry never does.
LEMMA ReadReqKeeps ==
    ASSUME TypeOK, VersionInv, NEW p \in Slots, ReadReq(p) PROVE VersionInv'
<1>1. UNCHANGED <<reqs, audit>>
  BY DEF ReadReq, tables
<1>k. call[p].kind \in DecisionKinds /\ Req(p) \in Requests
  BY StepKinds, ReqOf DEF ReadReq, TypeOK
<1>2. CASE \E a \in {"notFound", "invalidState"} : Finish(p, a)
  BY <1>1, <1>2, EndKeeps
<1>3. CASE ~\E a \in {"notFound", "invalidState"} : Finish(p, a)
  <2>1. /\ reqs[Req(p)].status = Source(call[p].kind)
        /\ pc'[p] = AfterRead(call[p].kind)
        /\ seen'[p] = reqs[Req(p)].version
        /\ call'[p] = call[p] /\ attempt'[p] = attempt[p] /\ reply'[p] = reply[p]
        /\ OnlySlot(p)
    BY <1>3 DEF ReadReq, Goto, TypeOK, OnlySlot
  <2>2. pc'[p] \in Midway /\ pc'[p] # "audit"
    BY <2>1 DEF AfterRead, Midway, ApproveSteps, CancelSteps
  <2>3. SlotInv(p)'
    <3>1. DecisionCurrent(p)'
      BY <1>1, <1>k, <2>1 DEF DecisionCurrent, Req, Source, TypeOK
    <3>2. CreateAlone(p)'
      BY <1>k, <2>1 DEF CreateAlone, DecisionKinds
    <3>3. AttemptOne(p)'
      BY <1>1, <1>k, <2>1
         DEF VersionInv, SlotInv, AttemptOne, RowsNumbered, Source, Req
    <3>4. LogsTruth(p)'
      BY <2>2 DEF LogsTruth
    <3>5. QED
      BY <3>1, <3>2, <3>3, <3>4 DEF SlotInv
  <2>4. ASSUME NEW q \in Slots, q # p PROVE SlotInv(q)'
    BY <1>1, <1>k, <2>1, <2>4
       DEF VersionInv, OnlySlot, SlotInv, DecisionCurrent, CreateAlone, AttemptOne,
           LogsTruth, Req, DecisionKinds
  <2>5. QED
    BY <1>1, <2>3, <2>4 DEF VersionInv, RowsNumbered, AuditTruthful
<1>4. QED
  BY <1>2, <1>3

\* The INSERT of a request: nobody else has named its row yet.
LEMMA CreateSaveKeeps ==
    ASSUME TypeOK, VersionInv, NEW p \in Slots, CreateSave(p)
    PROVE  VersionInv' /\ \A r \in Requests : Legal(r)
<1>k. call[p].kind = "create" /\ Req(p) \in Requests /\ pc[p] = "createSave"
  BY StepKinds, ReqOf DEF CreateSave, TypeOK
<1>1. /\ OnlySlot(p) /\ pc'[p] = "audit" /\ call'[p] = call[p]
      /\ seen'[p] = seen[p] /\ attempt'[p] = attempt[p] /\ reply'[p] = reply[p]
      /\ audit' = audit
  BY GotoOnly DEF CreateSave, regs
<1>2. /\ reqs[Req(p)].status = "NONE"
      /\ reqs'[Req(p)] = [status |-> "PENDING", version |-> 1]
      /\ \A r \in Requests : r # Req(p) => reqs'[r] = reqs[r]
  BY <1>k DEF CreateSave, TypeOK, VersionInv, SlotInv, CreateAlone
<1>3. "audit" \notin Midway
  BY DEF Midway, ApproveSteps, CancelSteps
<1>4. SlotInv(p)'
  <2>1. DecisionCurrent(p)' /\ LogsTruth(p)'
    BY <1>k, <1>1, <1>2 DEF DecisionCurrent, LogsTruth, DecisionKinds, Req
  <2>2. CreateAlone(p)'
    BY <1>k, <1>1 DEF VersionInv, SlotInv, CreateAlone, OnlySlot, Req
  <2>3. AttemptOne(p)'
    BY <1>k, <1>1 DEF VersionInv, SlotInv, AttemptOne
  <2>4. QED
    BY <2>1, <2>2, <2>3 DEF SlotInv
<1>5. ASSUME NEW q \in Slots, q # p PROVE SlotInv(q)'
  <2>1. SlotInv(q)
    BY DEF VersionInv
  <2>2. /\ pc'[q] = pc[q] /\ call'[q] = call[q] /\ seen'[q] = seen[q]
        /\ attempt'[q] = attempt[q] /\ reply'[q] = reply[q]
    BY <1>1, <1>5 DEF OnlySlot
  <2>3. CASE call[q].kind \in DecisionKinds /\ Req(q) = Req(p)
    <3>1. pc[q] \notin Midway /\ pc[q] # "audit" /\ ~(attempt[q] > 1)
      BY <1>2, <2>1, <2>3
         DEF SlotInv, DecisionCurrent, AttemptOne, LogsTruth, DecisionKinds
    <3>2. QED
      BY <2>1, <2>2, <2>3, <3>1
         DEF SlotInv, DecisionCurrent, CreateAlone, AttemptOne, LogsTruth, DecisionKinds
  <2>4. CASE call[q].kind = "create" \/ Req(q) # Req(p)
    <3>1. ASSUME call[q].kind \in DecisionKinds \cup {"create"}
          PROVE  reqs'[Req(q)] = reqs[Req(q)]
      <4>1. Req(q) \in Requests
        BY <3>1, ReqOf
      <4>2. Req(q) # Req(p)
        BY <1>k, <1>5, <2>4 DEF VersionInv, SlotInv, CreateAlone
      <4>3. QED
        BY <1>2, <4>1, <4>2
    <3>2. DecisionCurrent(q)' /\ AttemptOne(q)'
      BY <2>1, <2>2, <3>1 DEF SlotInv, DecisionCurrent, AttemptOne, Req, DecisionKinds
    <3>3. LogsTruth(q)'
      BY <2>1, <2>2, <3>1 DEF SlotInv, LogsTruth, Req, DecisionKinds
    <3>4. CreateAlone(q)'
      BY <1>1, <1>k, <2>1, <2>2, <3>1 DEF SlotInv, CreateAlone, OnlySlot, Req
    <3>5. QED
      BY <3>2, <3>3, <3>4 DEF SlotInv
  <2>5. CASE call[q].kind # "create" /\ call[q].kind \notin DecisionKinds
    BY <2>1, <2>2, <2>5
       DEF SlotInv, DecisionCurrent, CreateAlone, AttemptOne, LogsTruth, DecisionKinds
  <2>6. QED
    BY <2>3, <2>4, <2>5
<1>6. AuditTruthful' /\ RowsNumbered'
  BY <1>1, <1>2 DEF VersionInv, AuditTruthful, RowsNumbered
<1>7. QED
  BY <1>2, <1>4, <1>5, <1>6 DEF VersionInv, Legal

\* The audit record of a decision.
LEMMA AuditLogKeeps ==
    ASSUME TypeOK, VersionInv, NEW p \in Slots, AuditLog(p) PROVE VersionInv'
<1>k. call[p].kind \in DecisionKinds \cup {"create"}
  BY StepKinds DEF AuditLog, TypeOK
<1>1. /\ OnlySlot(p) /\ pc'[p] = "idle" /\ call'[p] = NoCall
      /\ attempt'[p] = 0 /\ reply'[p] = "ok"
      /\ reqs' = reqs /\ audit' = audit \cup {<<Req(p), Target(call[p].kind)>>}
  BY FinishOnly DEF AuditLog
<1>2. NoCall.kind \notin DecisionKinds \cup {"create"} /\ "idle" \notin Midway
  BY CallShape DEF DecisionKinds, Midway, ApproveSteps, CancelSteps
<1>3. SlotInv(p)'
  BY <1>1, <1>2 DEF SlotInv, DecisionCurrent, CreateAlone, AttemptOne, LogsTruth
<1>4. ASSUME NEW q \in Slots, q # p PROVE SlotInv(q)'
  BY <1>1, <1>2, <1>4
     DEF VersionInv, OnlySlot, SlotInv, DecisionCurrent, CreateAlone, AttemptOne,
         LogsTruth, Req
<1>5. AuditTruthful'
  <2>1. LogsTruth(p) /\ pc[p] = "audit"
    BY DEF VersionInv, SlotInv, AuditLog
  <2>2. QED
    BY <1>k, <1>1, <2>1 DEF VersionInv, AuditTruthful, LogsTruth, Target, DecisionKinds
<1>6. QED
  BY <1>1, <1>3, <1>4, <1>5 DEF VersionInv, RowsNumbered

\* The UPDATE of a request that still has the version read: its status is
\* still the one read, so the transition is legal, and every other decision
\* that has read this request now holds an old version.
LEMMA WriteKeeps ==
    ASSUME SaveChecksVersion, TypeOK, VersionInv, NEW p \in Slots, SaveReq(p),
           ~VersionConflict(p)
    PROVE  VersionInv' /\ \A r \in Requests : Legal(r)
<1>k. call[p].kind \in DecisionKinds /\ Req(p) \in Requests /\ pc[p] \in Midway
  BY StepKinds, ReqOf DEF SaveReq, TypeOK, Midway
<1>1. /\ OnlySlot(p) /\ pc'[p] = "audit" /\ call'[p] = call[p]
      /\ seen'[p] = seen[p] /\ attempt'[p] = attempt[p] /\ reply'[p] = reply[p]
      /\ audit' = audit
  BY GotoOnly DEF SaveReq, regs
<1>2. /\ reqs'[Req(p)].status = Target(call[p].kind)
      /\ reqs'[Req(p)].version = reqs[Req(p)].version + 1
      /\ \A r \in Requests : r # Req(p) => reqs'[r] = reqs[r]
  BY <1>k DEF SaveReq, TypeOK
<1>3. /\ reqs[Req(p)].status = Source(call[p].kind)
      /\ reqs[Req(p)].version \in Nat
      /\ reqs[Req(p)].version >= 1
  BY <1>k DEF VersionConflict, VersionInv, SlotInv, DecisionCurrent, RowsNumbered,
              TypeOK
<1>4. \/ Source(call[p].kind) = "PENDING" /\ Target(call[p].kind) = "APPROVED"
      \/ Source(call[p].kind) = "PENDING" /\ Target(call[p].kind) = "REJECTED"
      \/ Source(call[p].kind) = "APPROVED" /\ Target(call[p].kind) = "CANCELLED"
  BY <1>k DEF Source, Target, DecisionKinds
<1>5. "audit" \notin Midway
  BY DEF Midway, ApproveSteps, CancelSteps
<1>6. SlotInv(p)'
  <2>1. DecisionCurrent(p)'
    BY <1>k, <1>1, <1>2, <1>4, <1>5 DEF DecisionCurrent, Req
  <2>2. CreateAlone(p)'
    BY <1>k, <1>1 DEF CreateAlone, DecisionKinds
  <2>3. AttemptOne(p)'
    BY <1>k, <1>1, <1>5 DEF VersionInv, SlotInv, AttemptOne, SaveReq
  <2>4. LogsTruth(p)'
    BY <1>k, <1>1, <1>2 DEF LogsTruth, Target, DecisionKinds, Req
  <2>5. QED
    BY <2>1, <2>2, <2>3, <2>4 DEF SlotInv
<1>7. ASSUME NEW q \in Slots, q # p PROVE SlotInv(q)'
  <2>1. SlotInv(q)
    BY DEF VersionInv
  <2>2. /\ pc'[q] = pc[q] /\ call'[q] = call[q] /\ seen'[q] = seen[q]
        /\ attempt'[q] = attempt[q] /\ reply'[q] = reply[q]
    BY <1>1, <1>7 DEF OnlySlot
  <2>3. CASE call[q].kind \in DecisionKinds \cup {"create"} /\ Req(q) = Req(p)
    <3>1. DecisionCurrent(q)'
      <4>1. seen[q] \in Nat
        BY DEF TypeOK
      <4>2. Target(call[p].kind) # "NONE"
        BY <1>4
      <4>3. QED
        BY <1>2, <1>3, <2>1, <2>2, <2>3, <4>1, <4>2 DEF SlotInv, DecisionCurrent, Req
    <3>2. CreateAlone(q)'
      BY <1>k, <1>1, <1>3, <1>4, <2>1, <2>2, <2>3
         DEF SlotInv, CreateAlone, OnlySlot, Req, DecisionKinds
    <3>3. AttemptOne(q)'
      BY <1>2, <1>4, <2>1, <2>2, <2>3 DEF SlotInv, AttemptOne, Req
    <3>4. LogsTruth(q)'
      BY <1>2, <1>3, <1>4, <2>1, <2>2, <2>3 DEF SlotInv, LogsTruth, Req
    <3>5. QED
      BY <3>1, <3>2, <3>3, <3>4 DEF SlotInv
  <2>4. CASE call[q].kind \in DecisionKinds \cup {"create"} /\ Req(q) # Req(p)
    <3>1. reqs'[Req(q)] = reqs[Req(q)]
      BY <1>2, <2>4, ReqOf
    <3>2. QED
      BY <1>k, <1>1, <2>1, <2>2, <2>4, <3>1
         DEF SlotInv, DecisionCurrent, CreateAlone, AttemptOne, LogsTruth, OnlySlot,
             Req, DecisionKinds
  <2>5. CASE call[q].kind \notin DecisionKinds \cup {"create"}
    BY <2>1, <2>2, <2>5
       DEF SlotInv, DecisionCurrent, CreateAlone, AttemptOne, LogsTruth, DecisionKinds
  <2>6. QED
    BY <2>3, <2>4, <2>5
<1>8. RowsNumbered'
  BY <1>2, <1>3, <1>4 DEF VersionInv, RowsNumbered, TypeOK
<1>9. AuditTruthful'
  BY <1>1, <1>2, <1>3, <1>4 DEF VersionInv, AuditTruthful
<1>10. \A r \in Requests : Legal(r)
  BY <1>2, <1>3, <1>4 DEF Legal
<1>11. QED
  BY <1>6, <1>7, <1>8, <1>9, <1>10 DEF VersionInv

\* The UPDATE that found another version: an approval is in its first attempt
\* and the request has left PENDING.
LEMMA ConflictKeeps ==
    ASSUME MaxRetries > 1, TypeOK, VersionInv, NEW p \in Slots, SaveReq(p),
           VersionConflict(p)
    PROVE  VersionInv' /\ UNCHANGED reqs
<1>k. /\ call[p].kind \in DecisionKinds /\ Req(p) \in Requests
      /\ pc[p] = "saveReq" /\ pc[p] \in Midway
  BY StepKinds, ReqOf DEF SaveReq, TypeOK, Midway
<1>1. UNCHANGED <<reqs, audit>> /\ RetryOrGiveUp(p)
  BY DEF SaveReq
<1>2. CASE call[p].kind = "approve"
  <2>1. /\ attempt[p] \in 0..MaxRetries /\ ~(attempt[p] > 1)
        /\ seen[p] = 1
    BY <1>k, <1>2 DEF VersionInv, SlotInv, AttemptOne, TypeOK
  <2>2. reqs[Req(p)].status # "PENDING" /\ reqs[Req(p)].status # "NONE"
    BY <1>k, <2>1 DEF VersionConflict, VersionInv, RowsNumbered, SlotInv, DecisionCurrent
  <2>3. attempt[p] < MaxRetries
    BY <2>1, BoundsAssumption
  <2>4. /\ OnlySlot(p) /\ pc'[p] = "readReq" /\ call'[p] = call[p]
        /\ seen'[p] = seen[p] /\ reply'[p] = reply[p]
    BY <1>1, <1>2, <2>3 DEF RetryOrGiveUp, Goto, TypeOK, OnlySlot
  <2>5. "readReq" \notin Midway
    BY DEF Midway, ApproveSteps, CancelSteps
  <2>6. SlotInv(p)'
    BY <1>k, <1>1, <1>2, <2>2, <2>4, <2>5
       DEF VersionInv, SlotInv, DecisionCurrent, CreateAlone, AttemptOne, LogsTruth,
           Req, DecisionKinds
  <2>7. ASSUME NEW q \in Slots, q # p PROVE SlotInv(q)'
    BY <1>k, <1>1, <2>4, <2>7
       DEF VersionInv, OnlySlot, SlotInv, DecisionCurrent, CreateAlone, AttemptOne,
           LogsTruth, Req, DecisionKinds
  <2>8. QED
    BY <1>1, <2>6, <2>7 DEF VersionInv, RowsNumbered, AuditTruthful
<1>3. CASE call[p].kind # "approve"
  BY <1>1, <1>3, EndKeeps DEF RetryOrGiveUp
<1>4. QED
  BY <1>1, <1>2, <1>3

\* A failing query or HCM call keeps the invariant.
LEMMA FaultKeeps ==
    ASSUME TypeOK, VersionInv, NEW p \in Slots, Fault(p) PROVE VersionInv'
<1>1. UNCHANGED <<reqs, audit>>
  BY DEF Fault, tables
<1>2. \E a : a # "conflict" /\ Finish(p, a)
  BY DEF Fault, HydrationFailed
<1>3. QED
  BY <1>1, <1>2, EndKeeps

\* A crash leaves no handler to reason about.
LEMMA CrashKeeps == ASSUME TypeOK, VersionInv, Crash PROVE VersionInv'
<1>1. NoCall.kind \notin DecisionKinds \cup {"create"} /\ "idle" \notin Midway
  BY CallShape DEF DecisionKinds, Midway, ApproveSteps, CancelSteps
<1>2. \A p \in Slots : SlotInv(p)'
  BY <1>1 DEF Crash, SlotInv, DecisionCurrent, CreateAlone, AttemptOne, LogsTruth
<1>3. QED
  BY <1>2 DEF Crash, tables, VersionInv, RowsNumbered, AuditTruthful

\* So does a step that leaves the tables and the handlers alone.
LEMMA SameKeeps ==
    ASSUME VersionInv, UNCHANGED <<tables, pc, regs>> PROVE VersionInv'
BY DEF tables, regs, VersionInv, RowsNumbered, AuditTruthful, SlotInv,
       DecisionCurrent, CreateAlone, AttemptOne, LogsTruth, Req

\* The invariant holds initially.
LEMMA InitVersion == Init => VersionInv
<1> SUFFICES ASSUME Init PROVE VersionInv
  OBVIOUS
<1>1. NoCall.kind \notin DecisionKinds \cup {"create"} /\ "idle" \notin Midway
  BY CallShape DEF DecisionKinds, Midway, ApproveSteps, CancelSteps
<1>2. \A p \in Slots : SlotInv(p)
  BY <1>1 DEF Init, SlotInv, DecisionCurrent, CreateAlone, AttemptOne, LogsTruth
<1>3. QED
  BY <1>2 DEF Init, VersionInv, RowsNumbered, AuditTruthful

\* Every step keeps the invariant.
LEMMA NextVersion ==
    ASSUME SaveChecksVersion, MaxRetries > 1, TypeOK, VersionInv, [Next]_vars
    PROVE  VersionInv' /\ \A r \in Requests : Legal(r)
<1>1. ASSUME NEW p \in Slots, Start(p) PROVE VersionInv' /\ reqs' = reqs
  BY <1>1, StartKeeps
     DEF Start, StartGet, StartCreate, StartDecision, Begin, tables
<1>2. ASSUME NEW p \in Slots, Step(p)
      PROVE  VersionInv' /\ \A r \in Requests : Legal(r)
  <2>1. CASE CreateSave(p)
    BY <2>1, CreateSaveKeeps
  <2>2. CASE SaveReq(p)
    BY <2>2, WriteKeeps, ConflictKeeps DEF Legal
  <2>3. CASE ~CreateSave(p) /\ ~SaveReq(p)
    <3>1. VersionInv'
      BY <1>2, <2>3, FetchKeeps, BalanceKeeps, ReadReqKeeps, AuditLogKeeps DEF Step
    <3>2. reqs' = reqs
      BY <1>2, <2>3
         DEF Step, DimRead, HcmAnswer, Insert, Lookup, BalRead, Fill, AuditLog, ReadReq,
             RefreshRead, RefreshSave, RefreshFill, DeductRead, DeductSave,
             DeductInvalidate, RefundRead, RefundSave, RefundInvalidate, Invalidate,
             tables
    <3>3. QED
      BY <3>1, <3>2 DEF Legal
  <2>4. QED
    BY <2>1, <2>2, <2>3
<1>3. ASSUME NEW p \in Slots, Fault(p) PROVE VersionInv' /\ reqs' = reqs
  BY <1>3, FaultKeeps DEF Fault, tables
<1>4. ASSUME NEW lt \in LeaveTypes, Expire(lt) PROVE VersionInv' /\ reqs' = reqs
  BY <1>4, SameKeeps DEF Expire, tables
<1>5. CASE Crash
  BY <1>5, CrashKeeps DEF Crash, tables, Legal
<1>6. CASE UNCHANGED vars
  BY <1>6, SameKeeps DEF vars, tables, Legal
<1>7. QED
  BY <1>1, <1>2, <1>3, <1>4, <1>5, <1>6 DEF Next, Legal

\* With version checks the strengthened invariant holds throughout.
LEMMA VersionInvariant ==
    ASSUME SaveChecksVersion, MaxRetries > 1 PROVE Spec => []VersionInv
<1>1. TypeOK /\ VersionInv /\ [Next]_vars => VersionInv'
  BY NextVersion
<1>2. QED
  BY <1>1, InitVersion, RequestsTypeOK, PTL DEF Spec

\* With a checking save() no interleaving leaves the documented lifecycle.
THEOREM RequestsLifecycle ==
    ASSUME SaveChecksVersion, MaxRetries > 1 PROVE Spec => Lifecycle
<1>1. TypeOK /\ VersionInv /\ [Next]_vars => [\A r \in Requests : Legal(r)]_vars
  BY NextVersion
<1>2. QED
  BY <1>1, VersionInvariant, RequestsTypeOK, PTL DEF Spec, Lifecycle, Legal

\* With a checking save() the audit trail never records a decision that the
\* request did not take.
THEOREM RequestsAuditTruthful ==
    ASSUME SaveChecksVersion, MaxRetries > 1 PROVE Spec => []AuditTruthful
<1>1. VersionInv => AuditTruthful
  BY DEF VersionInv
<1>2. QED
  BY <1>1, VersionInvariant, PTL

\* With a checking save() a retried approval never succeeds, and the retries
\* are never exhausted.
THEOREM RequestsRetryIsFutile ==
    ASSUME SaveChecksVersion, MaxRetries > 1 PROVE Spec => []RetryIsFutile
<1>1. VersionInv => RetryIsFutile
  BY DEF VersionInv, SlotInv, AttemptOne, RetryIsFutile
<1>2. QED
  BY <1>1, VersionInvariant, PTL

=============================================================================
