---------------------------- MODULE LedgerProofs ----------------------------
(***************************************************************************)
(* LedgerBacksStatus, DaysNeverDestroyed and DaysAccountedFor hold always,  *)
(* whether or not save() checks versions, with any faults and crashes.      *)
(***************************************************************************)
EXTENDS TimeOffRequestsProofs

\* The steps of a handler that has already moved days for its request.
Moved == CancelSteps \cup {"deductInvalidate", "saveReq"}

\* LedgerBacksStatus is not inductive: a handler between the balance write and
\* the request write carries the days that its request write will rely on, and
\* a cancel relies on the APPROVED it read long before.
LedgerInv ==
    /\ LedgerBacksStatus
    /\ \A p \in Slots :
          /\ call[p].kind = "approve" /\ pc[p] \in {"deductInvalidate", "saveReq"}
                => taken[Req(p)] > 0
          /\ call[p].kind = "cancel" /\ pc[p] \in CancelSteps \cup {"saveReq"}
                => taken[Req(p)] > 0
          /\ call[p].kind = "cancel" /\ pc[p] \in {"refundInvalidate", "saveReq"}
                => refunded[Req(p)] > 0

\* A step of one handler leaves the other handlers' registers alone.
OthersSame(p) ==
    \A q \in Slots : q # p => pc'[q] = pc[q] /\ call'[q] = call[q]

\* Moving one handler on leaves the others where they are.
LEMMA GotoOthers ==
    ASSUME TypeOK, NEW p \in Slots, NEW s, Goto(p, s), UNCHANGED call
    PROVE  OthersSame(p) /\ pc'[p] = s /\ call'[p] = call[p]
BY DEF TypeOK, Goto, OthersSame

\* So does answering its call.
LEMMA FinishOthers ==
    ASSUME TypeOK, NEW p \in Slots, NEW a, Finish(p, a)
    PROVE  OthersSame(p) /\ pc'[p] = "idle" /\ call'[p] = NoCall
BY DEF TypeOK, Finish, OthersSame

\* And so does findByDimensions, whichever way it ends.
LEMMA FindRowOthers ==
    ASSUME TypeOK, NEW p \in Slots, NEW s, FindRow(p, s)
    PROVE  /\ OthersSame(p)
           /\ \/ pc'[p] = s /\ call'[p] = call[p]
              \/ pc'[p] = "idle" /\ call'[p] = NoCall
BY GotoOthers, FinishOthers DEF FindRow

\* A step that writes neither requests nor days, and that does not take a
\* handler to where it must have moved days.
LEMMA Harmless ==
    ASSUME TypeOK, LedgerInv, NEW p \in Slots, UNCHANGED <<reqs, history>>,
           OthersSame(p), pc'[p] \notin Moved
    PROVE  LedgerInv'
BY DEF LedgerInv, LedgerBacksStatus, OthersSame, Moved, CancelSteps, Req, history

\* A call that arrives carries no obligation yet.
LEMMA StartLedger ==
    ASSUME TypeOK, LedgerInv, NEW p \in Slots, Start(p) PROVE LedgerInv'
<1>1. ASSUME NEW c, NEW s \in {"lookup", "dimRead", "readReq"}, Begin(p, c, s)
      PROVE  LedgerInv'
  <2>1. OthersSame(p) /\ pc'[p] = s
    BY <1>1 DEF Begin, Goto, TypeOK, OthersSame
  <2>2. UNCHANGED <<reqs, history>>
    BY <1>1 DEF Begin, tables, history
  <2>3. QED
    BY <2>1, <2>2, Harmless DEF Moved, CancelSteps
<1>2. QED
  BY <1>1 DEF Start, StartGet, StartCreate, StartDecision

\* The steps of validateDimensions and getBalance move neither days nor status.
LEMMA FetchLedger ==
    ASSUME TypeOK, LedgerInv, NEW p \in Slots,
           DimRead(p) \/ HcmAnswer(p) \/ Insert(p) \/ Lookup(p) \/ BalRead(p) \/ Fill(p)
    PROVE  LedgerInv'
<1>1. UNCHANGED <<reqs, history>>
  BY DEF DimRead, HcmAnswer, Insert, Lookup, BalRead, Fill, tables, history
<1>2. ASSUME NEW b, UseBalance(p, b) PROVE OthersSame(p) /\ pc'[p] \notin Moved
  BY <1>2, GotoOthers, FinishOthers DEF UseBalance, Moved, CancelSteps, regs
<1>3. OthersSame(p) /\ pc'[p] \notin Moved
  <2>1. CASE DimRead(p) \/ HcmAnswer(p) \/ BalRead(p)
    BY <2>1, GotoOthers DEF DimRead, HcmAnswer, BalRead, Moved, CancelSteps, regs
  <2>2. CASE Insert(p)
    BY <2>2, GotoOthers, FinishOthers
       DEF Insert, HydrationFailed, Moved, CancelSteps
  <2>3. CASE Lookup(p) \/ Fill(p)
    BY <2>3, <1>2, GotoOthers DEF Lookup, Fill, Moved, CancelSteps, regs
  <2>4. QED
    BY <2>1, <2>2, <2>3
<1>4. QED
  BY <1>1, <1>3, Harmless

\* createRequest only ever sets PENDING, and the audit record sets nothing.
LEMMA RecordLedger ==
    ASSUME TypeOK, LedgerInv, NEW p \in Slots, CreateSave(p) \/ AuditLog(p)
    PROVE  LedgerInv'
<1>1. CASE CreateSave(p)
  <2>1. OthersSame(p) /\ pc'[p] = "audit"
    BY <1>1, GotoOthers DEF CreateSave, regs
  <2>2. \A r \in Requests : reqs'[r].status # reqs[r].status => reqs'[r].status = "PENDING"
    BY <1>1 DEF CreateSave, TypeOK
  <2>3. UNCHANGED history
    BY <1>1 DEF CreateSave
  <2>4. LedgerBacksStatus'
    BY <2>2, <2>3 DEF LedgerInv, LedgerBacksStatus, history
  <2>5. QED
    BY <2>1, <2>3, <2>4 DEF LedgerInv, OthersSame, Req, CancelSteps, history
<1>2. CASE AuditLog(p)
  <2>1. OthersSame(p) /\ pc'[p] = "idle"
    BY <1>2, FinishOthers DEF AuditLog
  <2>2. UNCHANGED <<reqs, history>>
    BY <1>2 DEF AuditLog
  <2>3. QED
    BY <2>1, <2>2, Harmless DEF Moved, CancelSteps
<1>3. QED
  BY <1>1, <1>2

\* A cancel that goes on has read APPROVED, so the days were taken.
LEMMA ReadReqLedger ==
    ASSUME TypeOK, LedgerInv, NEW p \in Slots, ReadReq(p) PROVE LedgerInv'
<1>1. UNCHANGED <<reqs, history>>
  BY DEF ReadReq, tables
<1>2. CASE \E a \in {"notFound", "invalidState"} : Finish(p, a)
  BY <1>1, <1>2, FinishOthers, Harmless DEF Moved, CancelSteps
<1>3. CASE ~\E a \in {"notFound", "invalidState"} : Finish(p, a)
  <2>1. /\ OthersSame(p)
        /\ pc'[p] = AfterRead(call[p].kind)
        /\ call'[p] = call[p]
        /\ reqs[Req(p)].status = Source(call[p].kind)
    BY <1>3, GotoOthers DEF ReadReq
  <2>2. call[p].kind \in DecisionKinds /\ Req(p) \in Requests
    BY StepKinds, Busy DEF ReadReq, TypeOK, DecisionKinds
  <2>3. CASE call[p].kind = "cancel"
    <3>1. taken[Req(p)] > 0
      BY <2>1, <2>2, <2>3 DEF Source, LedgerInv, LedgerBacksStatus
    <3>2. pc'[p] = "refundRead"
      BY <2>1, <2>3 DEF AfterRead
    <3>3. QED
      BY <1>1, <2>1, <2>3, <3>1, <3>2
         DEF LedgerInv, LedgerBacksStatus, OthersSame, Req, history
  <2>4. CASE call[p].kind = "approve"
    <3>1. pc'[p] = "refreshRead"
      BY <2>1, <2>4 DEF AfterRead
    <3>2. QED
      BY <1>1, <2>1, <3>1, Harmless DEF Moved, CancelSteps
  <2>5. CASE call[p].kind = "reject"
    BY <1>1, <2>1, <2>5 DEF LedgerInv, LedgerBacksStatus, OthersSame, Req, history
  <2>6. QED
    BY <2>2, <2>3, <2>4, <2>5 DEF DecisionKinds
<1>4. QED
  BY <1>2, <1>3

\* refreshBalance and updateUsedBalance.
LEMMA ApproveLedger ==
    ASSUME TypeOK, LedgerInv, NEW p \in Slots,
           \/ RefreshRead(p) \/ RefreshSave(p) \/ RefreshFill(p)
           \/ DeductRead(p) \/ DeductSave(p) \/ DeductInvalidate(p)
    PROVE  LedgerInv'
<1>k. call[p].kind = "approve" /\ Req(p) \in Requests
  <2>1. pc[p] \in ApproveSteps /\ pc[p] # "idle"
    BY DEF RefreshRead, RefreshSave, RefreshFill, DeductRead, DeductSave,
           DeductInvalidate, Invalidate, ApproveSteps
  <2>2. QED
    BY <2>1, StepKinds, Busy DEF TypeOK
<1>1. CASE \/ RefreshRead(p) \/ RefreshSave(p) \/ RefreshFill(p) \/ DeductRead(p)
  <2>1. UNCHANGED <<reqs, history>>
    BY <1>1 DEF RefreshRead, RefreshSave, RefreshFill, DeductRead, tables
  <2>2. OthersSame(p) /\ pc'[p] \notin Moved
    BY <1>1, GotoOthers, FinishOthers, FindRowOthers
       DEF RefreshRead, RefreshSave, RefreshFill, DeductRead, Moved, CancelSteps, regs
  <2>3. QED
    BY <2>1, <2>2, Harmless
<1>2. CASE DeductSave(p) /\ UNCHANGED history
  <2>1. ~Debit(p)
    BY <1>2, <1>k DEF Debit, history, TypeOK
  <2>2. Finish(p, "error") /\ UNCHANGED <<reqs, history>>
    BY <1>2, <2>1 DEF DeductSave
  <2>3. QED
    BY <2>2, FinishOthers, Harmless DEF Moved, CancelSteps
<1>3. CASE DeductSave(p) /\ ~UNCHANGED history
  <2>1. OthersSame(p) /\ call'[p] = call[p] /\ pc'[p] = "deductInvalidate"
    BY <1>3, GotoOthers DEF DeductSave, regs
  <2>2. /\ UNCHANGED <<reqs, refunded>>
        /\ taken' = [taken EXCEPT ![Req(p)] = @ + 1]
    BY <1>3 DEF DeductSave, Debit
  <2>3. /\ \A r \in Requests : taken[r] > 0 => taken'[r] > 0
        /\ taken'[Req(p)] > 0
    BY <2>2, <1>k DEF TypeOK
  <2>4. \A q \in Slots : call[q].kind \in {"approve", "cancel"} => Req(q) \in Requests
    BY CallShape DEF TypeOK, Req
  <2>5. LedgerBacksStatus'
    BY <2>2, <2>3 DEF LedgerInv, LedgerBacksStatus
  <2>6. QED
    BY <1>k, <2>1, <2>2, <2>3, <2>4, <2>5 DEF LedgerInv, OthersSame, Req
<1>4. CASE DeductInvalidate(p)
  <2>1. /\ pc[p] = "deductInvalidate"
        /\ OthersSame(p) /\ call'[p] = call[p] /\ pc'[p] = "saveReq"
    BY <1>4, GotoOthers DEF DeductInvalidate, Invalidate, regs
  <2>2. UNCHANGED <<reqs, history>>
    BY <1>4 DEF DeductInvalidate, Invalidate, tables
  <2>3. QED
    BY <1>k, <2>1, <2>2 DEF LedgerInv, LedgerBacksStatus, OthersSame, Req, history
<1>5. QED
  BY <1>1, <1>2, <1>3, <1>4

\* refundBalance.
LEMMA CancelLedger ==
    ASSUME TypeOK, LedgerInv, NEW p \in Slots,
           RefundRead(p) \/ RefundSave(p) \/ RefundInvalidate(p)
    PROVE  LedgerInv'
<1>k. pc[p] \in CancelSteps /\ call[p].kind = "cancel" /\ Req(p) \in Requests
  <2>1. pc[p] \in CancelSteps /\ pc[p] # "idle"
    BY DEF RefundRead, RefundSave, RefundInvalidate, Invalidate, CancelSteps
  <2>2. QED
    BY <2>1, StepKinds, Busy DEF TypeOK
<1>1. CASE RefundRead(p)
  <2>1. UNCHANGED <<reqs, history>>
    BY <1>1 DEF RefundRead, tables
  <2>2. CASE pc'[p] = "idle" /\ OthersSame(p)
    BY <2>1, <2>2, Harmless DEF Moved, CancelSteps
  <2>3. CASE pc'[p] = "refundSave" /\ OthersSame(p) /\ call'[p] = call[p]
    BY <1>k, <2>1, <2>3 DEF LedgerInv, LedgerBacksStatus, OthersSame, Req, history
  <2>4. QED
    BY <1>1, <2>2, <2>3, FindRowOthers DEF RefundRead
<1>2. CASE RefundSave(p)
  <2>1. OthersSame(p) /\ call'[p] = call[p] /\ pc'[p] = "refundInvalidate"
    BY <1>2, GotoOthers DEF RefundSave, regs
  <2>2. /\ UNCHANGED <<reqs, taken>>
        /\ refunded' = [refunded EXCEPT ![Req(p)] = @ + 1]
    BY <1>2 DEF RefundSave, Credit
  <2>3. /\ \A r \in Requests : refunded[r] > 0 => refunded'[r] > 0
        /\ \A r \in Requests : refunded'[r] > 0 => refunded[r] > 0 \/ r = Req(p)
        /\ refunded'[Req(p)] > 0
    BY <2>2, <1>k DEF TypeOK
  <2>4. \A q \in Slots : call[q].kind \in {"approve", "cancel"} => Req(q) \in Requests
    BY CallShape DEF TypeOK, Req
  <2>5. taken[Req(p)] > 0
    BY <1>k DEF LedgerInv
  <2>6. LedgerBacksStatus'
    BY <2>2, <2>3, <2>5 DEF LedgerInv, LedgerBacksStatus
  <2>7. QED
    BY <1>k, <2>1, <2>2, <2>3, <2>4, <2>5, <2>6 DEF LedgerInv, OthersSame, Req
<1>3. CASE RefundInvalidate(p)
  <2>1. /\ pc[p] = "refundInvalidate"
        /\ OthersSame(p) /\ call'[p] = call[p] /\ pc'[p] = "saveReq"
    BY <1>3, GotoOthers DEF RefundInvalidate, Invalidate, regs
  <2>2. UNCHANGED <<reqs, history>>
    BY <1>3 DEF RefundInvalidate, Invalidate, tables
  <2>3. QED
    BY <1>k, <2>1, <2>2 DEF LedgerInv, LedgerBacksStatus, OthersSame, Req, history
<1>4. QED
  BY <1>1, <1>2, <1>3

\* The write of a decision: its days have been moved before.
LEMMA SaveReqLedger ==
    ASSUME TypeOK, LedgerInv, NEW p \in Slots, SaveReq(p) PROVE LedgerInv'
<1>k. call[p].kind \in DecisionKinds /\ Req(p) \in Requests
  BY StepKinds, Busy DEF SaveReq, TypeOK, DecisionKinds
<1>h. UNCHANGED history
  BY DEF SaveReq
<1>1. CASE UNCHANGED reqs
  <2>1. OthersSame(p) /\ pc'[p] \in {"idle", "readReq", "audit"}
    BY GotoOthers, FinishOthers DEF SaveReq, RetryOrGiveUp, regs
  <2>2. QED
    BY <1>1, <1>h, <2>1, Harmless DEF Moved, CancelSteps
<1>2. CASE ~UNCHANGED reqs
  <2>1. OthersSame(p) /\ pc'[p] = "audit"
    BY <1>2, GotoOthers DEF SaveReq, regs
  <2>2. \A r \in Requests :
           \/ reqs'[r] = reqs[r]
           \/ r = Req(p) /\ reqs'[r].status = Target(call[p].kind)
    BY <1>2, <1>k DEF SaveReq, TypeOK
  <2>3. /\ Target(call[p].kind) \in {"APPROVED", "CANCELLED"} => taken[Req(p)] > 0
        /\ Target(call[p].kind) = "CANCELLED" => refunded[Req(p)] > 0
    BY <1>k DEF Target, DecisionKinds, SaveReq, LedgerInv
  <2>4. LedgerBacksStatus'
    BY <1>h, <2>2, <2>3 DEF LedgerInv, LedgerBacksStatus, history
  <2>5. QED
    BY <1>h, <2>1, <2>4 DEF LedgerInv, OthersSame, CancelSteps, Req, history
<1>3. QED
  BY <1>1, <1>2

\* Initially every request is NONE and nothing was written.
LEMMA InitLedger == Init => LedgerInv
BY DEF Init, LedgerInv, LedgerBacksStatus, CancelSteps

\* Every step keeps the ledger invariant.
LEMMA NextLedger == TypeOK /\ LedgerInv /\ [Next]_vars => LedgerInv'
<1> SUFFICES ASSUME TypeOK, LedgerInv, [Next]_vars PROVE LedgerInv'
  OBVIOUS
<1>1. ASSUME NEW p \in Slots, Start(p) PROVE LedgerInv'
  BY <1>1, StartLedger
<1>2. ASSUME NEW p \in Slots, Step(p) PROVE LedgerInv'
  BY <1>2, FetchLedger, RecordLedger, ReadReqLedger, ApproveLedger, CancelLedger,
     SaveReqLedger DEF Step
<1>3. ASSUME NEW p \in Slots, Fault(p) PROVE LedgerInv'
  <2>1. OthersSame(p) /\ pc'[p] = "idle"
    BY <1>3, FinishOthers DEF Fault, HydrationFailed
  <2>2. UNCHANGED <<reqs, history>>
    BY <1>3 DEF Fault, tables
  <2>3. QED
    BY <2>1, <2>2, Harmless DEF Moved, CancelSteps
<1>4. ASSUME NEW lt \in LeaveTypes, Expire(lt) PROVE LedgerInv'
  BY <1>4 DEF Expire, tables, regs, history, LedgerInv, LedgerBacksStatus, Req
<1>5. CASE Crash
  BY <1>5 DEF Crash, tables, history, LedgerInv, LedgerBacksStatus, CancelSteps
<1>6. CASE UNCHANGED vars
  BY <1>6 DEF vars, tables, regs, history, LedgerInv, LedgerBacksStatus, Req
<1>7. QED
  BY <1>1, <1>2, <1>3, <1>4, <1>5, <1>6 DEF Next

\* However calls interleave, fail or crash, the status of a request never runs
\* ahead of the days moved for it.
THEOREM RequestsLedgerBacksStatus == Spec => []LedgerBacksStatus
<1>1. Spec => []LedgerInv
  BY InitLedger, NextLedger, RequestsTypeOK, PTL DEF Spec
<1>2. LedgerInv => LedgerBacksStatus
  BY DEF LedgerInv
<1>3. QED
  BY <1>1, <1>2, PTL

-----------------------------------------------------------------------------
(* Days are never destroyed.                                                 *)

\* G gives the totals each balance may have been granted, the HCM's first one
\* among them.
Granted(G) ==
    \A lt \in LeaveTypes :
        /\ G[lt] \subseteq Nat
        /\ HcmBalance[lt].available + HcmBalance[lt].used \in G[lt]

\* A row that holds at least the days that were granted once.
Whole(G, lt, b) == b # NoRow => \E n \in G[lt] : b.available + b.used >= n

\* An idle handler holds no entity that a later call could write.
DaysInv(G) ==
    /\ \A lt \in LeaveTypes : Whole(G, lt, balance[lt]) /\ Whole(G, lt, cache[lt])
    /\ \A p \in Slots : call[p] # NoCall => Whole(G, Leave(p), row[p])
    /\ \A p \in Slots : call[p] = NoCall => row[p] = NoRow

\* What leaves the balances, the cache and the entities alone keeps the days.
LEMMA DaysSame ==
    ASSUME NEW G, DaysInv(G), UNCHANGED <<balance, cache, call, row>> PROVE DaysInv(G)'
BY DEF DaysInv, Whole, Leave

\* A handler ends, having written at most whole rows.
LEMMA DaysFinish ==
    ASSUME NEW G, TypeOK, DaysInv(G), NEW p \in Slots, NEW a, Finish(p, a),
           \A lt \in LeaveTypes : Whole(G, lt, balance'[lt]) /\ Whole(G, lt, cache'[lt])
    PROVE  DaysInv(G)'
<1>1. ASSUME NEW q \in Slots
      PROVE  /\ call'[q] # NoCall => Whole(G, Leave(q), row[q])' 
             /\ call'[q] = NoCall => row'[q] = NoRow
  BY <1>1 DEF Finish, TypeOK, DaysInv, Whole, Leave
<1>2. QED
  BY <1>1 DEF DaysInv, Whole

\* A handler goes on, holding and having written at most whole rows.
LEMMA DaysGoto ==
    ASSUME NEW G, TypeOK, DaysInv(G), NEW p \in Slots, call[p] # NoCall, UNCHANGED call,
           Whole(G, Leave(p), row'[p]),
           \A q \in Slots : q # p => row'[q] = row[q],
           \A lt \in LeaveTypes : Whole(G, lt, balance'[lt]) /\ Whole(G, lt, cache'[lt])
    PROVE  DaysInv(G)'
<1>1. ASSUME NEW q \in Slots
      PROVE  /\ call'[q] # NoCall => Whole(G, Leave(q), row[q])'
             /\ call'[q] = NoCall => row'[q] = NoRow
  BY <1>1 DEF DaysInv, Whole, Leave
<1>2. QED
  BY <1>1 DEF DaysInv, Whole

\* Hydration writes what the HCM granted.
LEMMA HydratedWhole ==
    ASSUME NEW G, Granted(G), NEW lt \in LeaveTypes PROVE Whole(G, lt, Hydrated(lt))
<1>1. Hydrated(lt).available + Hydrated(lt).used = HcmBalance[lt].available + HcmBalance[lt].used
  BY DEF Hydrated
<1>2. HcmBalance[lt].available + HcmBalance[lt].used \in G[lt] \cap Nat
  BY DEF Granted
<1>3. QED
  BY <1>1, <1>2 DEF Whole

\* A deduction moves days within a row.
LEMMA DeductedWhole ==
    ASSUME NEW G, Granted(G), NEW lt \in LeaveTypes, NEW b \in Rows, NEW d \in Nat,
           Whole(G, lt, b)
    PROVE  Whole(G, lt, Deducted(b, d))
<1>1. PICK n \in G[lt] : b.available + b.used >= n
  BY NoValueAssumption DEF Whole
<1>2. Deducted(b, d).available = b.available - d /\ Deducted(b, d).used = b.used + d
  BY DEF Deducted
<1>3. n \in Nat /\ b.available \in Nat /\ b.used \in Nat
  BY DEF Granted, Rows
<1>4. Deducted(b, d).available + Deducted(b, d).used >= n
  BY <1>1, <1>2, <1>3
<1>5. QED
  BY <1>4 DEF Whole

\* A refund never takes more from used_balance than it gives back.
LEMMA RefundedWhole ==
    ASSUME NEW G, Granted(G), NEW lt \in LeaveTypes, NEW b \in Rows, NEW d \in Nat,
           Whole(G, lt, b)
    PROVE  Whole(G, lt, Refunded(b, d))
<1>1. PICK n \in G[lt] : b.available + b.used >= n
  BY NoValueAssumption DEF Whole
<1>2. /\ Refunded(b, d).available = b.available + d
      /\ Refunded(b, d).used = IF b.used > d THEN b.used - d ELSE 0
  BY DEF Refunded
<1>3. n \in Nat /\ b.available \in Nat /\ b.used \in Nat
  BY DEF Granted, Rows
<1>4. Refunded(b, d).available + Refunded(b, d).used >= n
  BY <1>1, <1>2, <1>3
<1>5. QED
  BY <1>4 DEF Whole

\* Every step of a handler keeps the days.
LEMMA DaysStep ==
    ASSUME NEW G, Granted(G), TypeInv, DaysInv(G), NEW p \in Slots, Step(p) PROVE DaysInv(G)'
<1> USE DEF TypeInv
<1>b. call[p] # NoCall /\ Leave(p) \in LeaveTypes
  <2>1. pc[p] # "idle"
    BY DEF Step, DimRead, HcmAnswer, Insert, Lookup, BalRead, Fill, CreateSave,
           AuditLog, ReadReq, RefreshRead, RefreshSave, RefreshFill, DeductRead,
           DeductSave, DeductInvalidate, RefundRead, RefundSave, RefundInvalidate,
           Invalidate, SaveReq
  <2>2. call[p] # NoCall
    BY <2>1 DEF TypeOK, NoCall, StepsOf
  <2>3. QED
    BY <2>1, <2>2, Busy
<1>w. /\ Whole(G, Leave(p), row[p])
      /\ Whole(G, Leave(p), balance[Leave(p)])
      /\ \A lt \in LeaveTypes : Whole(G, lt, balance[lt]) /\ Whole(G, lt, cache[lt])
  BY <1>b DEF DaysInv
<1>n. \A lt \in LeaveTypes : Whole(G, lt, NoRow)
  BY DEF Whole
\* Either table gets a whole row for the leave type, or is emptied, or is kept.
<1>u. ASSUME \/ UNCHANGED balance
             \/ \E b : Whole(G, Leave(p), b) /\ balance' = [balance EXCEPT ![Leave(p)] = b],
             \/ UNCHANGED cache
             \/ cache' = [lt \in LeaveTypes |-> NoRow]
             \/ cache' = [cache EXCEPT ![Leave(p)] = row[p]]
      PROVE  \A lt \in LeaveTypes : Whole(G, lt, balance'[lt]) /\ Whole(G, lt, cache'[lt])
  <2>1. ASSUME NEW lt \in LeaveTypes PROVE Whole(G, lt, balance'[lt])
    BY <1>u, <1>w, <2>1 DEF TypeOK
  <2>2. ASSUME NEW lt \in LeaveTypes PROVE Whole(G, lt, cache'[lt])
    BY <1>u, <1>w, <1>n, <2>2 DEF TypeOK
  <2>3. QED
    BY <2>1, <2>2
\* So it is enough to see what the handler holds afterwards.
<1>f. ASSUME NEW a, Finish(p, a),
             \/ UNCHANGED balance
             \/ \E b : Whole(G, Leave(p), b) /\ balance' = [balance EXCEPT ![Leave(p)] = b],
             \/ UNCHANGED cache
             \/ cache' = [lt \in LeaveTypes |-> NoRow]
             \/ cache' = [cache EXCEPT ![Leave(p)] = row[p]]
      PROVE  DaysInv(G)'
  BY <1>f, <1>u, DaysFinish
<1>g. ASSUME UNCHANGED call,
             \/ UNCHANGED row
             \/ \E b : Whole(G, Leave(p), b) /\ row' = [row EXCEPT ![p] = b],
             \/ UNCHANGED balance
             \/ \E b : Whole(G, Leave(p), b) /\ balance' = [balance EXCEPT ![Leave(p)] = b],
             \/ UNCHANGED cache
             \/ cache' = [lt \in LeaveTypes |-> NoRow]
             \/ cache' = [cache EXCEPT ![Leave(p)] = row[p]]
      PROVE  DaysInv(G)'
  <2>1. Whole(G, Leave(p), row'[p]) /\ \A q \in Slots : q # p => row'[q] = row[q]
    BY <1>g, <1>w DEF TypeOK
  <2>2. QED
    BY <1>b, <1>g, <1>u, <2>1, DaysGoto
<1>1. ASSUME NEW s, FindRow(p, s), UNCHANGED <<balance, cache>> PROVE DaysInv(G)'
  BY <1>1, <1>f, <1>g, <1>w DEF FindRow
<1>2. ASSUME NEW b, UseBalance(p, b), UNCHANGED balance,
             UNCHANGED cache \/ cache' = [cache EXCEPT ![Leave(p)] = row[p]]
      PROVE  DaysInv(G)'
  BY <1>2, <1>f, <1>g DEF UseBalance, regs
<1>3. CASE DimRead(p) \/ HcmAnswer(p) \/ CreateSave(p) \/ RefundInvalidate(p)
              \/ DeductInvalidate(p)
  BY <1>3, <1>g DEF DimRead, HcmAnswer, CreateSave, RefundInvalidate,
                    DeductInvalidate, Invalidate, tables, regs
<1>4. CASE Insert(p)
  <2>1. Whole(G, Leave(p), Hydrated(Leave(p)))
    BY <1>b, HydratedWhole
  <2>2. QED
    BY <1>4, <2>1, <1>f, <1>g DEF Insert, HydrationFailed
<1>5. CASE Lookup(p) \/ Fill(p)
  BY <1>5, <1>2, <1>g DEF Lookup, Fill, tables, regs
<1>6. CASE BalRead(p)
  BY <1>6, <1>w, <1>g DEF BalRead, tables
<1>7. CASE AuditLog(p) \/ ReadReq(p) \/ SaveReq(p)
  BY <1>7, <1>f, <1>g DEF AuditLog, ReadReq, SaveReq, RetryOrGiveUp, tables, regs
<1>8. CASE RefreshRead(p) \/ DeductRead(p) \/ RefundRead(p)
  BY <1>8, <1>1 DEF RefreshRead, DeductRead, RefundRead, tables
<1>9. CASE RefreshSave(p) \/ RefreshFill(p)
  BY <1>9, <1>w, <1>f, <1>g DEF RefreshSave, RefreshFill, tables, regs
<1>10. CASE DeductSave(p)
  <2>1. row[p] \in Rows /\ Days(p) \in Nat
    <3>1. call[p].kind = "approve" /\ pc[p] # "idle"
      BY <1>10, StepKinds DEF DeductSave, TypeOK, ApproveSteps
    <3>2. QED
      BY <1>10, <3>1, Busy DEF DeductSave, HoldsRow
  <2>2. Whole(G, Leave(p), Deducted(row[p], Days(p)))
    BY <1>b, <1>w, <2>1, DeductedWhole
  <2>3. QED
    BY <1>10, <2>2, <1>f, <1>g DEF DeductSave, regs
<1>11. CASE RefundSave(p)
  <2>1. row[p] \in Rows /\ Days(p) \in Nat
    <3>1. call[p].kind = "cancel" /\ pc[p] # "idle"
      BY <1>11, StepKinds DEF RefundSave, TypeOK, CancelSteps
    <3>2. QED
      BY <1>11, <3>1, Busy DEF RefundSave, HoldsRow
  <2>2. Whole(G, Leave(p), Refunded(row[p], Days(p)))
    BY <1>b, <1>w, <2>1, RefundedWhole
  <2>3. QED
    BY <1>11, <2>2, <1>g DEF RefundSave, regs
<1>12. QED
  BY <1>3, <1>4, <1>5, <1>6, <1>7, <1>8, <1>9, <1>10, <1>11 DEF Step

\* A call that arrives holds no entity.
LEMMA DaysStart ==
    ASSUME NEW G, TypeOK, DaysInv(G), NEW p \in Slots, Start(p) PROVE DaysInv(G)'
<1>1. PICK c, s : Begin(p, c, s)
  BY DEF Start, StartGet, StartCreate, StartDecision
<1>2. call[p] = NoCall
  <2>1. call[p].kind \notin {"get", "create"} \cup DecisionKinds
    BY <1>1, StepKinds DEF Begin, TypeOK, DecisionKinds
  <2>2. QED
    BY <2>1, CallShape DEF TypeOK
<1>3. UNCHANGED <<balance, cache, row>> /\ \A q \in Slots : q # p => call'[q] = call[q]
  BY <1>1 DEF Begin, tables, TypeOK
<1>4. row[p] = NoRow
  BY <1>2 DEF DaysInv
<1>5. QED
  BY <1>3, <1>4 DEF DaysInv, Whole, Leave

\* Every step keeps the days.
LEMMA DaysNext ==
    ASSUME NEW G, Granted(G), TypeInv, DaysInv(G), [Next]_vars PROVE DaysInv(G)'
<1>1. ASSUME NEW p \in Slots, Start(p) PROVE DaysInv(G)'
  BY <1>1, DaysStart DEF TypeInv
<1>2. ASSUME NEW p \in Slots, Step(p) PROVE DaysInv(G)'
  BY <1>2, DaysStep
<1>3. ASSUME NEW p \in Slots, Fault(p) PROVE DaysInv(G)'
  <2>1. PICK a : Finish(p, a)
    BY <1>3 DEF Fault, HydrationFailed
  <2>2. UNCHANGED <<balance, cache>>
    BY <1>3 DEF Fault, tables
  <2>3. QED
    BY <2>1, <2>2, DaysFinish DEF TypeInv, DaysInv
<1>4. ASSUME NEW lt \in LeaveTypes, Expire(lt) PROVE DaysInv(G)'
  BY <1>4 DEF Expire, tables, regs, TypeInv, TypeOK, DaysInv, Whole, Leave
<1>5. CASE Crash
  BY <1>5 DEF Crash, tables, DaysInv, Whole
<1>6. CASE UNCHANGED vars
  BY <1>6, DaysSame DEF vars, tables, regs
<1>7. QED
  BY <1>1, <1>2, <1>3, <1>4, <1>5, <1>6 DEF Next

\* No interleaving of lost updates, refunds and failures makes days disappear.
THEOREM RequestsDaysNeverDestroyed == Spec => []DaysNeverDestroyed
<1> DEFINE G == [lt \in LeaveTypes |->
                    {HcmBalance[lt].available + HcmBalance[lt].used}]
<1>1. Granted(G)
  BY HcmAssumption DEF Granted
<1>2. Init => DaysInv(G)
  BY DEF Init, DaysInv, Whole
<1>3. TypeOK /\ DaysInv(G) => DaysNeverDestroyed
  <2>1. ASSUME NEW lt \in LeaveTypes, NEW b, Whole(G, lt, b), b # NoRow
        PROVE  b.available + b.used >= HcmBalance[lt].available + HcmBalance[lt].used
    BY <2>1 DEF Whole
  <2>2. ASSUME TypeOK, DaysInv(G) PROVE DaysNeverDestroyed
    <3>1. ASSUME NEW lt \in LeaveTypes, NEW b, b = balance[lt] \/ b = cache[lt], b # NoRow
          PROVE  b.available + b.used >= HcmBalance[lt].available + HcmBalance[lt].used
      BY <2>1, <2>2, <3>1 DEF DaysInv
    <3>2. ASSUME NEW p \in Slots, call[p] # NoCall, row[p] # NoRow
          PROVE  row[p].available + row[p].used >=
                    HcmBalance[Leave(p)].available + HcmBalance[Leave(p)].used
      <4>1. Leave(p) \in LeaveTypes
        BY <2>2, <3>2, CallShape DEF TypeOK, Leave
      <4>2. QED
        BY <2>1, <2>2, <3>2, <4>1 DEF DaysInv
    <3>3. QED
      BY <3>1, <3>2 DEF DaysNeverDestroyed
  <2>3. QED
    BY <2>2
<1> HIDE DEF G
<1>4. TypeInv /\ DaysInv(G) /\ [Next]_vars => DaysInv(G)'
  BY <1>1, DaysNext
<1>5. Spec => []DaysInv(G)
  BY <1>2, <1>4, TypeInvariant, PTL DEF Spec
<1>6. QED
  BY <1>3, <1>5, TypeInvariant, PTL DEF TypeInv

-----------------------------------------------------------------------------
(* Days are never counted twice.                                             *)

\* A row that the deductions and refunds written so far can explain.
Explained(lt, b) ==
    b # NoRow =>
        /\ b.available >= HcmBalance[lt].available - debited[lt]
        /\ b.available <= HcmBalance[lt].available + credited[lt]
        /\ b.used <= HcmBalance[lt].used + debited[lt]
        /\ b.available + b.used <=
              HcmBalance[lt].available + HcmBalance[lt].used + credited[lt]

\* Rows, cached rows and held entities; an idle handler holds none.
AccountInv ==
    /\ \A lt \in LeaveTypes : Explained(lt, balance[lt]) /\ Explained(lt, cache[lt])
    /\ \A p \in Slots : call[p] # NoCall => Explained(Leave(p), row[p])
    /\ \A p \in Slots : call[p] = NoCall => row[p] = NoRow

\* What is written off and given back only grows.
Accrue ==
    \A lt \in LeaveTypes : debited'[lt] >= debited[lt] /\ credited'[lt] >= credited[lt]

\* What explained a row once explains it ever after.
LEMMA StillExplained ==
    ASSUME TypeOK, TypeOK', Accrue, NEW lt \in LeaveTypes, NEW b \in Rows \cup {NoRow},
           Explained(lt, b)
    PROVE  Explained(lt, b)'
<1>1. /\ debited[lt] \in Nat /\ credited[lt] \in Nat
      /\ debited'[lt] \in Nat /\ credited'[lt] \in Nat
      /\ debited'[lt] >= debited[lt] /\ credited'[lt] >= credited[lt]
  BY DEF TypeOK, Accrue
<1>2. HcmBalance[lt].available \in Nat /\ HcmBalance[lt].used \in Nat
  BY HcmAssumption
<1>3. b # NoRow => b.available \in Nat /\ b.used \in Nat
  BY DEF Rows
<1>4. QED
  BY <1>1, <1>2, <1>3 DEF Explained

\* Hydration writes the HCM's numbers, which need no explanation.
LEMMA HydratedExplained ==
    ASSUME TypeOK, NEW lt \in LeaveTypes PROVE Explained(lt, Hydrated(lt))
<1>1. /\ Hydrated(lt).available = HcmBalance[lt].available
      /\ Hydrated(lt).used = HcmBalance[lt].used
  BY DEF Hydrated
<1>2. debited[lt] \in Nat /\ credited[lt] \in Nat
  BY DEF TypeOK
<1>3. HcmBalance[lt].available \in Nat /\ HcmBalance[lt].used \in Nat
  BY HcmAssumption
<1>4. QED
  BY <1>1, <1>2, <1>3 DEF Explained

\* A deduction from an entity, however old, explains itself.
LEMMA DeductedExplained ==
    ASSUME TypeOK, NEW lt \in LeaveTypes, NEW b \in Rows, NEW d \in Nat, Explained(lt, b),
           debited'[lt] = debited[lt] + d, credited'[lt] = credited[lt]
    PROVE  Explained(lt, Deducted(b, d))'
<1>1. /\ Deducted(b, d).available = b.available - d
      /\ Deducted(b, d).used = b.used + d
  BY DEF Deducted
<1>2. debited[lt] \in Nat /\ credited[lt] \in Nat
  BY DEF TypeOK
<1>3. /\ HcmBalance[lt].available \in Nat /\ HcmBalance[lt].used \in Nat
      /\ b.available \in Nat /\ b.used \in Nat
  BY HcmAssumption DEF Rows
<1>4. /\ b.available >= HcmBalance[lt].available - debited[lt]
      /\ b.available <= HcmBalance[lt].available + credited[lt]
      /\ b.used <= HcmBalance[lt].used + debited[lt]
      /\ b.available + b.used <=
            HcmBalance[lt].available + HcmBalance[lt].used + credited[lt]
  BY NoValueAssumption DEF Explained
<1>5. QED
  BY <1>1, <1>2, <1>3, <1>4 DEF Explained

\* So does a refund, also one whose cut at zero adds to the row's total.
LEMMA RefundedExplained ==
    ASSUME TypeOK, NEW lt \in LeaveTypes, NEW b \in Rows, NEW d \in Nat, Explained(lt, b),
           debited'[lt] = debited[lt], credited'[lt] = credited[lt] + d
    PROVE  Explained(lt, Refunded(b, d))'
<1>1. /\ Refunded(b, d).available = b.available + d
      /\ Refunded(b, d).used = IF b.used > d THEN b.used - d ELSE 0
  BY DEF Refunded
<1>2. debited[lt] \in Nat /\ credited[lt] \in Nat
  BY DEF TypeOK
<1>3. /\ HcmBalance[lt].available \in Nat /\ HcmBalance[lt].used \in Nat
      /\ b.available \in Nat /\ b.used \in Nat
  BY HcmAssumption DEF Rows
<1>4. /\ b.available >= HcmBalance[lt].available - debited[lt]
      /\ b.available <= HcmBalance[lt].available + credited[lt]
      /\ b.used <= HcmBalance[lt].used + debited[lt]
      /\ b.available + b.used <=
            HcmBalance[lt].available + HcmBalance[lt].used + credited[lt]
  BY NoValueAssumption DEF Explained
<1>5. QED
  BY <1>1, <1>2, <1>3, <1>4 DEF Explained

\* It is enough to see what a step's own handler holds afterwards and what the
\* step put into the table and the cache.
LEMMA AccountEffects ==
    ASSUME TypeOK, TypeOK', AccountInv, Accrue, NEW p \in Slots,
           \A q \in Slots : q # p => call'[q] = call[q] /\ row'[q] = row[q],
           row'[p] = NoRow \/ (call'[p] # NoCall /\ Explained(Leave(p), row[p])'),
           \A lt \in LeaveTypes : balance'[lt] = balance[lt] \/ Explained(lt, balance[lt])',
           \A lt \in LeaveTypes : cache'[lt] = cache[lt] \/ Explained(lt, cache[lt])'
    PROVE  AccountInv'
<1>1. ASSUME NEW lt \in LeaveTypes
      PROVE  Explained(lt, balance[lt])' /\ Explained(lt, cache[lt])'
  <2>1. /\ balance[lt] \in Rows \cup {NoRow} /\ cache[lt] \in Rows \cup {NoRow}
        /\ Explained(lt, balance[lt]) /\ Explained(lt, cache[lt])
    BY <1>1 DEF TypeOK, AccountInv
  <2>2. /\ balance'[lt] = balance[lt] => Explained(lt, balance[lt])'
        /\ cache'[lt] = cache[lt] => Explained(lt, cache[lt])'
    BY <1>1, <2>1, StillExplained DEF Explained
  <2>3. QED
    BY <1>1, <2>2
<1>2. ASSUME NEW q \in Slots
      PROVE  /\ call'[q] # NoCall => Explained(Leave(q), row[q])'
             /\ call'[q] = NoCall => row'[q] = NoRow
  <2>1. CASE q = p
    BY <1>2, <2>1 DEF Explained
  <2>2. CASE q # p
    <3>1. call'[q] = call[q] /\ row'[q] = row[q] /\ row[q] \in Rows \cup {NoRow}
      BY <1>2, <2>2 DEF TypeOK
    <3>2. CASE call[q] # NoCall
      <4>1. Leave(q) \in LeaveTypes /\ Explained(Leave(q), row[q])
        BY <1>2, <3>2, CallShape DEF TypeOK, Leave, AccountInv
      <4>2. QED
        BY <3>1, <3>2, <4>1, StillExplained DEF Explained, Leave
    <3>3. CASE call[q] = NoCall
      BY <1>2, <3>1, <3>3 DEF AccountInv
    <3>4. QED
      BY <3>2, <3>3
  <2>3. QED
    BY <2>1, <2>2
<1>3. QED
  BY <1>1, <1>2 DEF AccountInv

\* Every step of a handler keeps the account.
LEMMA AccountStep ==
    ASSUME TypeInv, TypeInv', AccountInv, NEW p \in Slots, Step(p) PROVE AccountInv'
<1>t. TypeOK /\ HoldsRow
  BY DEF TypeInv
<1>n. TypeOK'
  BY DEF TypeInv
<1>b. call[p] # NoCall /\ Leave(p) \in LeaveTypes
  <2>1. pc[p] # "idle"
    BY DEF Step, DimRead, HcmAnswer, Insert, Lookup, BalRead, Fill, CreateSave,
           AuditLog, ReadReq, RefreshRead, RefreshSave, RefreshFill, DeductRead,
           DeductSave, DeductInvalidate, RefundRead, RefundSave, RefundInvalidate,
           Invalidate, SaveReq
  <2>2. call[p] # NoCall
    BY <1>t, <2>1 DEF TypeOK, NoCall, StepsOf
  <2>3. QED
    BY <1>t, <2>1, <2>2, Busy
<1>w. /\ Explained(Leave(p), row[p]) /\ Explained(Leave(p), balance[Leave(p)])
      /\ row[p] \in Rows \cup {NoRow} /\ balance[Leave(p)] \in Rows \cup {NoRow}
  BY <1>b, <1>t DEF AccountInv, TypeOK
\* A write of the balance that accounts for what it moves.
<1>m. ASSUME Accrue, UNCHANGED <<cache, call, row>>,
             NEW b, Explained(Leave(p), b)', balance' = [balance EXCEPT ![Leave(p)] = b]
      PROVE  AccountInv'
  <2>1. Explained(Leave(p), row[p])'
    <3>1. ASSUME NEW lt \in LeaveTypes, NEW c \in Rows \cup {NoRow}, Explained(lt, c)
          PROVE  Explained(lt, c)'
      BY <1>m, <1>t, <1>n, <3>1, StillExplained
    <3>2. row'[p] = row[p] /\ Leave(p)' = Leave(p)
      BY <1>m DEF Leave
    <3>3. QED
      BY <1>b, <1>w, <3>1, <3>2 DEF Explained
  <2>2. \A lt \in LeaveTypes : balance'[lt] = balance[lt] \/ Explained(lt, balance[lt])'
    BY <1>b, <1>m, <1>t DEF TypeOK, Explained, Leave
  <2>3. QED
    BY <1>b, <1>m, <1>t, <1>n, <2>1, <2>2, AccountEffects
<1>1. CASE DeductSave(p) /\ ~UNCHANGED history
  <2>1. row[p] \in Rows /\ Days(p) \in Nat
    <3>1. call[p].kind = "approve" /\ pc[p] # "idle"
      BY <1>1, <1>t, StepKinds DEF DeductSave, TypeOK, ApproveSteps
    <3>2. QED
      BY <1>1, <1>t, <3>1, Busy DEF DeductSave, HoldsRow
  <2>2. Debit(p) /\ UNCHANGED <<cache, call, row>>
        /\ balance' = [balance EXCEPT ![Leave(p)] = Deducted(row[p], Days(p))]
    BY <1>1 DEF DeductSave, regs
  <2>3. /\ Accrue
        /\ debited'[Leave(p)] = debited[Leave(p)] + Days(p)
        /\ credited'[Leave(p)] = credited[Leave(p)]
    BY <1>b, <1>t, <2>1, <2>2 DEF Debit, Accrue, TypeOK
  <2>4. Explained(Leave(p), Deducted(row[p], Days(p)))'
    <3>1. ASSUME NEW lt \in LeaveTypes, NEW b \in Rows, NEW d \in Nat,
                 lt = Leave(p), b = row[p], d = Days(p)
          PROVE  Explained(lt, Deducted(b, d))'
      BY <1>t, <1>w, <2>3, <3>1, DeductedExplained
    <3>2. QED
      BY <1>b, <2>1, <2>2, <3>1 DEF Explained, Leave, Days, Deducted
  <2>5. QED
    BY <1>m, <2>2, <2>3, <2>4 DEF Leave, Days
<1>2. CASE RefundSave(p)
  <2>1. row[p] \in Rows /\ Days(p) \in Nat
    <3>1. call[p].kind = "cancel" /\ pc[p] # "idle"
      BY <1>2, <1>t, StepKinds DEF RefundSave, TypeOK, CancelSteps
    <3>2. QED
      BY <1>2, <1>t, <3>1, Busy DEF RefundSave, HoldsRow
  <2>2. Credit(p) /\ UNCHANGED <<cache, call, row>>
        /\ balance' = [balance EXCEPT ![Leave(p)] = Refunded(row[p], Days(p))]
    BY <1>2 DEF RefundSave, regs
  <2>3. /\ Accrue
        /\ debited'[Leave(p)] = debited[Leave(p)]
        /\ credited'[Leave(p)] = credited[Leave(p)] + Days(p)
    BY <1>b, <1>t, <2>1, <2>2 DEF Credit, Accrue, TypeOK
  <2>4. Explained(Leave(p), Refunded(row[p], Days(p)))'
    <3>1. ASSUME NEW lt \in LeaveTypes, NEW b \in Rows, NEW d \in Nat,
                 lt = Leave(p), b = row[p], d = Days(p)
          PROVE  Explained(lt, Refunded(b, d))'
      BY <1>t, <1>w, <2>3, <3>1, RefundedExplained
    <3>2. QED
      BY <1>b, <2>1, <2>2, <3>1 DEF Explained, Leave, Days, Refunded
  <2>5. QED
    BY <1>m, <2>2, <2>3, <2>4 DEF Leave, Days

\* The rest writes copies of rows or what the HCM answered.
<1>h. CASE UNCHANGED history /\ ~RefundSave(p)
  <2>a. Accrue
    BY <1>h, <1>t DEF Accrue, history, TypeOK
  <2>w. \A b \in {row[p], balance[Leave(p)], Hydrated(Leave(p))} :
            \A lt : lt = Leave(p) => Explained(lt, b)'
    <3>1. \A b : Explained(Leave(p), b) =>
                    \A lt : lt = Leave(p) => Explained(lt, b)'
      BY <1>h DEF Explained, history
    <3>2. Explained(Leave(p), Hydrated(Leave(p)))
      BY <1>b, <1>t, HydratedExplained
    <3>3. QED
      BY <1>w, <3>1, <3>2
  <2>n. \A lt : Explained(lt, NoRow)'
    BY DEF Explained
  \* What the step writes and what the handler holds is one of these rows.
  <2>d. ASSUME \/ UNCHANGED balance
               \/ \E b \in {row[p], balance[Leave(p)], Hydrated(Leave(p))} :
                     balance' = [balance EXCEPT ![Leave(p)] = b],
               \/ UNCHANGED cache
               \/ cache' = [lt \in LeaveTypes |-> NoRow]
               \/ cache' = [cache EXCEPT ![Leave(p)] = row[p]],
               \/ \E a : Finish(p, a)
               \/ /\ UNCHANGED call
                  /\ \/ UNCHANGED row
                     \/ \E b \in {row[p], balance[Leave(p)], Hydrated(Leave(p))} :
                           row' = [row EXCEPT ![p] = b]
        PROVE  AccountInv'
    <3>1. \A lt \in LeaveTypes : balance'[lt] = balance[lt] \/ Explained(lt, balance[lt])'
      BY <2>d, <2>w, <1>t DEF TypeOK, Explained
    <3>2. \A lt \in LeaveTypes : cache'[lt] = cache[lt] \/ Explained(lt, cache[lt])'
      BY <2>d, <2>w, <2>n, <1>t DEF TypeOK, Explained
    <3>3. /\ \A q \in Slots : q # p => call'[q] = call[q] /\ row'[q] = row[q]
          /\ row'[p] = NoRow \/ (call'[p] # NoCall /\ Explained(Leave(p), row[p])')
      <4>1. CASE \E a : Finish(p, a)
        <5>1. /\ row \in [Slots -> Rows \cup {NoRow}]
              /\ call \in [Slots -> GetCalls \cup RequestCalls \cup {NoCall}]
          BY <1>t DEF TypeOK
        <5>2. /\ row' = [row EXCEPT ![p] = NoRow]
              /\ call' = [call EXCEPT ![p] = NoCall]
          BY <4>1 DEF Finish
        <5>3. QED
          BY <5>1, <5>2
      <4>2. CASE /\ UNCHANGED call
                 /\ \/ UNCHANGED row
                    \/ \E b \in {row[p], balance[Leave(p)], Hydrated(Leave(p))} :
                          row' = [row EXCEPT ![p] = b]
        <5>1. /\ \A q \in Slots : q # p => row'[q] = row[q]
              /\ row'[p] \in {row[p], balance[Leave(p)], Hydrated(Leave(p))}
          BY <4>2, <1>t DEF TypeOK
        <5>2. QED
          <6>1. Leave(p)' = Leave(p) /\ call'[p] # NoCall
            BY <1>b, <4>2 DEF Leave
          <6>2. QED
            BY <2>w, <4>2, <5>1, <6>1 DEF Explained
      <4>3. QED
        BY <2>d, <4>1, <4>2
    <3>4. QED
      BY <1>t, <1>n, <2>a, <3>1, <3>2, <3>3, AccountEffects
  <2>1. CASE DimRead(p) \/ HcmAnswer(p) \/ CreateSave(p) \/ RefundInvalidate(p)
                \/ DeductInvalidate(p)
    BY <2>1, <2>d DEF DimRead, HcmAnswer, CreateSave, RefundInvalidate,
                      DeductInvalidate, Invalidate, tables, regs
  <2>2. CASE Insert(p)
    BY <2>2, <2>d DEF Insert, HydrationFailed
  <2>3. CASE Lookup(p) \/ Fill(p)
    BY <2>3, <2>d DEF Lookup, Fill, UseBalance, tables, regs
  <2>4. CASE BalRead(p) \/ RefreshRead(p) \/ DeductRead(p) \/ RefundRead(p)
    BY <2>4, <2>d DEF BalRead, RefreshRead, DeductRead, RefundRead, FindRow, tables
  <2>5. CASE AuditLog(p) \/ ReadReq(p) \/ SaveReq(p)
    BY <2>5, <2>d DEF AuditLog, ReadReq, SaveReq, RetryOrGiveUp, tables, regs
  <2>6. CASE RefreshSave(p) \/ RefreshFill(p)
    BY <2>6, <2>d DEF RefreshSave, RefreshFill, tables, regs
  <2>7. CASE DeductSave(p)
    <3>1. ~Debit(p)
      <4>1. call[p].kind = "approve" /\ pc[p] # "idle"
        BY <1>t, <2>7, StepKinds DEF DeductSave, TypeOK, ApproveSteps
      <4>2. Req(p) \in Requests
        BY <1>t, <4>1, Busy
      <4>3. QED
        BY <1>h, <1>t, <4>2 DEF Debit, TypeOK, history
    <3>2. Finish(p, "error") /\ UNCHANGED <<balance, cache>>
      BY <2>7, <3>1 DEF DeductSave
    <3>3. QED
      BY <2>d, <3>2
  <2>8. QED
    BY <1>h, <2>1, <2>2, <2>3, <2>4, <2>5, <2>6, <2>7 DEF Step
<1>3. UNCHANGED history \/ DeductSave(p) \/ RefundSave(p)
  BY DEF Step, DimRead, HcmAnswer, Insert, Lookup, BalRead, Fill, CreateSave, AuditLog,
         ReadReq, RefreshRead, RefreshSave, RefreshFill, DeductRead, DeductInvalidate,
         RefundRead, RefundInvalidate, Invalidate, SaveReq
<1>4. QED
  BY <1>1, <1>2, <1>3, <1>h

\* Every step keeps the account.
LEMMA AccountNext ==
    ASSUME TypeInv, TypeInv', AccountInv, [Next]_vars PROVE AccountInv'
<1>t. TypeOK
  BY DEF TypeInv
<1>n. TypeOK'
  BY DEF TypeInv
<1>1. ASSUME NEW p \in Slots, Step(p) PROVE AccountInv'
  BY <1>1, AccountStep
<1>2. ASSUME UNCHANGED history PROVE Accrue
  BY <1>2, <1>t DEF Accrue, history, TypeOK
<1>3. ASSUME NEW p \in Slots, Start(p) PROVE AccountInv'
  <2>1. PICK c, s : Begin(p, c, s)
    BY <1>3 DEF Start, StartGet, StartCreate, StartDecision
  <2>2. call[p] = NoCall
    <3>1. call[p].kind \notin {"get", "create"} \cup DecisionKinds
      BY <1>t, <2>1, StepKinds DEF Begin, TypeOK, DecisionKinds
    <3>2. QED
      BY <1>t, <3>1, CallShape DEF TypeOK
  <2>3. /\ UNCHANGED <<balance, cache, row, history>>
        /\ \A q \in Slots : q # p => call'[q] = call[q]
    BY <1>t, <2>1 DEF Begin, tables, TypeOK
  <2>4. row'[p] = NoRow
    BY <2>2, <2>3 DEF AccountInv
  <2>5. Accrue
    BY <1>2, <2>3
  <2>6. QED
    BY <1>t, <1>n, <2>3, <2>4, <2>5, AccountEffects
<1>4. ASSUME NEW p \in Slots, Fault(p) PROVE AccountInv'
  <2>1. PICK a : Finish(p, a)
    BY <1>4 DEF Fault, HydrationFailed
  <2>2. UNCHANGED <<balance, cache, history>>
    BY <1>4 DEF Fault, tables
  <2>3. row'[p] = NoRow /\ \A q \in Slots : q # p => call'[q] = call[q] /\ row'[q] = row[q]
    BY <1>t, <2>1 DEF Finish, TypeOK
  <2>4. Accrue
    BY <1>2, <2>2
  <2>5. QED
    BY <1>t, <1>n, <2>2, <2>3, <2>4, AccountEffects
<1>5. ASSUME NEW lt \in LeaveTypes, Expire(lt) PROVE AccountInv'
  BY <1>5 DEF Expire, tables, regs, history, TypeInv, TypeOK, AccountInv, Explained, Leave
<1>6. CASE Crash
  BY <1>6 DEF Crash, tables, history, AccountInv, Explained
<1>7. CASE UNCHANGED vars
  BY <1>7 DEF vars, tables, regs, history, AccountInv, Explained, Leave
<1>8. QED
  BY <1>1, <1>3, <1>4, <1>5, <1>6, <1>7 DEF Next

\* Whatever is overwritten by whom, no deduction and no refund counts twice.
THEOREM RequestsDaysAccountedFor == Spec => []DaysAccountedFor
<1>1. Init => AccountInv
  BY DEF Init, AccountInv, Explained
<1>2. AccountInv => DaysAccountedFor
  BY DEF AccountInv, Explained, DaysAccountedFor
<1>3. QED
  BY <1>1, <1>2, AccountNext, TypeInvariant, PTL DEF Spec

=============================================================================
