--------------------- MODULE RequestsImplementLedgerProofs ---------------------
(***************************************************************************)
(* What one decision per leave type at a time guarantees: the deduction is  *)
(* covered, no update of a balance is lost, the lifecycle is kept even by a  *)
(* save() that checks no version, and, without failures, the service is the  *)
(* ledger its clients see.                                                 *)
(***************************************************************************)
EXTENDS RequestsImplementLedger, LedgerProofs, FiniteSetTheorems

-----------------------------------------------------------------------------
(* One decision at a time.                                                   *)

Decides(p) == call[p].kind \in DecisionKinds

\* The guard of StartDecision as a fact about the handlers.
OneDecision ==
    \A p, q \in Slots : Decides(p) /\ Decides(q) /\ Leave(p) = Leave(q) => p = q

\* A decision's entity is the row: nobody else writes it meanwhile.
HeldCurrent(p) ==
    /\ pc[p] \in {"refreshSave", "refreshFill", "deductSave", "refundSave"}
          => row[p] = balance[Leave(p)]
    /\ pc[p] \in {"deductRead", "deductSave"}
          => balance[Leave(p)] # NoRow /\ Days(p) <= balance[Leave(p)].available

\* What a decision has read of its request is still so.
ReadCurrent(p) ==
    Decides(p) /\ pc[p] \in Midway =>
        /\ reqs[Req(p)].status = Source(call[p].kind)
        /\ seen[p] = reqs[Req(p)].version

DecisionInv ==
    /\ OneDecision
    /\ \A p \in Slots : HeldCurrent(p) /\ CreateAlone(p) /\ ReadCurrent(p)

\* What a step of p does to the registers: the others keep theirs, and p goes
\* on with its call or ends it.
Mine(p) ==
    /\ \A q \in Slots : q # p =>
          /\ pc'[q] = pc[q] /\ call'[q] = call[q]
          /\ seen'[q] = seen[q] /\ row'[q] = row[q]
    /\ \/ call'[p] = call[p]
       \/ call'[p] = NoCall /\ pc'[p] = "idle"

\* Moving one handler on.
LEMMA GotoMine ==
    ASSUME TypeOK, NEW p \in Slots, NEW s, Goto(p, s), UNCHANGED <<call, seen>>,
           UNCHANGED row \/ \E b : row' = [row EXCEPT ![p] = b]
    PROVE  Mine(p) /\ pc'[p] = s /\ call'[p] = call[p] /\ seen'[p] = seen[p]
BY DEF TypeOK, Goto, Mine

\* Answering its call.
LEMMA FinishMine ==
    ASSUME TypeOK, NEW p \in Slots, NEW a, Finish(p, a)
    PROVE  Mine(p) /\ pc'[p] = "idle" /\ call'[p] = NoCall
BY DEF TypeOK, Finish, Mine

\* findByDimensions ends the call, or hands the handler the row there is.
LEMMA FindRowMine ==
    ASSUME TypeOK, NEW p \in Slots, NEW s, FindRow(p, s)
    PROVE  /\ Mine(p)
           /\ \/ pc'[p] = "idle" /\ call'[p] = NoCall
              \/ /\ pc'[p] = s /\ call'[p] = call[p] /\ seen'[p] = seen[p]
                 /\ balance[Leave(p)] # NoRow
                 /\ row'[p] = balance[Leave(p)]
<1>1. CASE balance[Leave(p)] = NoRow
  BY <1>1, FinishMine DEF FindRow
<1>2. CASE balance[Leave(p)] # NoRow
  BY <1>2, GotoMine DEF FindRow, TypeOK
<1>3. QED
  BY <1>1, <1>2

\* A handler without a call has nothing to keep.
LEMMA IdleKeeps ==
    ASSUME NEW p \in Slots, call'[p] = NoCall, pc'[p] = "idle"
    PROVE  /\ ~Decides(p)'
           /\ (HeldCurrent(p) /\ CreateAlone(p) /\ ReadCurrent(p))'
BY CallShape DEF Decides, DecisionKinds, HeldCurrent, CreateAlone, ReadCurrent

\* The parts of the invariant that are about the calls alone.
LEMMA MineOne ==
    ASSUME DecisionInv, NEW p \in Slots, Mine(p) PROVE OneDecision'
<1>1. \A q \in Slots : Decides(q)' => Decides(q) /\ call'[q] = call[q]
  BY CallShape DEF Mine, Decides, DecisionKinds
<1>2. QED
  BY <1>1 DEF DecisionInv, OneDecision, Leave

\* What p writes leaves the others' part of the invariant alone: a request p
\* writes is not another's, and a row p writes is held by no other decision.
LEMMA MineOthers ==
    ASSUME TypeInv, DecisionInv, NEW p \in Slots, Mine(p),
           \/ UNCHANGED reqs
           \/ /\ Req(p) \in Requests
              /\ \A r \in Requests : r # Req(p) => reqs'[r] = reqs[r]
              /\ \/ call[p].kind = "create" /\ reqs[Req(p)].status = "NONE"
                 \/ Decides(p) /\ reqs[Req(p)].status # "NONE",
           \A lt \in LeaveTypes :
              \/ balance'[lt] = balance[lt]
              \/ lt = Leave(p) /\ (Decides(p) \/ balance[lt] = NoRow),
           NEW q \in Slots, q # p
    PROVE  (HeldCurrent(q) /\ CreateAlone(q) /\ ReadCurrent(q))'
<1> USE DEF TypeInv
<1>q. pc'[q] = pc[q] /\ call'[q] = call[q] /\ seen'[q] = seen[q] /\ row'[q] = row[q]
  BY DEF Mine
<1>i. HeldCurrent(q) /\ CreateAlone(q) /\ ReadCurrent(q)
  BY DEF DecisionInv
<1>1. HeldCurrent(q)'
  <2>1. SUFFICES ASSUME pc[q] \in {"refreshSave", "refreshFill", "deductRead",
                                   "deductSave", "refundSave"}
                 PROVE  balance'[Leave(q)] = balance[Leave(q)]
    BY <1>q, <1>i DEF HeldCurrent, Leave, Days
  <2>2. Decides(q) /\ Leave(q) \in LeaveTypes
    BY <2>1, StepKinds, Busy DEF TypeOK, ApproveSteps, CancelSteps, Decides, DecisionKinds
  <2>3. balance[Leave(q)] # NoRow
    BY <1>i, <2>1, NoValueAssumption DEF HeldCurrent, HoldsRow
  <2>4. QED
    BY <2>2, <2>3 DEF DecisionInv, OneDecision
<1>2. CreateAlone(q)'
  <2>1. SUFFICES ASSUME call[q].kind = "create" PROVE CreateAlone(q)'
    BY <1>q DEF CreateAlone
  <2>2. Req(q) \in Requests
    BY <2>1, ReqOf
  <2>3. call[p].kind = "create" => Req(p) # Req(q)
    BY <1>i, <2>1 DEF CreateAlone
  <2>4. pc'[q] # "audit" => reqs'[Req(q)].status = "NONE"
    BY <1>q, <1>i, <2>1, <2>2, <2>3 DEF CreateAlone
  <2>5. \A s \in Slots : call'[s].kind = "create" /\ call'[s].req = Req(q) => s = q
    BY <1>i, <2>1, CallShape DEF Mine, CreateAlone, Req
  <2>6. QED
    BY <1>q, <2>4, <2>5 DEF CreateAlone, Req
<1>3. ReadCurrent(q)'
  <2>1. SUFFICES ASSUME Decides(q), pc[q] \in Midway PROVE reqs'[Req(q)] = reqs[Req(q)]
    BY <1>q, <1>i DEF ReadCurrent, Decides, Req
  <2>2. Req(q) \in Requests /\ Leave(q) = LeaveOf[Req(q)]
    BY <2>1, CallShape DEF TypeOK, Req, Leave, Decides, DecisionKinds
  <2>3. reqs[Req(q)].status # "NONE"
    BY <1>i, <2>1 DEF ReadCurrent, Source
  <2>4. Decides(p) => Leave(p) = LeaveOf[Req(p)]
    BY CallShape DEF TypeOK, Req, Leave, Decides, DecisionKinds
  <2>5. Decides(p) => Req(p) # Req(q)
    BY <2>1, <2>2, <2>4 DEF DecisionInv, OneDecision
  <2>6. QED
    BY <2>2, <2>3, <2>5
<1>4. QED
  BY <1>1, <1>2, <1>3

\* At most one decision is there, so a count below one says there is none.
LEMMA NoneDeciding ==
    ASSUME MaxDecisions <= 1, OneDecision, NEW lt, Cardinality(Deciding(lt)) < MaxDecisions
    PROVE  Deciding(lt) = {}
<1>1. ASSUME NEW q \in Deciding(lt) PROVE FALSE
  <2>1. Deciding(lt) = {q}
    BY <1>1 DEF Deciding, OneDecision, Decides
  <2>2. Cardinality(Deciding(lt)) = 1
    BY <2>1, FS_Singleton
  <2>3. QED
    BY <2>2, BoundsAssumption
<1>2. QED
  BY <1>1

\* A call arrives.
LEMMA StartDecides ==
    ASSUME MaxDecisions <= 1, TypeInv, DecisionInv, NEW p \in Slots, Start(p)
    PROVE  DecisionInv'
<1> USE DEF TypeInv
<1>1. PICK c \in GetCalls \cup RequestCalls, s \in {"lookup", "dimRead", "readReq"} :
        /\ Begin(p, c, s)
        /\ c.kind = "create" => /\ c \in RequestCalls
                                /\ reqs[c.req].status = "NONE"
                                /\ \A q \in Slots : call[q] # c
        /\ c.kind \in DecisionKinds => Deciding(c.leave) = {}
  BY CallShape, NoneDeciding DEF Start, StartGet, StartCreate, StartDecision, DecisionKinds,
     DecisionInv
<1>2. /\ \A q \in Slots : q # p => pc'[q] = pc[q] /\ call'[q] = call[q]
      /\ pc'[p] = s /\ call'[p] = c
      /\ UNCHANGED <<reqs, balance, seen, row>>
  BY <1>1 DEF Begin, Goto, TypeOK, tables
<1>3. s \notin Midway /\ s \notin {"audit", "refreshSave", "refreshFill", "deductRead",
                                   "deductSave", "refundSave"}
  BY DEF Midway, ApproveSteps, CancelSteps
<1>4. ASSUME c.kind = "create", NEW q \in Slots, q # p, call[q].kind = "create"
      PROVE  Req(q) # c.req
  <2>1. call[q] \in RequestCalls
    BY <1>4, CallShape DEF TypeOK
  <2>2. QED
    BY <1>1, <1>4, <2>1 DEF RequestCalls, Req
<1>5. OneDecision'
  <2>1. \A q \in Slots : q # p /\ Decides(q) /\ c.kind \in DecisionKinds => Leave(q) # c.leave
    BY <1>1 DEF Deciding, Decides
  <2>2. QED
    BY <1>2, <2>1 DEF DecisionInv, OneDecision, Decides, Leave
<1>6. (HeldCurrent(p) /\ ReadCurrent(p))'
  BY <1>2, <1>3 DEF HeldCurrent, ReadCurrent
<1>7. CreateAlone(p)'
  BY <1>1, <1>2, <1>4 DEF CreateAlone, Req
<1>8. ASSUME NEW q \in Slots, q # p
      PROVE  (HeldCurrent(q) /\ CreateAlone(q) /\ ReadCurrent(q))'
  <2>1. HeldCurrent(q) /\ CreateAlone(q) /\ ReadCurrent(q)
    BY DEF DecisionInv
  <2>2. (HeldCurrent(q) /\ ReadCurrent(q))'
    BY <1>2, <1>8, <2>1 DEF HeldCurrent, ReadCurrent, Leave, Days, Decides, Req
  <2>3. CreateAlone(q)'
    BY <1>2, <1>4, <1>8, <2>1 DEF CreateAlone, Req
  <2>4. QED
    BY <2>2, <2>3
<1>9. QED
  BY <1>5, <1>6, <1>7, <1>8 DEF DecisionInv

\* What is left to show of a step of p that leaves the requests alone and
\* writes no other balance than it may: p's own part about balance and request.
LEMMA OwnPart ==
    ASSUME TypeInv, DecisionInv, NEW p \in Slots, Mine(p), UNCHANGED reqs,
           pc[p] # "audit",
           \A lt \in LeaveTypes :
              \/ balance'[lt] = balance[lt]
              \/ lt = Leave(p) /\ (Decides(p) \/ balance[lt] = NoRow),
           pc'[p] # "idle" => (HeldCurrent(p) /\ ReadCurrent(p))'
    PROVE  DecisionInv'
<1>1. OneDecision'
  BY MineOne
<1>2. (HeldCurrent(p) /\ ReadCurrent(p))'
  BY DEF HeldCurrent, ReadCurrent, Midway, ApproveSteps, CancelSteps
<1>3. CreateAlone(p)'
  BY CallShape DEF DecisionInv, Mine, CreateAlone, Req
<1>4. QED
  BY <1>1, <1>2, <1>3, MineOthers DEF DecisionInv

\* The steps that validateDimensions, getBalance and the hydration go on to.
FetchNext == {"hcm", "lookup", "insert", "balRead", "fill", "createSave", "idle"}

\* The steps of getBalance and of hydration, by themselves.
LEMMA FetchMine ==
    ASSUME TypeInv, NEW p \in Slots,
           DimRead(p) \/ HcmAnswer(p) \/ Insert(p) \/ Lookup(p) \/ BalRead(p) \/ Fill(p)
    PROVE  Mine(p) /\ pc'[p] \in FetchNext
<1> USE DEF TypeInv, FetchNext
<1>1. ASSUME NEW b, UseBalance(p, b) PROVE Mine(p) /\ pc'[p] \in {"createSave", "idle"}
  BY <1>1, GotoMine, FinishMine DEF UseBalance, regs
<1>2. CASE Lookup(p) \/ Fill(p)
  BY <1>1, <1>2, GotoMine DEF Lookup, Fill, regs
<1>3. CASE DimRead(p) \/ HcmAnswer(p) \/ BalRead(p)
  BY <1>3, GotoMine DEF DimRead, HcmAnswer, BalRead, regs
<1>4. CASE Insert(p)
  BY <1>4, GotoMine, FinishMine DEF Insert, HydrationFailed
<1>5. QED
  BY <1>2, <1>3, <1>4

\* validateDimensions, getBalance and the hydration.
LEMMA FetchDecides ==
    ASSUME TypeInv, DecisionInv, NEW p \in Slots,
           DimRead(p) \/ HcmAnswer(p) \/ Insert(p) \/ Lookup(p) \/ BalRead(p) \/ Fill(p)
    PROVE  DecisionInv'
<1> USE DEF TypeInv
<1>k. pc[p] # "audit" /\ call[p].kind \in {"get", "create"} /\ Leave(p) \in LeaveTypes
  <2>1. pc[p] \in {"dimRead", "hcm", "insert", "lookup", "balRead", "fill"}
    BY DEF DimRead, HcmAnswer, Insert, Lookup, BalRead, Fill
  <2>2. QED
    BY <2>1, StepKinds, Busy DEF TypeOK
<1>1. Mine(p) /\ pc'[p] \in FetchNext
  BY FetchMine
<1>2. UNCHANGED reqs
  BY DEF DimRead, HcmAnswer, Insert, Lookup, BalRead, Fill, tables
<1>3. \A lt \in LeaveTypes :
        balance'[lt] = balance[lt] \/ (lt = Leave(p) /\ balance[lt] = NoRow)
  <2>1. \/ UNCHANGED balance
        \/ /\ balance[Leave(p)] = NoRow
           /\ \E b : balance' = [balance EXCEPT ![Leave(p)] = b]
    <3>1. CASE Insert(p)
      BY <3>1 DEF Insert
    <3>2. CASE DimRead(p) \/ HcmAnswer(p) \/ Lookup(p) \/ BalRead(p) \/ Fill(p)
      BY <3>2 DEF DimRead, HcmAnswer, Lookup, BalRead, Fill, tables
    <3>3. QED
      BY <3>1, <3>2
  <2>2. DOMAIN balance = LeaveTypes
    BY DEF TypeOK
  <2>3. QED
    BY <2>1, <2>2
<1>4. (HeldCurrent(p) /\ ReadCurrent(p))'
  BY <1>1 DEF FetchNext, HeldCurrent, ReadCurrent, Midway, ApproveSteps, CancelSteps
<1>5. QED
  BY <1>k, <1>1, <1>2, <1>3, <1>4, OwnPart

\* refreshBalance, updateUsedBalance and refundBalance: the row read is the row
\* written, for nobody else decides on this leave type.
LEMMA BalanceDecides ==
    ASSUME TypeInv, DecisionInv, NEW p \in Slots,
           \/ RefreshRead(p) \/ RefreshSave(p) \/ RefreshFill(p)
           \/ DeductRead(p) \/ DeductSave(p) \/ DeductInvalidate(p)
           \/ RefundRead(p) \/ RefundSave(p) \/ RefundInvalidate(p)
    PROVE  DecisionInv'
<1> USE DEF TypeInv
<1>s. pc[p] \in ApproveSteps \cup CancelSteps /\ pc[p] \notin {"audit", "idle"}
  BY DEF RefreshRead, RefreshSave, RefreshFill, DeductRead, DeductSave,
         DeductInvalidate, RefundRead, RefundSave, RefundInvalidate, Invalidate,
         ApproveSteps, CancelSteps
<1>k. Decides(p) /\ Leave(p) \in LeaveTypes /\ pc[p] \in Midway
  BY <1>s, StepKinds, Busy DEF TypeOK, Decides, DecisionKinds, Midway
<1>i. HeldCurrent(p) /\ ReadCurrent(p)
  BY DEF DecisionInv
<1>r. UNCHANGED reqs
  BY DEF RefreshRead, RefreshSave, RefreshFill, DeductRead, DeductSave,
         DeductInvalidate, RefundRead, RefundSave, RefundInvalidate, Invalidate, tables
<1>b. \A lt \in LeaveTypes : balance'[lt] = balance[lt] \/ (lt = Leave(p) /\ Decides(p))
  BY <1>k DEF RefreshRead, RefreshSave, RefreshFill, DeductRead, DeductSave,
              DeductInvalidate, RefundRead, RefundSave, RefundInvalidate, Invalidate,
              tables, TypeOK
\* Moving on keeps what was read of the request.
<1>g. ASSUME Mine(p), call'[p] = call[p], seen'[p] = seen[p] PROVE ReadCurrent(p)'
  BY <1>k, <1>i, <1>r, <1>g DEF ReadCurrent, Decides, Req
<1>f. ASSUME NEW s \in {"refreshSave", "deductSave", "refundSave"},
             FindRow(p, s), UNCHANGED balance, s = "deductSave" => pc[p] = "deductRead"
      PROVE  DecisionInv'
  <2>1. CASE pc'[p] = "idle"
    BY <1>s, <1>r, <1>f, <2>1, FindRowMine, OwnPart
  <2>2. CASE pc'[p] = s /\ call'[p] = call[p] /\ seen'[p] = seen[p]
             /\ row'[p] = balance[Leave(p)]
    <3>1. HeldCurrent(p)'
      BY <1>i, <1>f, <2>2 DEF HeldCurrent, Leave, Days
    <3>2. QED
      BY <1>s, <1>r, <1>g, <1>f, <2>2, <3>1, FindRowMine, OwnPart
  <2>3. QED
    BY <1>f, <2>1, <2>2, FindRowMine
<1>m. ASSUME NEW s, Goto(p, s), UNCHANGED regs,
             /\ s = "refreshFill" => row[p] = balance'[Leave(p)]
             /\ s = "deductRead" => balance'[Leave(p)] # NoRow
                                      /\ Days(p) <= balance'[Leave(p)].available,
             s \notin {"refreshSave", "deductSave", "refundSave"}
      PROVE  DecisionInv'
  <2>1. Mine(p) /\ pc'[p] = s /\ call'[p] = call[p] /\ seen'[p] = seen[p] /\ row'[p] = row[p]
    BY <1>m, GotoMine DEF regs
  <2>2. HeldCurrent(p)'
    BY <1>m, <2>1 DEF HeldCurrent, Leave, Days
  <2>3. QED
    BY <1>s, <1>r, <1>b, <1>g, <2>1, <2>2, OwnPart
<1>1. CASE RefreshRead(p) \/ DeductRead(p) \/ RefundRead(p)
  BY <1>1, <1>f DEF RefreshRead, DeductRead, RefundRead, tables
<1>2. CASE RefreshSave(p)
  BY <1>2, <1>k, <1>m DEF RefreshSave, TypeOK
<1>3. CASE RefreshFill(p)
  <2>1. CASE Finish(p, "insufficient")
    BY <1>s, <1>r, <1>b, <2>1, FinishMine, OwnPart
  <2>2. CASE ~(row[p].available < Days(p)) /\ Goto(p, "deductRead") /\ UNCHANGED regs
    <3>1. row[p] = balance[Leave(p)] /\ row[p] \in Rows /\ UNCHANGED balance
      BY <1>3, <1>i DEF RefreshFill, HeldCurrent, HoldsRow, tables
    <3>2. Days(p) \in Nat
      BY <1>s, <1>k, Busy DEF Decides, DecisionKinds
    <3>3. balance'[Leave(p)] # NoRow /\ Days(p) <= balance'[Leave(p)].available
      BY <2>2, <3>1, <3>2, NoValueAssumption DEF Rows
    <3>4. QED
      BY <2>2, <3>3, <1>m
  <2>3. QED
    BY <1>3, <2>1, <2>2 DEF RefreshFill
<1>4. CASE DeductSave(p)
  <2>1. CASE Finish(p, "error")
    BY <1>s, <1>r, <1>b, <2>1, FinishMine, OwnPart
  <2>2. CASE Goto(p, "deductInvalidate") /\ UNCHANGED regs
    BY <2>2, <1>m
  <2>3. QED
    BY <1>4, <2>1, <2>2 DEF DeductSave
<1>5. CASE RefundSave(p) \/ DeductInvalidate(p) \/ RefundInvalidate(p)
  BY <1>5, <1>m DEF RefundSave, DeductInvalidate, RefundInvalidate, Invalidate
<1>6. QED
  BY <1>1, <1>2, <1>3, <1>4, <1>5

\* A decision goes on only from the status it starts from.
LEMMA ReadReqDecides ==
    ASSUME TypeInv, DecisionInv, NEW p \in Slots, ReadReq(p) PROVE DecisionInv'
<1>k. pc[p] # "audit" /\ Decides(p)
  BY StepKinds DEF ReadReq, TypeInv, TypeOK, Decides
<1>1. UNCHANGED <<reqs, balance>>
  BY DEF ReadReq, tables
<1>2. CASE \E a \in {"notFound", "invalidState"} : Finish(p, a)
  BY <1>k, <1>1, <1>2, FinishMine, OwnPart DEF TypeInv
<1>3. CASE ~\E a \in {"notFound", "invalidState"} : Finish(p, a)
  <2>1. /\ reqs[Req(p)].status = Source(call[p].kind)
        /\ pc'[p] = AfterRead(call[p].kind)
        /\ seen'[p] = reqs[Req(p)].version
        /\ call'[p] = call[p] /\ Mine(p)
    BY <1>3 DEF ReadReq, Goto, TypeInv, TypeOK, Mine
  <2>2. pc'[p] \in {"refreshRead", "refundRead", "saveReq"}
    BY <2>1 DEF AfterRead
  <2>3. (HeldCurrent(p) /\ ReadCurrent(p))'
    BY <1>1, <2>1, <2>2 DEF HeldCurrent, ReadCurrent, Req
  <2>4. QED
    BY <1>k, <1>1, <2>1, <2>3, OwnPart
<1>4. QED
  BY <1>2, <1>3

\* The INSERT of a request and the UPDATE of a decided one: in both the status
\* moves from what the handler relied on.
Written(p) ==
    /\ Req(p) \in Requests /\ pc[p] \in {"createSave", "saveReq"}
    /\ reqs[Req(p)].status = IF pc[p] = "createSave" THEN "NONE" ELSE Source(call[p].kind)
    /\ reqs'[Req(p)].status = Target(call[p].kind)
    /\ \A r \in Requests : r # Req(p) => reqs'[r] = reqs[r]
    /\ Mine(p) /\ pc'[p] = "audit" /\ call'[p] = call[p]
    /\ UNCHANGED <<balance, audit, cache, call, row>>

\* A create's save writes its own request, which nobody else has.
LEMMA CreateWrites ==
    ASSUME TypeInv, DecisionInv, NEW p \in Slots, CreateSave(p)
    PROVE  Written(p) /\ call[p].kind = "create"
<1>1. call[p].kind = "create" /\ pc[p] = "createSave"
  BY StepKinds DEF CreateSave, TypeInv, TypeOK
<1>2. Req(p) \in Requests
  BY <1>1, ReqOf DEF TypeInv
<1>3. reqs[Req(p)].status = "NONE"
  BY <1>1 DEF DecisionInv, CreateAlone
<1>4. Mine(p) /\ pc'[p] = "audit" /\ call'[p] = call[p]
  BY GotoMine DEF CreateSave, regs, TypeInv
<1>5. /\ reqs'[Req(p)].status = "PENDING"
      /\ \A r \in Requests : r # Req(p) => reqs'[r] = reqs[r]
  BY <1>2 DEF CreateSave, TypeInv, TypeOK
<1>6. QED
  BY <1>1, <1>2, <1>3, <1>4, <1>5 DEF Written, Target, CreateSave, regs

\* A decision's save finds its request in the status it read.
LEMMA SaveWrites ==
    ASSUME TypeInv, DecisionInv, NEW p \in Slots, SaveReq(p)
    PROVE  Written(p) /\ Decides(p)
<1>1. Decides(p) /\ pc[p] = "saveReq" /\ pc[p] \in Midway
  BY StepKinds DEF SaveReq, TypeInv, TypeOK, Decides, Midway
<1>2. Req(p) \in Requests
  BY <1>1, ReqOf DEF TypeInv, Decides
<1>3. reqs[Req(p)].status = Source(call[p].kind) /\ ~VersionConflict(p)
  BY <1>1 DEF DecisionInv, ReadCurrent, VersionConflict
<1>4. Mine(p) /\ pc'[p] = "audit" /\ call'[p] = call[p]
  BY <1>3, GotoMine DEF SaveReq, regs, TypeInv
<1>5. /\ reqs'[Req(p)].status = Target(call[p].kind)
      /\ \A r \in Requests : r # Req(p) => reqs'[r] = reqs[r]
  BY <1>2, <1>3 DEF SaveReq, TypeInv, TypeOK
<1>6. QED
  BY <1>1, <1>2, <1>3, <1>4, <1>5 DEF Written, SaveReq, regs

\* A written request is relied on by no other handler.
LEMMA WrittenDecides ==
    ASSUME TypeInv, DecisionInv, NEW p \in Slots, Written(p),
           \/ call[p].kind = "create" /\ pc[p] = "createSave"
           \/ Decides(p) /\ pc[p] = "saveReq"
    PROVE  DecisionInv'
<1>1. OneDecision'
  BY MineOne DEF Written
<1>2. (HeldCurrent(p) /\ ReadCurrent(p))'
  BY DEF Written, HeldCurrent, ReadCurrent, Midway, ApproveSteps, CancelSteps
<1>3. CreateAlone(p)'
  BY CallShape DEF Written, DecisionInv, Mine, CreateAlone, Req
<1>4. \/ call[p].kind = "create" /\ reqs[Req(p)].status = "NONE"
      \/ Decides(p) /\ reqs[Req(p)].status # "NONE"
  BY DEF Written, Source
<1>5. QED
  BY <1>1, <1>2, <1>3, <1>4, MineOthers DEF DecisionInv, Written

\* The audit record ends the call.
LEMMA AuditDecides ==
    ASSUME TypeInv, DecisionInv, NEW p \in Slots, NEW a, Finish(p, a), UNCHANGED <<reqs, balance>>
    PROVE  DecisionInv'
<1>1. Mine(p) /\ pc'[p] = "idle" /\ call'[p] = NoCall
  BY FinishMine DEF TypeInv
<1>2. QED
  BY <1>1, MineOne, MineOthers, IdleKeeps DEF DecisionInv

\* A crash ends every call.
LEMMA CrashDecides == ASSUME Crash PROVE DecisionInv'
<1>1. \A p \in Slots : call'[p] = NoCall /\ pc'[p] = "idle"
  BY DEF Crash
<1>2. QED
  BY <1>1, IdleKeeps DEF DecisionInv, OneDecision

\* The invariant holds initially: there is no call.
LEMMA InitDecides == Init => DecisionInv
<1> SUFFICES ASSUME Init PROVE DecisionInv
  OBVIOUS
<1>1. NoCall.kind \notin DecisionKinds \cup {"create"}
  BY CallShape DEF DecisionKinds
<1>2. QED
  BY <1>1 DEF Init, DecisionInv, OneDecision, Decides, HeldCurrent, CreateAlone, ReadCurrent

\* Every step keeps the invariant.
LEMMA NextDecides ==
    ASSUME MaxDecisions <= 1, TypeInv, DecisionInv, [Next]_vars PROVE DecisionInv'
<1>1. ASSUME NEW p \in Slots, Start(p) PROVE DecisionInv'
  BY <1>1, StartDecides
<1>2. ASSUME NEW p \in Slots, Step(p) PROVE DecisionInv'
  <2>1. CASE CreateSave(p)
    <3>1. pc[p] = "createSave"
      BY <2>1 DEF CreateSave
    <3>2. QED
      BY <2>1, <3>1, CreateWrites, WrittenDecides
  <2>2. CASE SaveReq(p)
    <3>1. pc[p] = "saveReq"
      BY <2>2 DEF SaveReq
    <3>2. QED
      BY <2>2, <3>1, SaveWrites, WrittenDecides
  <2>3. CASE AuditLog(p)
    BY <2>3, AuditDecides DEF AuditLog
  <2>4. QED
    BY <1>2, <2>1, <2>2, <2>3, FetchDecides, ReadReqDecides, BalanceDecides DEF Step
<1>3. ASSUME NEW p \in Slots, Fault(p) PROVE DecisionInv'
  BY <1>3, AuditDecides DEF Fault, HydrationFailed, tables
<1>4. ASSUME UNCHANGED <<tables, pc, regs>> PROVE DecisionInv'
  BY <1>4 DEF tables, regs, DecisionInv, OneDecision, Decides, HeldCurrent, CreateAlone,
              ReadCurrent, Leave, Days, Req
<1>5. QED
  BY <1>1, <1>2, <1>3, <1>4, CrashDecides DEF Next, Expire, vars

\* With one decision per leave type at a time the strengthened invariant holds
\* throughout, whatever fails or crashes.
LEMMA DecisionInvariant == ASSUME MaxDecisions <= 1 PROVE Spec => []DecisionInv
<1>1. TypeInv /\ DecisionInv /\ [Next]_vars => DecisionInv'
  BY NextDecides
<1>2. QED
  BY <1>1, InitDecides, TypeInvariant, PTL DEF Spec

\* The row approveRequest judged is the row it deducts from.
THEOREM RequestsDeductionCovered ==
    ASSUME MaxDecisions <= 1 PROVE Spec => []DeductionCovered
<1>1. DecisionInv => DeductionCovered
  BY DEF DecisionInv, HeldCurrent, DeductionCovered
<1>2. QED
  BY <1>1, DecisionInvariant, PTL

-----------------------------------------------------------------------------
(* The balances: what each write does to a row.                              *)

\* The writes of a balance row, each from the row that is there.
Opens(p) ==
    /\ pc[p] = "insert" /\ balance[Leave(p)] = NoRow
    /\ balance' = [balance EXCEPT ![Leave(p)] = Hydrated(Leave(p))]

Deducts(p) ==
    /\ pc[p] = "deductSave" /\ pc'[p] = "deductInvalidate" /\ UNCHANGED regs
    /\ balance[Leave(p)] \in Rows /\ Days(p) <= balance[Leave(p)].available
    /\ balance' = [balance EXCEPT ![Leave(p)] = Deducted(balance[Leave(p)], Days(p))]

Refunds(p) ==
    /\ pc[p] = "refundSave" /\ pc'[p] = "refundInvalidate" /\ UNCHANGED regs
    /\ balance[Leave(p)] \in Rows
    /\ balance' = [balance EXCEPT ![Leave(p)] = Refunded(balance[Leave(p)], Days(p))]

\* A deduction is never refused.
LEMMA DeductSaveDeducts ==
    ASSUME TypeInv, DecisionInv, NEW p \in Slots, DeductSave(p) PROVE Deducts(p)
<1>1. row[p] = balance[Leave(p)] /\ row[p] \in Rows /\ Days(p) <= row[p].available
  BY DEF DecisionInv, DeductSave, HeldCurrent, HoldsRow, TypeInv
<1>2. Days(p) \in Nat
  <2>1. call[p].kind = "approve" /\ pc[p] # "idle"
    BY StepKinds DEF DeductSave, TypeInv, TypeOK, ApproveSteps
  <2>2. QED
    BY <2>1, Busy DEF TypeInv
<1>3. ~(row[p].available < Days(p))
  BY <1>1, <1>2 DEF Rows
<1>4. pc'[p] = "deductInvalidate" /\ UNCHANGED regs
  BY <1>3 DEF DeductSave, Goto, TypeInv, TypeOK
<1>5. QED
  BY <1>1, <1>3, <1>4 DEF DeductSave, Deducts

\* A refund starts from the row that is there.
LEMMA RefundSaveRefunds ==
    ASSUME TypeInv, DecisionInv, NEW p \in Slots, RefundSave(p) PROVE Refunds(p)
<1>1. row[p] = balance[Leave(p)] /\ row[p] \in Rows
  BY DEF DecisionInv, RefundSave, HeldCurrent, HoldsRow, TypeInv
<1>2. pc'[p] = "refundInvalidate" /\ UNCHANGED regs
  BY DEF RefundSave, Goto, TypeInv, TypeOK
<1>3. QED
  BY <1>1, <1>2 DEF RefundSave, Refunds

\* No other step writes a row, for a refresh writes what is there.
LEMMA BalanceWrites ==
    ASSUME TypeInv, DecisionInv, NEW p \in Slots, Step(p), ~UNCHANGED balance
    PROVE  \/ Insert(p) /\ Opens(p)
           \/ DeductSave(p) /\ Deducts(p)
           \/ RefundSave(p) /\ Refunds(p)
<1> USE DEF TypeInv
<1>i. HeldCurrent(p)
  BY DEF DecisionInv
<1>1. CASE Insert(p)
  BY <1>1 DEF Insert, Opens
<1>2. CASE RefreshSave(p)
  <2>1. pc[p] # "idle" /\ row[p] = balance[Leave(p)]
    BY <1>2, <1>i DEF RefreshSave, HeldCurrent
  <2>2. QED
    BY <1>2, <2>1 DEF RefreshSave, TypeOK
<1>3. CASE DeductSave(p)
  BY <1>3, DeductSaveDeducts
<1>4. CASE RefundSave(p)
  BY <1>4, RefundSaveRefunds
<1>5. CASE ~(Insert(p) \/ RefreshSave(p) \/ DeductSave(p) \/ RefundSave(p))
  BY <1>5 DEF Step, DimRead, HcmAnswer, Lookup, BalRead, Fill, CreateSave, AuditLog,
              ReadReq, RefreshRead, RefreshFill, DeductRead, DeductInvalidate, RefundRead,
              RefundInvalidate, Invalidate, SaveReq, tables
<1>6. QED
  BY <1>1, <1>2, <1>3, <1>4, <1>5

\* Only the steps of handlers write the tables.
LEMMA OthersWriteNothing ==
    ASSUME [Next]_vars, ~\E p \in Slots : Step(p)
    PROVE  UNCHANGED <<reqs, balance, audit>>
BY DEF Next, Start, StartGet, StartCreate, StartDecision, Begin, Fault, Expire, Crash,
       tables, vars

\* The documented lifecycle, even when save() checks no version: two decisions
\* on one request are two on its leave type.
THEOREM RequestsLifecycleOneDecision ==
    ASSUME MaxDecisions <= 1 PROVE Spec => Lifecycle
<1>1. ASSUME TypeInv, DecisionInv, NEW p \in Slots, Step(p)
      PROVE  \A r \in Requests : Legal(r)
  <2>1. CASE CreateSave(p)
    <3>1. Written(p) /\ call[p].kind = "create" /\ pc[p] = "createSave"
      BY <1>1, <2>1, CreateWrites DEF CreateSave
    <3>2. QED
      BY <3>1 DEF Written, Legal, Target
  <2>2. CASE SaveReq(p)
    <3>1. Written(p) /\ Decides(p) /\ pc[p] = "saveReq"
      BY <1>1, <2>2, SaveWrites DEF SaveReq
    <3>2. QED
      BY <3>1 DEF Written, Legal, Target, Source, Decides, DecisionKinds
  <2>3. CASE ~CreateSave(p) /\ ~SaveReq(p)
    <3>1. reqs' = reqs
      BY <1>1, <2>3
         DEF Step, DimRead, HcmAnswer, Insert, Lookup, BalRead, Fill, AuditLog, ReadReq,
             RefreshRead, RefreshSave, RefreshFill, DeductRead, DeductSave,
             DeductInvalidate, RefundRead, RefundSave, RefundInvalidate, Invalidate,
             tables
    <3>2. QED
      BY <3>1 DEF Legal
  <2>4. QED
    BY <2>1, <2>2, <2>3
<1>2. TypeInv /\ DecisionInv /\ [Next]_vars => [\A r \in Requests : Legal(r)]_vars
  BY <1>1, OthersWriteNothing DEF Legal
<1>3. QED
  BY <1>2, DecisionInvariant, TypeInvariant, PTL DEF Spec, Lifecycle, Legal

-----------------------------------------------------------------------------
(* The audit trail.                                                          *)

\* A status is in the trail, or the handler that wrote it is about to put it
\* there.
Logged(r) ==
    reqs[r].status # "NONE" =>
        \/ <<r, reqs[r].status>> \in audit
        \/ \E p \in Slots : /\ pc[p] = "audit" /\ Req(p) = r
                            /\ Target(call[p].kind) = reqs[r].status

LoggedInv == \A r \in Requests : Logged(r)

\* A step that neither writes a request or the trail nor disturbs a handler
\* that is about to.
LEMMA LoggedSame ==
    ASSUME LoggedInv, UNCHANGED <<reqs, audit>>,
           \A q \in Slots : pc[q] = "audit" => pc'[q] = "audit" /\ call'[q] = call[q]
    PROVE  LoggedInv'
BY DEF LoggedInv, Logged, Req

\* A handler that writes a request goes on to log what it wrote.
LEMMA LoggedWrite ==
    ASSUME LoggedInv, NEW p \in Slots, Mine(p), pc[p] # "audit", UNCHANGED audit,
           pc'[p] = "audit", call'[p] = call[p],
           reqs'[Req(p)].status = Target(call[p].kind),
           \A r \in Requests : r # Req(p) => reqs'[r] = reqs[r]
    PROVE  LoggedInv'
<1>1. ASSUME NEW r \in Requests, r = Req(p) PROVE Logged(r)'
  BY <1>1 DEF Logged, Req
<1>2. ASSUME NEW r \in Requests, r # Req(p) PROVE Logged(r)'
  BY <1>2 DEF LoggedInv, Logged, Req, Mine
<1>3. QED
  BY <1>1, <1>2 DEF LoggedInv

\* Every step of a handler keeps the invariant.
LEMMA StepLogged ==
    ASSUME TypeInv, LoggedInv, NEW p \in Slots, Step(p) PROVE LoggedInv'
<1> USE DEF TypeInv
<1>1. CASE CreateSave(p) \/ (SaveReq(p) /\ ~VersionConflict(p))
  <2>1. /\ Mine(p) /\ pc'[p] = "audit" /\ call'[p] = call[p]
        /\ pc[p] # "audit" /\ UNCHANGED audit
    BY <1>1, GotoMine DEF CreateSave, SaveReq, regs
  <2>2. call[p].kind \in DecisionKinds \cup {"create"}
    BY <1>1, StepKinds DEF CreateSave, SaveReq, TypeOK
  <2>3. /\ reqs'[Req(p)].status = Target(call[p].kind)
        /\ \A r \in Requests : r # Req(p) => reqs'[r] = reqs[r]
    <3>1. Req(p) \in Requests
      BY <2>2, ReqOf
    <3>2. CreateSave(p) => Target(call[p].kind) = "PENDING"
      BY StepKinds DEF CreateSave, TypeOK, Target
    <3>3. QED
      BY <1>1, <3>1, <3>2 DEF CreateSave, SaveReq, TypeOK
  <2>4. QED
    BY <2>1, <2>3, LoggedWrite
<1>2. CASE AuditLog(p)
  <2>1. /\ UNCHANGED reqs
        /\ audit' = audit \cup {<<Req(p), Target(call[p].kind)>>}
        /\ \A q \in Slots : q # p => pc'[q] = pc[q] /\ call'[q] = call[q]
    BY <1>2, FinishMine DEF AuditLog, Mine
  <2>2. QED
    BY <2>1 DEF LoggedInv, Logged, Req
<1>3. CASE ~(CreateSave(p) \/ (SaveReq(p) /\ ~VersionConflict(p)) \/ AuditLog(p))
  <2>1. UNCHANGED <<reqs, audit>>
    BY <1>3 DEF Step, DimRead, HcmAnswer, Insert, Lookup, BalRead, Fill, ReadReq,
             RefreshRead, RefreshSave, RefreshFill, DeductRead, DeductSave,
             DeductInvalidate, RefundRead, RefundSave, RefundInvalidate, Invalidate,
             SaveReq, tables
  <2>2. pc[p] # "audit"
    BY <1>3 DEF Step, DimRead, HcmAnswer, Insert, Lookup, BalRead, Fill, ReadReq,
             RefreshRead, RefreshSave, RefreshFill, DeductRead, DeductSave,
             DeductInvalidate, RefundRead, RefundSave, RefundInvalidate, Invalidate,
             SaveReq
  <2>3. \A q \in Slots : q # p => pc'[q] = pc[q] /\ call'[q] = call[q]
    <3>1. CASE SaveReq(p)
      BY <1>3, <3>1, FinishMine DEF SaveReq, RetryOrGiveUp, Goto, TypeOK, Mine
    <3>2. CASE ReadReq(p)
      BY <3>2, FinishMine DEF ReadReq, Goto, TypeOK, Mine
    <3>3. CASE \/ DimRead(p) \/ HcmAnswer(p) \/ Insert(p) \/ Lookup(p) \/ BalRead(p) \/ Fill(p)
      BY <3>3, FinishMine DEF DimRead, HcmAnswer, Insert, Lookup, BalRead, Fill, UseBalance,
             HydrationFailed, Goto, TypeOK, Mine, regs
    <3>4. CASE \/ RefreshRead(p) \/ RefreshSave(p) \/ RefreshFill(p)
               \/ DeductRead(p) \/ DeductSave(p) \/ DeductInvalidate(p)
               \/ RefundRead(p) \/ RefundSave(p) \/ RefundInvalidate(p)
      BY <3>4, FinishMine, FindRowMine DEF RefreshRead, RefreshSave, RefreshFill, DeductRead, DeductSave,
             DeductInvalidate, RefundRead, RefundSave, RefundInvalidate, Invalidate,
             Goto, TypeOK, Mine, regs
    <3>5. QED
      BY <1>3, <3>1, <3>2, <3>3, <3>4 DEF Step
  <2>4. QED
    BY <2>1, <2>2, <2>3, LoggedSame
<1>4. QED
  BY <1>1, <1>2, <1>3

\* Without failures nothing comes between the write of a status and its record,
\* however many decisions race.
LEMMA LoggedInvariant == ASSUME MaxFaults = 0 PROVE Spec => []LoggedInv
<1>1. Init => LoggedInv
  BY DEF Init, LoggedInv, Logged
<1>2. ASSUME TypeInv, LoggedInv, [Next]_vars PROVE LoggedInv'
  <2>1. ASSUME NEW p \in Slots, Start(p) PROVE LoggedInv'
    <3>1. UNCHANGED <<reqs, audit>>
      BY <2>1 DEF Start, StartGet, StartCreate, StartDecision, Begin, tables
    <3>2. pc[p] = "idle" /\ \A q \in Slots : q # p => pc'[q] = pc[q] /\ call'[q] = call[q]
      BY <1>2, <2>1 DEF Start, StartGet, StartCreate, StartDecision, Begin, Goto, TypeInv,
                        TypeOK
    <3>3. QED
      BY <1>2, <3>1, <3>2, LoggedSame
  <2>2. ~(faults < MaxFaults)
    BY <1>2 DEF TypeInv, TypeOK
  <2>3. ASSUME UNCHANGED <<tables, pc, regs>> PROVE LoggedInv'
    BY <1>2, <2>3, LoggedSame DEF tables, regs
  <2>4. QED
    BY <1>2, <2>1, <2>2, <2>3, StepLogged DEF Next, Fault, Expire, Crash, vars
<1>3. QED
  BY <1>1, <1>2, TypeInvariant, PTL DEF Spec

\* Without failures each status of a request is in the trail once all calls are
\* answered.
THEOREM RequestsStatusAudited == ASSUME MaxFaults = 0 PROVE Spec => []StatusAudited
<1>1. LoggedInv => StatusAudited
  BY DEF LoggedInv, Logged, StatusAudited, Quiet
<1>2. QED
  BY <1>1, LoggedInvariant, PTL

-----------------------------------------------------------------------------
(* The days of a set of requests.                                            *)

\* f gives each part of the set F the sum of its requests' days.
AddsUp(F, f) ==
    /\ f \in [SUBSET F -> Nat]
    /\ f[{}] = 0
    /\ \A S \in SUBSET F, r \in F : r \notin S => f[S \cup {r}] = f[S] + DaysOf[r]

Total == CHOOSE f : AddsUp(Requests, f)

\* A sum over one request more.
LEMMA AddsOneMore ==
    ASSUME NEW F \in SUBSET Requests, NEW y \in F, NEW f, AddsUp(F \ {y}, f)
    PROVE  \E g : AddsUp(F, g)
<1> DEFINE sum(S) == f[S \ {y}] + (IF y \in S THEN DaysOf[y] ELSE 0)
<1> DEFINE g == [S \in SUBSET F |-> sum(S)]
<1>d. \A r \in F : DaysOf[r] \in Nat
  BY DaysOfAssumption
<1>n. \A S \in SUBSET F : S \ {y} \in SUBSET (F \ {y}) /\ f[S \ {y}] \in Nat
  BY DEF AddsUp
<1>1. g \in [SUBSET F -> Nat]
  <2>1. \A S \in SUBSET F : sum(S) \in Nat
    BY <1>d, <1>n
  <2> HIDE DEF sum
  <2>2. QED
    BY <2>1
<1>2. g[{}] = 0
  <2>1. {} \in SUBSET F /\ {} \ {y} = {}
    OBVIOUS
  <2>2. g[{}] = f[{}] + 0
    BY <2>1
  <2>3. QED
    BY <2>2 DEF AddsUp
<1>3. ASSUME NEW S \in SUBSET F, NEW r \in F, r \notin S
      PROVE  g[S \cup {r}] = g[S] + DaysOf[r]
  <2>0. S \cup {r} \in SUBSET F
    OBVIOUS
  <2>1. CASE r = y
    <3>1. (S \cup {r}) \ {y} = S /\ S \ {y} = S
      BY <1>3, <2>1
    <3>2. g[S \cup {r}] = f[S] + DaysOf[y] /\ g[S] = f[S] + 0
      BY <1>3, <2>0, <2>1, <3>1
    <3>3. f[S] \in Nat
      BY <1>n, <3>1
    <3>4. QED
      BY <1>d, <2>1, <3>2, <3>3
  <2>2. CASE r # y
    <3>1. (S \cup {r}) \ {y} = (S \ {y}) \cup {r}
      BY <2>2
    <3>2. S \ {y} \in SUBSET (F \ {y}) /\ r \in F \ {y} /\ r \notin S \ {y}
      BY <1>3, <2>2
    <3>3. f[(S \ {y}) \cup {r}] = f[S \ {y}] + DaysOf[r]
      BY <3>2 DEF AddsUp
    <3>4. y \in S \cup {r} <=> y \in S
      BY <2>2
    <3>5. /\ g[S \cup {r}] = f[(S \ {y}) \cup {r}] + (IF y \in S THEN DaysOf[y] ELSE 0)
          /\ g[S] = f[S \ {y}] + (IF y \in S THEN DaysOf[y] ELSE 0)
      BY <2>0, <3>1, <3>4
    <3>6. PICK m \in Nat, n \in Nat, d \in Nat :
            m = f[S \ {y}] /\ n = (IF y \in S THEN DaysOf[y] ELSE 0) /\ d = DaysOf[r]
      BY <1>d, <1>n
    <3>7. g[S \cup {r}] = (m + d) + n /\ g[S] = m + n
      BY <3>3, <3>5, <3>6
    <3>8. QED
      BY <3>6, <3>7
  <2>3. QED
    BY <2>1, <2>2
<1> HIDE DEF g
<1>4. AddsUp(F, g)
  BY <1>1, <1>2, <1>3 DEF AddsUp
<1>5. QED
  BY <1>4

\* The requests are finitely many, so their parts have sums: a smallest part
\* without would have one after all.
LEMMA TotalAddsUp == AddsUp(Requests, Total)
<1> DEFINE T == {F \in SUBSET Requests : ~\E f : AddsUp(F, f)}
<1>1. ASSUME T # {} PROVE FALSE
  <2>1. IsWellFoundedOn(StrictSubsetOrdering(Requests), SUBSET Requests)
    BY RequestsAssumption, FS_StrictSubsetOrderingWellFounded, FS_FiniteSubsetsOfFinite
  <2>2. PICK F \in T : \A G \in T : <<G, F>> \notin StrictSubsetOrdering(Requests)
    <3>1. T \subseteq SUBSET Requests
      OBVIOUS
    <3> HIDE DEF T
    <3>2. QED
      BY <1>1, <2>1, <3>1, WFMin
  <2>3. CASE F = {}
    <3>1. AddsUp({}, [S \in SUBSET {} |-> 0])
      BY DEF AddsUp
    <3>2. QED
      BY <2>3, <3>1
  <2>4. CASE F # {}
    <3>1. PICK y \in F : TRUE
      BY <2>4
    <3>2. <<F \ {y}, F>> \in StrictSubsetOrdering(Requests)
      BY <3>1 DEF StrictSubsetOrdering
    <3>3. \E f : AddsUp(F \ {y}, f)
      BY <2>2, <3>2
    <3>4. QED
      BY <3>3, AddsOneMore
  <2>5. QED
    BY <2>3, <2>4
<1>2. \E f : AddsUp(Requests, f)
  BY <1>1
<1>3. QED
  BY <1>2 DEF Total

\* What one request adds to a sum.
LEMMA TotalOf ==
    /\ Total[{}] = 0
    /\ \A S \in SUBSET Requests : Total[S] \in Nat
    /\ \A S \in SUBSET Requests, r \in Requests :
          /\ r \notin S => Total[S \cup {r}] = Total[S] + DaysOf[r]
          /\ r \in S => Total[S] = Total[S \ {r}] + DaysOf[r]
<1>1. ASSUME NEW S \in SUBSET Requests, NEW r \in S PROVE Total[S] = Total[S \ {r}] + DaysOf[r]
  <2>1. S \ {r} \in SUBSET Requests /\ r \in Requests /\ r \notin S \ {r}
    OBVIOUS
  <2>3. (S \ {r}) \cup {r} = S
    OBVIOUS
  <2>2. QED
    BY <2>1, <2>3, TotalAddsUp DEF AddsUp
<1>2. /\ Total \in [SUBSET Requests -> Nat]
      /\ Total[{}] = 0
      /\ \A S \in SUBSET Requests, r \in Requests :
            r \notin S => Total[S \cup {r}] = Total[S] + DaysOf[r]
  BY TotalAddsUp DEF AddsUp
<1>3. \A S \in SUBSET Requests : Total[S] \in Nat
  BY <1>2
<1>4. QED
  BY <1>1, <1>2, <1>3

-----------------------------------------------------------------------------
(* The ledger's own invariant.                                               *)

ApprovedOn(lt) == {r \in Requests : LeaveOf[r] = lt /\ LedgerStatus[r] = "APPROVED"}

Entitled(lt, b) == b.available + b.used = Ledger!Entitlement(lt)

\* What was used in the HCM already, and what the requests of A use.
UsedBy(lt, A) == HcmBalance[lt].used + Total[A]

\* The days used beyond the HCM's are those of the approved requests, so a
\* cancellation finds its days there, and days are neither lost nor made.
Backed ==
    /\ \A r \in Requests : LedgerStatus[r] # "NONE" => LedgerDays[LeaveOf[r]] # NoRow
    /\ \A lt \in LeaveTypes : LedgerDays[lt] # NoRow =>
          /\ Entitled(lt, LedgerDays[lt])
          /\ LedgerDays[lt].used = UsedBy(lt, ApprovedOn(lt))

LedgerTyped ==
    /\ LedgerStatus \in [Requests -> Statuses]
    /\ LedgerDays \in [LeaveTypes -> [available : Nat, used : Nat] \cup {NoRow}]

\* The types of the ledger's variables follow from those of the tables.
LEMMA TypedLedger == TypeInv => LedgerTyped
<1> SUFFICES ASSUME TypeInv PROVE LedgerTyped
  OBVIOUS
<1>1. LedgerStatus \in [Requests -> Statuses]
  BY DEF TypeInv, TypeOK, LedgerStatus, Statuses
<1>2. ASSUME NEW lt \in LeaveTypes
      PROVE  LedgerDays[lt] \in [available : Nat, used : Nat] \cup {NoRow}
  BY DEF TypeInv, TypeOK, LedgerDays, Rows
<1>3. QED
  BY <1>1, <1>2 DEF LedgerTyped, LedgerDays

\* The ledger's steps keep its days backed.
LEMMA LedgerBacked ==
    ASSUME LedgerTyped, LedgerTyped', Backed,
           [Ledger!Next]_<<LedgerStatus, LedgerDays>>
    PROVE  Backed'
<1> USE DEF LedgerTyped
<1>s. ASSUME NEW lt \in LeaveTypes PROVE ApprovedOn(lt) \in SUBSET Requests
  BY DEF ApprovedOn
<1>h. ASSUME NEW lt \in LeaveTypes
      PROVE  HcmBalance[lt].available \in Nat /\ HcmBalance[lt].used \in Nat
  BY HcmAssumption
<1>u. ASSUME UNCHANGED LedgerDays,
             \A r \in Requests :
                /\ LedgerStatus'[r] = "APPROVED" <=> LedgerStatus[r] = "APPROVED"
                /\ LedgerStatus'[r] # "NONE" => LedgerDays[LeaveOf[r]] # NoRow
      PROVE  Backed'
  <2>1. \A lt \in LeaveTypes : ApprovedOn(lt)' = ApprovedOn(lt)
    BY <1>u DEF ApprovedOn
  <2>2. QED
    BY <1>u, <2>1 DEF Backed, Entitled, Ledger!Entitlement, UsedBy
<1>1. ASSUME NEW lt \in LeaveTypes, Ledger!Open(lt) PROVE Backed'
  <2>1. /\ LedgerDays[lt] = NoRow /\ UNCHANGED LedgerStatus
        /\ LedgerDays'[lt] = HcmBalance[lt]
        /\ \A l \in LeaveTypes : l # lt => LedgerDays'[l] = LedgerDays[l]
    BY <1>1 DEF Ledger!Open
  <2>2. \A l \in LeaveTypes : ApprovedOn(l)' = ApprovedOn(l)
    BY <2>1 DEF ApprovedOn
  <2>3. ApprovedOn(lt) = {}
    BY <2>1 DEF Backed, ApprovedOn
  <2>4. HcmBalance[lt] # NoRow
    BY HcmAssumption, UnopenedAssumption
  <2>5. Entitled(lt, HcmBalance[lt])
    BY DEF Entitled, Ledger!Entitlement
  <2>6. HcmBalance[lt].used = UsedBy(lt, ApprovedOn(lt))
    BY <1>h, <2>3, TotalOf DEF UsedBy
  <2>7. \A r \in Requests : LedgerStatus'[r] # "NONE" => LedgerDays'[LeaveOf[r]] # NoRow
    BY <2>1, <2>4, LeaveOfAssumption DEF Backed
  <2>8. ASSUME NEW l \in LeaveTypes, LedgerDays'[l] # NoRow
        PROVE  Entitled(l, LedgerDays'[l]) /\ LedgerDays'[l].used = UsedBy(l, ApprovedOn(l)')
    BY <2>1, <2>2, <2>5, <2>6, <2>8 DEF Backed
  <2>9. QED
    BY <2>7, <2>8 DEF Backed, Entitled, Ledger!Entitlement, UsedBy
<1>2. ASSUME NEW r \in Requests, Ledger!Submit(r) \/ Ledger!Reject(r) PROVE Backed'
  <2>1. /\ UNCHANGED LedgerDays /\ LedgerDays[LeaveOf[r]] # NoRow
        /\ LedgerStatus[r] # "APPROVED" /\ LedgerStatus'[r] # "APPROVED"
        /\ \A s \in Requests : s # r => LedgerStatus'[s] = LedgerStatus[s]
    BY <1>2 DEF Ledger!Submit, Ledger!Reject, Backed
  <2>2. QED
    BY <1>u, <2>1 DEF Backed
\* Days move within the row of one leave type as its set of approved requests
\* gains or loses one.
<1>m. ASSUME NEW r \in Requests, NEW a \in Nat, NEW u \in Nat, NEW A \in SUBSET Requests,
             LedgerDays[LeaveOf[r]] # NoRow,
             a + u = LedgerDays[LeaveOf[r]].available + LedgerDays[LeaveOf[r]].used,
             u = UsedBy(LeaveOf[r], A),
             LedgerDays' = [LedgerDays EXCEPT ![LeaveOf[r]] = [available |-> a, used |-> u]],
             ApprovedOn(LeaveOf[r])' = A,
             \A s \in Requests : s # r => LedgerStatus'[s] = LedgerStatus[s]
      PROVE  Backed'
  <2>1. LeaveOf[r] \in LeaveTypes
    BY LeaveOfAssumption
  <2>2. /\ LedgerDays'[LeaveOf[r]] = [available |-> a, used |-> u]
        /\ LedgerDays'[LeaveOf[r]] # NoRow
        /\ \A l \in LeaveTypes : l # LeaveOf[r] => LedgerDays'[l] = LedgerDays[l]
    BY <1>m, <2>1, UnopenedAssumption
  <2>3. \A l \in LeaveTypes : l # LeaveOf[r] => ApprovedOn(l)' = ApprovedOn(l)
    BY <1>m DEF ApprovedOn
  <2>4. \A s \in Requests : LedgerStatus'[s] # "NONE" => LedgerDays'[LeaveOf[s]] # NoRow
    BY <1>m, <2>2, LeaveOfAssumption DEF Backed
  <2>5. Entitled(LeaveOf[r], LedgerDays[LeaveOf[r]])
    BY <1>m, <2>1 DEF Backed
  <2>6. Entitled(LeaveOf[r], LedgerDays'[LeaveOf[r]])
    BY <1>m, <2>2, <2>5 DEF Entitled
  <2>7. ASSUME NEW l \in LeaveTypes, LedgerDays'[l] # NoRow
        PROVE  Entitled(l, LedgerDays'[l]) /\ LedgerDays'[l].used = UsedBy(l, ApprovedOn(l)')
    <3>1. CASE l = LeaveOf[r]
      BY <1>m, <2>2, <2>6, <3>1
    <3>2. CASE l # LeaveOf[r]
      BY <2>2, <2>3, <2>7, <3>2 DEF Backed
    <3>3. QED
      BY <3>1, <3>2
  <2>8. QED
    BY <2>4, <2>7 DEF Backed, Entitled, Ledger!Entitlement, UsedBy
<1>3. ASSUME NEW r \in Requests, Ledger!Approve(r) \/ Ledger!Cancel(r) PROVE Backed'
  <2>l. LeaveOf[r] \in LeaveTypes /\ LedgerDays[LeaveOf[r]] # NoRow
    BY <1>3, LeaveOfAssumption DEF Ledger!Approve, Ledger!Cancel, Backed
  <2>1. PICK a \in Nat, u \in Nat, d \in Nat :
          /\ a = LedgerDays[LeaveOf[r]].available /\ u = LedgerDays[LeaveOf[r]].used
          /\ d = DaysOf[r]
    BY <2>l, DaysOfAssumption
  <2>2. PICK t \in Nat, h \in Nat : /\ t = Total[ApprovedOn(LeaveOf[r])] /\ u = h + t
                                   /\ h = HcmBalance[LeaveOf[r]].used
    BY <2>l, <2>1, <1>s, <1>h, TotalOf DEF Backed, UsedBy
  <2>3. CASE Ledger!Approve(r)
    <3>1. /\ LedgerStatus[r] = "PENDING" /\ d <= a
          /\ LedgerStatus' = [LedgerStatus EXCEPT ![r] = "APPROVED"]
          /\ LedgerDays' = [LedgerDays EXCEPT ![LeaveOf[r]] =
                               [available |-> a - d, used |-> u + d]]
      BY <2>1, <2>3 DEF Ledger!Approve, Ledger!Move
    <3>2. /\ r \notin ApprovedOn(LeaveOf[r])
          /\ ApprovedOn(LeaveOf[r])' = ApprovedOn(LeaveOf[r]) \cup {r}
      BY <3>1 DEF ApprovedOn
    <3>3. Total[ApprovedOn(LeaveOf[r]) \cup {r}] = t + d
      BY <1>s, <2>l, <2>1, <2>2, <3>2, TotalOf
    <3>4. a - d \in Nat /\ u + d \in Nat /\ (a - d) + (u + d) = a + u /\ u + d = h + (t + d)
      BY <2>2, <3>1
    <3>5. ApprovedOn(LeaveOf[r]) \cup {r} \in SUBSET Requests
      BY <1>s, <2>l
    <3>6. \A s \in Requests : s # r => LedgerStatus'[s] = LedgerStatus[s]
      BY <3>1
    <3>7. /\ (a - d) + (u + d) = LedgerDays[LeaveOf[r]].available + LedgerDays[LeaveOf[r]].used
          /\ u + d = UsedBy(LeaveOf[r], ApprovedOn(LeaveOf[r]) \cup {r})
      BY <2>1, <2>2, <3>3, <3>4 DEF UsedBy
    <3>8. QED
      BY <1>m, <2>l, <3>1, <3>2, <3>4, <3>5, <3>6, <3>7
  <2>4. CASE Ledger!Cancel(r)
    <3>1. /\ LedgerStatus[r] = "APPROVED"
          /\ LedgerStatus' = [LedgerStatus EXCEPT ![r] = "CANCELLED"]
          /\ LedgerDays' = [LedgerDays EXCEPT ![LeaveOf[r]] =
                               [available |-> a - (-d), used |-> u + (-d)]]
      BY <2>1, <2>4 DEF Ledger!Cancel, Ledger!Move
    <3>2. /\ r \in ApprovedOn(LeaveOf[r])
          /\ ApprovedOn(LeaveOf[r])' = ApprovedOn(LeaveOf[r]) \ {r}
      BY <3>1 DEF ApprovedOn
    <3>5. ApprovedOn(LeaveOf[r]) \ {r} \in SUBSET Requests
      BY <1>s, <2>l
    <3>3. PICK n \in Nat : n = Total[ApprovedOn(LeaveOf[r]) \ {r}] /\ t = n + d
      BY <1>s, <2>l, <2>1, <2>2, <3>2, <3>5, TotalOf
    <3>s. d <= u /\ u + (-d) = h + n
      BY <2>2, <3>3
    <3>4. /\ a - (-d) \in Nat /\ u + (-d) \in Nat /\ (a - (-d)) + (u + (-d)) = a + u
          /\ u + (-d) = h + n
      BY <3>s
    <3>6. \A s \in Requests : s # r => LedgerStatus'[s] = LedgerStatus[s]
      BY <3>1
    <3>7. /\ (a - (-d)) + (u + (-d))
                = LedgerDays[LeaveOf[r]].available + LedgerDays[LeaveOf[r]].used
          /\ u + (-d) = UsedBy(LeaveOf[r], ApprovedOn(LeaveOf[r]) \ {r})
      BY <2>1, <2>2, <3>3, <3>4 DEF UsedBy
    <3>8. QED
      BY <1>m, <2>l, <3>1, <3>2, <3>4, <3>5, <3>6, <3>7
  <2>5. QED
    BY <1>3, <2>3, <2>4
<1>4. CASE UNCHANGED <<LedgerStatus, LedgerDays>>
  BY <1>4, <1>u DEF Backed
<1>5. QED
  BY <1>1, <1>2, <1>3, <1>4 DEF Ledger!Next

-----------------------------------------------------------------------------
(* The refinement: what each step is to the ledger.                          *)

\* The handlers whose decision the ledger already shows.
Past(p) ==
    /\ call[p].kind \in {"approve", "cancel"}
    /\ pc[p] \in {"deductInvalidate", "refundInvalidate", "saveReq"}

\* How the ledger's status of a request follows from the handler deciding it.
Shown ==
    /\ \A p \in Slots : Decides(p) =>
          LedgerStatus[Req(p)] = IF Past(p) THEN Target(call[p].kind)
                                            ELSE reqs[Req(p)].status
    /\ \A r \in Requests :
          (\A p \in Slots : Past(p) => Req(p) # r) => LedgerStatus[r] = reqs[r].status

\* Decisions do not share a request.
LEMMA RequestShown == TypeInv /\ DecisionInv => Shown
<1> SUFFICES ASSUME TypeInv, DecisionInv PROVE Shown
  OBVIOUS
<1>1. ASSUME NEW r \in Requests, \A p \in Slots : Past(p) => Req(p) # r
      PROVE  LedgerStatus[r] = reqs[r].status
  BY <1>1 DEF LedgerStatus, BetweenWrites, Past, Req
<1>2. ASSUME NEW p \in Slots, Decides(p)
      PROVE  LedgerStatus[Req(p)] = IF Past(p) THEN Target(call[p].kind)
                                               ELSE reqs[Req(p)].status
  <2>1. Req(p) \in Requests
    BY <1>2, ReqOf DEF TypeInv, Decides
  <2>2. \A q \in Slots : Past(q) /\ Req(q) = Req(p) => q = p
    BY <1>2, CallShape
       DEF TypeInv, TypeOK, DecisionInv, OneDecision, Decides, DecisionKinds, Past, Req, Leave
  <2>3. CASE ~Past(p)
    BY <1>1, <2>1, <2>2, <2>3
  <2>4. CASE Past(p) /\ call[p].kind = "approve"
    <3>1. BetweenWrites("approve", Req(p))
      BY <2>4 DEF BetweenWrites, Past, Req
    <3>2. QED
      BY <2>1, <2>4, <3>1 DEF LedgerStatus, Target
  <2>5. CASE Past(p) /\ call[p].kind = "cancel"
    <3>1. BetweenWrites("cancel", Req(p))
      BY <2>5 DEF BetweenWrites, Past, Req
    <3>2. ~BetweenWrites("approve", Req(p))
      BY <2>2, <2>5 DEF BetweenWrites, Past, Req
    <3>3. QED
      BY <2>1, <2>5, <3>1, <3>2 DEF LedgerStatus, Target
  <2>6. QED
    BY <2>3, <2>4, <2>5 DEF Past
<1>3. QED
  BY <1>1, <1>2 DEF Shown

\* The same after a step.
LEMMA RequestShownNext == TypeInv' /\ DecisionInv' => Shown'
BY RequestShown, PTL

\* A step of p shows in the ledger at p's own request only.
LEMMA OtherStatus ==
    ASSUME NEW p \in Slots, Mine(p), NEW r \in Requests, reqs'[r] = reqs[r],
           \/ Req(p) # r
           \/ ~Past(p) /\ ~Past(p)'
           \/ Past(p) /\ Past(p)' /\ call'[p] = call[p]
    PROVE  LedgerStatus'[r] = LedgerStatus[r]
<1>1. \A q \in Slots, k \in {"approve", "cancel"} :
         /\ (call'[q].kind = k /\ call'[q].req = r /\ Past(q)')
         <=> (call[q].kind = k /\ call[q].req = r /\ Past(q))
  BY CallShape DEF Mine, Past, Req
<1>2. \A k \in {"approve", "cancel"} :
         /\ BetweenWrites(k, r) <=>
              \E q \in Slots : call[q].kind = k /\ call[q].req = r /\ Past(q)
         /\ BetweenWrites(k, r)' <=>
              \E q \in Slots : call'[q].kind = k /\ call'[q].req = r /\ Past(q)'
  BY DEF BetweenWrites, Past
<1>3. \A k \in {"approve", "cancel"} : BetweenWrites(k, r)' <=> BetweenWrites(k, r)
  BY <1>1, <1>2
<1>4. QED
  BY <1>3 DEF LedgerStatus

\* So a step that writes no request and crosses no balance write does not show
\* at all.
LEMMA SameStatus ==
    ASSUME NEW p \in Slots, Mine(p), UNCHANGED reqs,
           \/ ~Past(p) /\ ~Past(p)'
           \/ Past(p) /\ Past(p)' /\ call'[p] = call[p]
    PROVE  UNCHANGED LedgerStatus
<1>1. \A r \in Requests : LedgerStatus'[r] = LedgerStatus[r]
  BY OtherStatus
<1>2. QED
  BY <1>1 DEF LedgerStatus

\* A row that is not written shows no other days.
LEMMA SameDays == ASSUME UNCHANGED balance PROVE UNCHANGED LedgerDays
BY DEF LedgerDays

\* A status written into one request.
LEMMA StatusSet ==
    ASSUME LedgerTyped, LedgerTyped', NEW r \in Requests, NEW v, LedgerStatus'[r] = v,
           \A s \in Requests : s # r => LedgerStatus'[s] = LedgerStatus[s]
    PROVE  LedgerStatus' = [LedgerStatus EXCEPT ![r] = v]
BY DEF LedgerTyped

\* Rows in the cache and in the hands of handlers add up to the entitlement,
\* and a leave type a request is about to be saved for has been opened.
RowsEntitled ==
    /\ \A lt \in LeaveTypes : cache[lt] # NoRow =>
          balance[lt] # NoRow /\ Entitled(lt, cache[lt])
    /\ \A p \in Slots :
          /\ pc[p] = "fill" => balance[Leave(p)] # NoRow /\ Entitled(Leave(p), row[p])
          /\ pc[p] = "createSave" => /\ balance[Leave(p)] # NoRow
                                     /\ Days(p) <= Ledger!Entitlement(Leave(p))

RefInv == Backed /\ RowsEntitled

\* What the ledger shows of a row.
LEMMA DaysShown ==
    ASSUME TypeInv, NEW lt \in LeaveTypes
    PROVE  /\ LedgerDays[lt] = NoRow <=> balance[lt] = NoRow
           /\ balance[lt] # NoRow =>
                /\ balance[lt] \in Rows
                /\ LedgerDays[lt].available = balance[lt].available
                /\ LedgerDays[lt].used = balance[lt].used
<1>1. CASE balance[lt] = NoRow
  BY <1>1 DEF LedgerDays
<1>2. CASE balance[lt] # NoRow
  <2>1. balance[lt] \in Rows
    BY <1>2 DEF TypeInv, TypeOK
  <2>2. LedgerDays[lt] = [available |-> balance[lt].available, used |-> balance[lt].used]
    BY <1>2 DEF LedgerDays
  <2>3. LedgerDays[lt] \in [available : Nat, used : Nat]
    BY <2>1, <2>2 DEF Rows
  <2>4. QED
    BY <1>2, <2>1, <2>2, <2>3, UnopenedAssumption
<1>3. QED
  BY <1>1, <1>2

\* The steps that fetch a balance are the first use of a leave type, or nothing.
LEMMA FetchRefines ==
    ASSUME TypeInv, NEW p \in Slots,
           DimRead(p) \/ HcmAnswer(p) \/ Insert(p) \/ Lookup(p) \/ BalRead(p) \/ Fill(p)
    PROVE  [Ledger!Next]_<<LedgerStatus, LedgerDays>>
<1>1. Mine(p) /\ pc'[p] \in FetchNext
  BY FetchMine
<1>2. UNCHANGED reqs
  BY DEF DimRead, HcmAnswer, Insert, Lookup, BalRead, Fill, tables
<1>3. UNCHANGED LedgerStatus
  <2>1. ~Past(p) /\ ~Past(p)'
    BY <1>1 DEF Past, FetchNext, DimRead, HcmAnswer, Insert, Lookup, BalRead, Fill
  <2>2. QED
    BY <1>1, <1>2, <2>1, SameStatus
<1>4. CASE UNCHANGED balance
  BY <1>3, <1>4, SameDays
<1>5. CASE ~UNCHANGED balance
  <2>1. Opens(p) /\ Leave(p) \in LeaveTypes
    BY <1>5, Busy DEF Opens, DimRead, HcmAnswer, Insert, Lookup, BalRead, Fill, tables, TypeInv
  <2>2. [available |-> HcmBalance[Leave(p)].available, used |-> HcmBalance[Leave(p)].used]
            = HcmBalance[Leave(p)]
    BY <2>1, HcmAssumption
  <2>3. Hydrated(Leave(p)) # NoRow
    BY <2>1, HcmAssumption, NoValueAssumption DEF Hydrated, Rows
  <2>4. balance' = [balance EXCEPT ![Leave(p)] = Hydrated(Leave(p))]
          /\ balance[Leave(p)] = NoRow /\ DOMAIN balance = LeaveTypes
    BY <2>1 DEF Opens, TypeInv, TypeOK
  <2>5. LedgerDays'[Leave(p)] = HcmBalance[Leave(p)]
    BY <2>1, <2>2, <2>3, <2>4 DEF LedgerDays, Hydrated
  <2>6. \A lt \in LeaveTypes : lt # Leave(p) => LedgerDays'[lt] = LedgerDays[lt]
    BY <2>4 DEF LedgerDays
  <2>7. LedgerDays' = [LedgerDays EXCEPT ![Leave(p)] = HcmBalance[Leave(p)]]
    BY <2>1, <2>5, <2>6 DEF LedgerDays
  <2>8. LedgerDays[Leave(p)] = NoRow
    BY <2>1, <2>4 DEF LedgerDays
  <2>9. Ledger!Open(Leave(p))
    BY <1>3, <2>7, <2>8 DEF Ledger!Open
  <2>10. QED
    BY <2>1, <2>9 DEF Ledger!Next
<1>6. QED
  BY <1>4, <1>5

\* The write of a row as the ledger shows it.
LEMMA DaysMoved ==
    ASSUME TypeInv, TypeInv', NEW lt \in LeaveTypes, NEW b \in Rows,
           balance' = [balance EXCEPT ![lt] = b]
    PROVE  LedgerDays' = [LedgerDays EXCEPT ![lt] = [available |-> b.available, used |-> b.used]]
<1>1. DOMAIN balance = LeaveTypes
  BY DEF TypeInv, TypeOK
<1>2. LedgerDays'[lt] = [available |-> b.available, used |-> b.used]
  BY <1>1, NoValueAssumption DEF LedgerDays
<1>3. \A l \in LeaveTypes : l # lt => LedgerDays'[l] = LedgerDays[l]
  BY <1>1 DEF LedgerDays
<1>4. LedgerTyped /\ LedgerTyped'
  BY TypedLedger, PTL
<1>5. QED
  BY <1>2, <1>3, <1>4 DEF LedgerTyped

\* The two balance writes take a decision into the past; what a decision knows
\* of its request and row then.
LEMMA WriterKnows ==
    ASSUME TypeInv, DecisionInv, NEW p \in Slots, DeductSave(p) \/ RefundSave(p)
    PROVE  /\ Decides(p) /\ ~Past(p) /\ Req(p) \in Requests /\ Days(p) \in Nat \ {0}
           /\ Leave(p) \in LeaveTypes /\ Leave(p) = LeaveOf[Req(p)] /\ Days(p) = DaysOf[Req(p)]
           /\ LedgerStatus[Req(p)] = Source(call[p].kind)
           /\ call[p].kind = IF DeductSave(p) THEN "approve" ELSE "cancel"
           /\ UNCHANGED reqs
<1>1. /\ pc[p] \in {"deductSave", "refundSave"} /\ pc[p] \in Midway
      /\ call[p].kind = IF pc[p] = "deductSave" THEN "approve" ELSE "cancel"
      /\ pc[p] = "deductSave" <=> DeductSave(p)
  BY StepKinds DEF DeductSave, RefundSave, TypeInv, TypeOK, Midway, ApproveSteps, CancelSteps
<1>2. Decides(p) /\ ~Past(p)
  BY <1>1 DEF Decides, DecisionKinds, Past
<1>3. LedgerStatus[Req(p)] = Source(call[p].kind)
  BY <1>1, <1>2, RequestShown DEF Shown, DecisionInv, ReadCurrent
<1>4. QED
  BY <1>1, <1>2, <1>3, Busy DEF Days, Req, DeductSave, RefundSave, TypeInv

\* A deduction is the ledger's approval.
LEMMA DeductRefines ==
    ASSUME TypeInv, TypeInv', DecisionInv, DecisionInv', NEW p \in Slots, DeductSave(p)
    PROVE  Ledger!Approve(Req(p))
<1>k. /\ Decides(p) /\ ~Past(p) /\ Req(p) \in Requests /\ Days(p) \in Nat \ {0}
      /\ Leave(p) \in LeaveTypes /\ Leave(p) = LeaveOf[Req(p)] /\ Days(p) = DaysOf[Req(p)]
      /\ LedgerStatus[Req(p)] = "PENDING" /\ call[p].kind = "approve" /\ UNCHANGED reqs
  BY WriterKnows DEF Source
<1>d. Deducts(p)
  BY DeductSaveDeducts
<1>1. Mine(p) /\ Past(p)' /\ Decides(p)' /\ call'[p] = call[p]
  <2>1. Goto(p, "deductInvalidate") /\ UNCHANGED regs
    BY <1>d DEF Deducts, DeductSave, Finish, TypeInv, TypeOK
  <2>2. Mine(p) /\ pc'[p] = "deductInvalidate" /\ call'[p] = call[p]
    BY <2>1, GotoMine DEF regs, TypeInv
  <2>3. QED
    BY <1>k, <2>2 DEF Past, Decides
<1>2. LedgerStatus'[Req(p)] = "APPROVED"
  BY <1>k, <1>1, RequestShownNext DEF Shown, Target, Req
<1>3. LedgerStatus' = [LedgerStatus EXCEPT ![Req(p)] = "APPROVED"]
  <2>1. \A r \in Requests : r # Req(p) => LedgerStatus'[r] = LedgerStatus[r]
    BY <1>k, <1>1, OtherStatus
  <2>2. LedgerTyped /\ LedgerTyped'
    BY TypedLedger, PTL
  <2>3. QED
    BY <1>k, <1>2, <2>1, <2>2, StatusSet
<1>4. PICK b \in Rows : b = balance[Leave(p)] /\ Days(p) <= b.available
  BY <1>d DEF Deducts
<1>5. Deducted(b, Days(p)) \in Rows
  BY <1>k, <1>4 DEF Deducted, Rows
<1>6. LedgerDays' = [LedgerDays EXCEPT ![Leave(p)] =
                        [available |-> b.available - Days(p), used |-> b.used + Days(p)]]
  BY <1>k, <1>d, <1>4, <1>5, DaysMoved DEF Deducts, Deducted
<1>7. /\ LedgerDays[Leave(p)].available = b.available
      /\ LedgerDays[Leave(p)].used = b.used
  BY <1>k, <1>4, DaysShown, NoValueAssumption
<1>8. QED
  BY <1>k, <1>3, <1>4, <1>6, <1>7 DEF Ledger!Approve, Ledger!Move

\* A refund is the ledger's cancellation: the days of an approved request are
\* among the days used, so used_balance is not cut at zero.
LEMMA RefundRefines ==
    ASSUME TypeInv, TypeInv', DecisionInv, DecisionInv', Backed, NEW p \in Slots,
           RefundSave(p)
    PROVE  Ledger!Cancel(Req(p))
<1>k. /\ Decides(p) /\ ~Past(p) /\ Req(p) \in Requests /\ Days(p) \in Nat \ {0}
      /\ Leave(p) \in LeaveTypes /\ Leave(p) = LeaveOf[Req(p)] /\ Days(p) = DaysOf[Req(p)]
      /\ LedgerStatus[Req(p)] = "APPROVED" /\ call[p].kind = "cancel" /\ UNCHANGED reqs
  <2>1. ~DeductSave(p)
    BY DEF DeductSave, RefundSave
  <2>2. QED
    BY <2>1, WriterKnows DEF Source
<1>d. Refunds(p)
  BY RefundSaveRefunds
<1>1. Mine(p) /\ Past(p)' /\ Decides(p)' /\ call'[p] = call[p]
  <2>1. Mine(p) /\ pc'[p] = "refundInvalidate" /\ call'[p] = call[p]
    BY GotoMine DEF RefundSave, regs, TypeInv
  <2>2. QED
    BY <1>k, <2>1 DEF Past, Decides
<1>2. LedgerStatus'[Req(p)] = "CANCELLED"
  BY <1>k, <1>1, RequestShownNext DEF Shown, Target, Req
<1>3. LedgerStatus' = [LedgerStatus EXCEPT ![Req(p)] = "CANCELLED"]
  <2>1. \A r \in Requests : r # Req(p) => LedgerStatus'[r] = LedgerStatus[r]
    BY <1>k, <1>1, OtherStatus
  <2>2. LedgerTyped /\ LedgerTyped'
    BY TypedLedger, PTL
  <2>3. QED
    BY <1>k, <1>2, <2>1, <2>2, StatusSet
<1>4. PICK b \in Rows : b = balance[Leave(p)]
  BY <1>d DEF Refunds
<1>5. Refunded(b, Days(p)) \in Rows
  BY <1>k, <1>4 DEF Refunded, Rows
<1>7. /\ LedgerDays[Leave(p)] # NoRow
      /\ LedgerDays[Leave(p)].available = b.available
      /\ LedgerDays[Leave(p)].used = b.used
  BY <1>k, <1>4, DaysShown, NoValueAssumption
<1>8. Days(p) <= b.used
  <2>1. b.used = HcmBalance[Leave(p)].used + Total[ApprovedOn(Leave(p))]
        /\ HcmBalance[Leave(p)].used \in Nat
    BY <1>k, <1>7, HcmAssumption DEF Backed, UsedBy
  <2>2. Req(p) \in ApprovedOn(Leave(p)) /\ ApprovedOn(Leave(p)) \in SUBSET Requests
    BY <1>k DEF ApprovedOn
  <2>3. PICK A \in SUBSET Requests : A = ApprovedOn(Leave(p)) /\ A \ {Req(p)} \in SUBSET Requests
    BY <2>2
  <2>4. Total[A] = Total[A \ {Req(p)}] + Days(p) /\ Total[A \ {Req(p)}] \in Nat
    BY <1>k, <2>2, <2>3, TotalOf
  <2>5. b.used \in Nat
    BY DEF Rows
  <2>6. QED
    BY <1>k, <2>1, <2>3, <2>4, <2>5
<1>9. /\ Refunded(b, Days(p)).available = b.available - (-Days(p))
      /\ Refunded(b, Days(p)).used = b.used + (-Days(p))
  BY <1>k, <1>8 DEF Refunded, Rows
<1>10. LedgerDays' = [LedgerDays EXCEPT ![Leave(p)] =
                        [available |-> b.available - (-Days(p)), used |-> b.used + (-Days(p))]]
  BY <1>k, <1>d, <1>4, <1>5, <1>9, DaysMoved DEF Refunds
<1>11. QED
  BY <1>k, <1>3, <1>7, <1>10 DEF Ledger!Cancel, Ledger!Move

\* The INSERT of a request is the ledger's submission.
LEMMA CreateRefines ==
    ASSUME TypeInv, TypeInv', DecisionInv, RowsEntitled, NEW p \in Slots, CreateSave(p)
    PROVE  Ledger!Submit(Req(p))
<1>1. Written(p) /\ call[p].kind = "create" /\ pc[p] = "createSave"
  BY CreateWrites DEF CreateSave
<1>k. /\ Req(p) \in Requests /\ Leave(p) \in LeaveTypes /\ Leave(p) = LeaveOf[Req(p)]
      /\ Days(p) = DaysOf[Req(p)]
  BY <1>1, Busy DEF TypeInv, Days, Req
<1>2. \A q \in Slots : Past(q) => Req(q) # Req(p)
  <2>1. \A q \in Slots : Past(q) => reqs[Req(q)].status # "NONE"
    BY DEF DecisionInv, ReadCurrent, Past, Decides, DecisionKinds, Midway, ApproveSteps,
           CancelSteps, Source
  <2>2. QED
    BY <1>1, <2>1 DEF Written
<1>3. LedgerStatus[Req(p)] = "NONE" /\ LedgerStatus'[Req(p)] = "PENDING"
  <2>1. LedgerStatus[Req(p)] = "NONE"
    BY <1>1, <1>k, <1>2, RequestShown DEF Written, Shown
  <2>2. \A q \in Slots : Past(q)' => call'[q].req # Req(p)
    BY <1>1, <1>2 DEF Written, Mine, Past, Req
  <2>3. ASSUME NEW r \in Requests, r = Req(p)
        PROVE  ~BetweenWrites("approve", r)' /\ ~BetweenWrites("cancel", r)'
    BY <2>2, <2>3 DEF BetweenWrites, Past
  <2>4. LedgerStatus'[Req(p)] = reqs'[Req(p)].status
    BY <1>k, <2>3 DEF LedgerStatus
  <2>5. QED
    BY <1>1, <2>1, <2>4 DEF Written, Target
<1>4. LedgerStatus' = [LedgerStatus EXCEPT ![Req(p)] = "PENDING"]
  <2>1. \A r \in Requests : r # Req(p) => LedgerStatus'[r] = LedgerStatus[r]
    BY <1>1, OtherStatus DEF Written
  <2>2. LedgerTyped /\ LedgerTyped'
    BY TypedLedger, PTL
  <2>3. QED
    BY <1>k, <1>3, <2>1, <2>2, StatusSet
<1>5. LedgerDays[Leave(p)] # NoRow /\ Days(p) <= Ledger!Entitlement(Leave(p))
  BY <1>1, <1>k, DaysShown DEF RowsEntitled
<1>6. UNCHANGED LedgerDays
  BY <1>1, SameDays DEF Written
<1>7. QED
  BY <1>k, <1>3, <1>4, <1>5, <1>6 DEF Ledger!Submit

\* The UPDATE of a request is the ledger's rejection, or shows nothing new: the
\* decision counted since its balance was written.
LEMMA SaveRefines ==
    ASSUME TypeInv, TypeInv', DecisionInv, DecisionInv', NEW p \in Slots, SaveReq(p)
    PROVE  Ledger!Reject(Req(p)) \/ UNCHANGED <<LedgerStatus, LedgerDays>>
<1>1. Written(p) /\ Decides(p) /\ pc[p] = "saveReq"
  BY SaveWrites DEF SaveReq
<1>2. UNCHANGED LedgerDays
  BY <1>1, SameDays DEF Written
<1>o. \A r \in Requests : r # Req(p) => LedgerStatus'[r] = LedgerStatus[r]
  BY <1>1, OtherStatus DEF Written
<1>t. LedgerTyped /\ LedgerTyped'
  BY TypedLedger, PTL
<1>3. LedgerStatus'[Req(p)] = Target(call[p].kind)
  <2>1. Decides(p)' /\ ~Past(p)' /\ Req(p)' = Req(p)
    BY <1>1 DEF Written, Decides, Past, Req
  <2>2. QED
    BY <1>1, <2>1, RequestShownNext DEF Shown, Written
<1>4. LedgerStatus[Req(p)] = IF Past(p) THEN Target(call[p].kind) ELSE Source(call[p].kind)
  BY <1>1, RequestShown DEF Shown, Written
<1>5. CASE Past(p)
  <2>1. LedgerStatus'[Req(p)] = LedgerStatus[Req(p)]
    BY <1>3, <1>4, <1>5
  <2>2. LedgerStatus' = LedgerStatus
    BY <1>o, <1>t, <2>1 DEF LedgerTyped
  <2>3. QED
    BY <1>2, <2>2
<1>6. CASE ~Past(p)
  <2>1. call[p].kind = "reject" /\ Req(p) \in Requests
    BY <1>1, <1>6 DEF Past, Decides, DecisionKinds, Written
  <2>2. LedgerStatus[Req(p)] = "PENDING" /\ LedgerStatus'[Req(p)] = "REJECTED"
    BY <1>3, <1>4, <1>6, <2>1 DEF Source, Target
  <2>3. LedgerStatus' = [LedgerStatus EXCEPT ![Req(p)] = "REJECTED"]
    BY <1>o, <1>t, <2>1, <2>2, StatusSet
  <2>4. QED
    BY <1>2, <2>2, <2>3 DEF Ledger!Reject
<1>7. QED
  BY <1>5, <1>6

\* Every step of a handler is one of the ledger or shows nothing.
LEMMA StepRefines ==
    ASSUME TypeInv, TypeInv', DecisionInv, DecisionInv', RefInv, NEW p \in Slots, Step(p)
    PROVE  [Ledger!Next]_<<LedgerStatus, LedgerDays>>
<1>1. CASE DimRead(p) \/ HcmAnswer(p) \/ Insert(p) \/ Lookup(p) \/ BalRead(p) \/ Fill(p)
  BY <1>1, FetchRefines
<1>2. CASE CreateSave(p) \/ SaveReq(p) \/ DeductSave(p) \/ RefundSave(p)
  <2>1. Req(p) \in Requests
    <3>1. CASE CreateSave(p) \/ SaveReq(p)
      BY <3>1, CreateWrites, SaveWrites DEF Written
    <3>2. CASE DeductSave(p) \/ RefundSave(p)
      BY <3>2, WriterKnows
    <3>3. QED
      BY <1>2, <3>1, <3>2
  <2>2. Backed /\ RowsEntitled
    BY DEF RefInv
  <2>3. \/ Ledger!Submit(Req(p)) \/ Ledger!Reject(Req(p))
        \/ Ledger!Approve(Req(p)) \/ Ledger!Cancel(Req(p))
        \/ UNCHANGED <<LedgerStatus, LedgerDays>>
    <3>1. CASE CreateSave(p)
      BY <2>2, <3>1, CreateRefines
    <3>2. CASE SaveReq(p)
      BY <3>2, SaveRefines
    <3>3. CASE DeductSave(p)
      BY <3>3, DeductRefines
    <3>4. CASE RefundSave(p)
      BY <2>2, <3>4, RefundRefines
    <3>5. QED
      BY <1>2, <3>1, <3>2, <3>3, <3>4
  <2>4. QED
    BY <2>1, <2>3 DEF Ledger!Next
<1>3. CASE \/ AuditLog(p) \/ ReadReq(p) \/ RefreshRead(p) \/ RefreshSave(p) \/ RefreshFill(p)
           \/ DeductRead(p) \/ DeductInvalidate(p) \/ RefundRead(p) \/ RefundInvalidate(p)
  <2>1. UNCHANGED reqs
    BY <1>3 DEF AuditLog, ReadReq, RefreshRead, RefreshSave, RefreshFill, DeductRead,
                DeductInvalidate, RefundRead, RefundInvalidate, Invalidate, tables
  <2>2. UNCHANGED balance
    <3>1. ~Insert(p) /\ ~DeductSave(p) /\ ~RefundSave(p)
      BY <1>3 DEF AuditLog, ReadReq, RefreshRead, RefreshSave, RefreshFill, DeductRead,
             DeductInvalidate, RefundRead, RefundInvalidate, Invalidate, Insert,
             DeductSave, RefundSave
    <3>2. QED
      BY <3>1, BalanceWrites
  <2>3. /\ Mine(p)
        /\ \/ ~Past(p) /\ ~Past(p)'
           \/ Past(p) /\ Past(p)' /\ call'[p] = call[p]
    <3>1. CASE AuditLog(p)
      BY <3>1, FinishMine DEF AuditLog, Past, TypeInv
    <3>2. CASE ReadReq(p)
      <4>1. CASE \E a \in {"notFound", "invalidState"} : Finish(p, a)
        BY <3>2, <4>1, FinishMine DEF ReadReq, Past, TypeInv
      <4>2. CASE ~\E a \in {"notFound", "invalidState"} : Finish(p, a)
        <5>1. /\ pc[p] = "readReq" /\ pc'[p] = AfterRead(call[p].kind)
              /\ call'[p] = call[p] /\ Mine(p)
          BY <3>2, <4>2 DEF ReadReq, Goto, TypeInv, TypeOK, Mine
        <5>2. QED
          BY <5>1 DEF Past, AfterRead
      <4>3. QED
        BY <4>1, <4>2
    <3>3. CASE RefreshRead(p) \/ DeductRead(p) \/ RefundRead(p)
      BY <3>3, FindRowMine DEF RefreshRead, DeductRead, RefundRead, Past, TypeInv
    <3>4. CASE RefreshSave(p) \/ RefreshFill(p)
      BY <3>4, GotoMine, FinishMine DEF RefreshSave, RefreshFill, Past, TypeInv, regs
    <3>5. CASE DeductInvalidate(p) \/ RefundInvalidate(p)
      <4>1. /\ Mine(p) /\ pc'[p] = "saveReq" /\ call'[p] = call[p]
            /\ pc[p] \in {"deductInvalidate", "refundInvalidate"}
        BY <3>5, GotoMine DEF DeductInvalidate, RefundInvalidate, Invalidate, regs, TypeInv
      <4>2. call[p].kind \in {"approve", "cancel"}
        BY <4>1, StepKinds DEF TypeInv, TypeOK, ApproveSteps, CancelSteps
      <4>3. QED
        BY <4>1, <4>2 DEF Past
    <3>6. QED
      BY <1>3, <3>1, <3>2, <3>3, <3>4, <3>5
  <2>4. QED
    BY <2>1, <2>2, <2>3, SameStatus, SameDays
<1>4. QED
  BY <1>1, <1>2, <1>3 DEF Step

-----------------------------------------------------------------------------
(* The rows beside the tables.                                               *)

\* A row once there stays, so what was known of it stays true, and a step that
\* brings p to "fill" or "createSave" must establish it.
LEMMA RowsStay ==
    ASSUME TypeInv, TypeInv', DecisionInv, RowsEntitled, NEW p \in Slots, Step(p), Mine(p),
           UNCHANGED cache \/ \A lt \in LeaveTypes : cache'[lt] # NoRow =>
                                 balance[lt] # NoRow /\ Entitled(lt, cache'[lt]),
           pc'[p] = "fill" => balance'[Leave(p)] # NoRow /\ Entitled(Leave(p), row'[p]),
           pc'[p] = "createSave" => /\ balance'[Leave(p)] # NoRow
                                    /\ Days(p) <= Ledger!Entitlement(Leave(p))
    PROVE  RowsEntitled'
<1>1. \A lt \in LeaveTypes : balance[lt] # NoRow => balance'[lt] # NoRow
  <2>1. SUFFICES ASSUME NEW lt \in LeaveTypes, balance[lt] # NoRow, ~UNCHANGED balance
                 PROVE  balance'[lt] # NoRow
    OBVIOUS
  <2>2. DOMAIN balance = LeaveTypes
    BY DEF TypeInv, TypeOK
  <2>3. CASE Opens(p)
    BY <2>1, <2>2, <2>3 DEF Opens
  <2>4. CASE DeductSave(p) /\ Deducts(p)
    <3>1. Leave(p) \in LeaveTypes /\ Days(p) \in Nat
      BY <2>4, WriterKnows
    <3>2. Deducted(balance[Leave(p)], Days(p)) \in Rows
      BY <2>4, <3>1 DEF Deducts, Deducted, Rows
    <3>3. QED
      BY <2>1, <2>2, <2>4, <3>2, NoValueAssumption DEF Deducts
  <2>5. CASE RefundSave(p) /\ Refunds(p)
    <3>1. Leave(p) \in LeaveTypes /\ Days(p) \in Nat
      BY <2>5, WriterKnows
    <3>2. Refunded(balance[Leave(p)], Days(p)) \in Rows
      BY <2>5, <3>1 DEF Refunds, Refunded, Rows
    <3>3. QED
      BY <2>1, <2>2, <2>5, <3>2, NoValueAssumption DEF Refunds
  <2>6. QED
    BY <2>1, <2>3, <2>4, <2>5, BalanceWrites
<1>2. \A lt \in LeaveTypes : cache'[lt] # NoRow => balance'[lt] # NoRow /\ Entitled(lt, cache'[lt])
  BY <1>1 DEF RowsEntitled
<1>3. ASSUME NEW q \in Slots, q # p
      PROVE  /\ pc'[q] = "fill" => balance'[Leave(q)] # NoRow /\ Entitled(Leave(q), row'[q])
             /\ pc'[q] = "createSave" => /\ balance'[Leave(q)] # NoRow
                                         /\ Days(q) <= Ledger!Entitlement(Leave(q))
  <2>1. pc[q] \in {"fill", "createSave"} => Leave(q) \in LeaveTypes
    BY Busy DEF TypeInv
  <2>2. QED
    BY <1>1, <1>3, <2>1 DEF RowsEntitled, Mine
<1>4. \A q \in Slots : pc'[q] # "idle" => call'[q] = call[q]
  BY DEF Mine
<1>5. ASSUME NEW q \in Slots
      PROVE  /\ pc'[q] = "fill" => balance'[Leave(q)] # NoRow /\ Entitled(Leave(q), row'[q])
             /\ pc'[q] = "createSave" => /\ balance'[Leave(q)] # NoRow
                                         /\ Days(q) <= Ledger!Entitlement(Leave(q))
  BY <1>3
<1>6. QED
  BY <1>2, <1>4, <1>5 DEF RowsEntitled, Entitled, Ledger!Entitlement, Leave, Days

\* A row of the table adds up to the entitlement.
LEMMA RowEntitled ==
    ASSUME TypeInv, Backed, NEW lt \in LeaveTypes, balance[lt] # NoRow
    PROVE  Entitled(lt, balance[lt])
BY DaysShown DEF Backed, Entitled

\* What the HCM's numbers hydrate adds up to the entitlement.
LEMMA HydratedEntitled ==
    ASSUME NEW lt \in LeaveTypes PROVE Hydrated(lt) # NoRow /\ Entitled(lt, Hydrated(lt))
BY HcmAssumption, NoValueAssumption DEF Hydrated, Rows, Entitled, Ledger!Entitlement

\* validateBalance lets a request pass only within the entitlement.
LEMMA UseEntitled ==
    ASSUME TypeInv, NEW p \in Slots, pc[p] # "idle", NEW b \in Rows, Entitled(Leave(p), b),
           UseBalance(p, b), pc'[p] = "createSave"
    PROVE  Days(p) <= Ledger!Entitlement(Leave(p))
<1>1. ~(call[p].kind = "get") /\ ~(b.available < Days(p))
  BY DEF UseBalance, Finish, TypeInv, TypeOK
<1>2. Days(p) \in Nat
  BY <1>1, Busy DEF TypeInv
<1>3. b.available \in Nat /\ b.used \in Nat
  BY DEF Rows
<1>4. QED
  BY <1>1, <1>2, <1>3 DEF Entitled

\* Every step of a handler keeps the rows entitled.
LEMMA StepEntitled ==
    ASSUME TypeInv, TypeInv', DecisionInv, RefInv, NEW p \in Slots, Step(p)
    PROVE  RowsEntitled'
<1> USE DEF RefInv
<1>1. CASE DimRead(p) \/ HcmAnswer(p) \/ Insert(p) \/ Lookup(p) \/ BalRead(p) \/ Fill(p)
  <2>m. Mine(p) /\ pc'[p] \in FetchNext /\ pc[p] # "idle" /\ Leave(p) \in LeaveTypes
    <3>1. pc[p] # "idle"
      BY <1>1 DEF DimRead, HcmAnswer, Insert, Lookup, BalRead, Fill
    <3>2. QED
      BY <1>1, <3>1, FetchMine, Busy DEF TypeInv
  <2>1. CASE DimRead(p) \/ HcmAnswer(p)
    <3>1. pc'[p] \notin {"fill", "createSave"} /\ UNCHANGED cache
      BY <2>1 DEF DimRead, HcmAnswer, Goto, TypeInv, TypeOK
    <3>2. QED
      BY <2>m, <3>1, RowsStay
  <2>2. CASE Insert(p)
    <3>1. UNCHANGED cache /\ pc'[p] # "createSave"
      BY <2>2 DEF Insert, HydrationFailed, Finish, Goto, TypeInv, TypeOK
    <3>2. pc'[p] = "fill" => balance'[Leave(p)] # NoRow /\ Entitled(Leave(p), row'[p])
      <4>1. SUFFICES ASSUME pc'[p] = "fill"
                     PROVE  balance'[Leave(p)] = Hydrated(Leave(p))
                              /\ row'[p] = Hydrated(Leave(p))
        BY <2>m, HydratedEntitled
      <4>2. QED
        BY <2>2, <2>m, <4>1 DEF Insert, HydrationFailed, Finish, TypeInv, TypeOK
    <3>3. QED
      BY <2>m, <3>1, <3>2, RowsStay
  <2>3. CASE Lookup(p)
    <3>1. UNCHANGED <<cache, balance>> /\ pc'[p] # "fill"
      BY <2>3 DEF Lookup, UseBalance, Finish, Goto, TypeInv, TypeOK, tables
    <3>2. ASSUME pc'[p] = "createSave"
          PROVE  balance'[Leave(p)] # NoRow /\ Days(p) <= Ledger!Entitlement(Leave(p))
      <4>1. cache[Leave(p)] # NoRow /\ UseBalance(p, cache[Leave(p)])
        BY <2>3, <3>2 DEF Lookup, Goto, TypeInv, TypeOK
      <4>2. cache[Leave(p)] \in Rows
        BY <2>m, <4>1 DEF TypeInv, TypeOK
      <4>3. balance[Leave(p)] # NoRow /\ Entitled(Leave(p), cache[Leave(p)])
        BY <2>m, <4>1 DEF RowsEntitled
      <4>4. QED
        BY <2>m, <3>1, <3>2, <4>1, <4>2, <4>3, UseEntitled
    <3>3. QED
      BY <2>m, <3>1, <3>2, RowsStay
  <2>4. CASE BalRead(p)
    <3>1. UNCHANGED <<cache, balance>> /\ pc'[p] # "createSave"
      BY <2>4 DEF BalRead, Goto, TypeInv, TypeOK, tables
    <3>2. ASSUME pc'[p] = "fill"
          PROVE  balance'[Leave(p)] # NoRow /\ Entitled(Leave(p), row'[p])
      <4>1. balance[Leave(p)] # NoRow /\ row'[p] = balance[Leave(p)]
        BY <2>4, <3>2 DEF BalRead, Goto, TypeInv, TypeOK
      <4>2. QED
        BY <2>m, <3>1, <4>1, RowEntitled
    <3>3. QED
      BY <2>m, <3>1, <3>2, RowsStay
  <2>5. CASE Fill(p)
    <3>1. row[p] \in Rows /\ balance[Leave(p)] # NoRow /\ Entitled(Leave(p), row[p])
      BY <2>5 DEF Fill, TypeInv, HoldsRow, RowsEntitled
    <3>2. cache' = [cache EXCEPT ![Leave(p)] = row[p]] /\ UNCHANGED balance /\ pc'[p] # "fill"
      BY <2>5 DEF Fill, UseBalance, Finish, Goto, TypeInv, TypeOK, tables
    <3>3. \A lt \in LeaveTypes : cache'[lt] # NoRow =>
             balance[lt] # NoRow /\ Entitled(lt, cache'[lt])
      BY <3>1, <3>2 DEF TypeInv, TypeOK, RowsEntitled
    <3>4. ASSUME pc'[p] = "createSave"
          PROVE  balance'[Leave(p)] # NoRow /\ Days(p) <= Ledger!Entitlement(Leave(p))
      <4>1. UseBalance(p, row[p])
        BY <2>5 DEF Fill
      <4>2. QED
        BY <2>m, <3>1, <3>2, <3>4, <4>1, UseEntitled
    <3>5. QED
      BY <2>m, <3>2, <3>3, <3>4, RowsStay
  <2>6. QED
    BY <1>1, <2>1, <2>2, <2>3, <2>4, <2>5
<1>2. CASE CreateSave(p) \/ SaveReq(p)
  <2>1. Written(p)
    BY <1>2, CreateWrites, SaveWrites
  <2>2. Mine(p) /\ pc'[p] = "audit" /\ UNCHANGED cache
    BY <2>1 DEF Written
  <2>3. QED
    BY <2>2, RowsStay
<1>3. CASE AuditLog(p) \/ ReadReq(p)
  <2>1. Mine(p) /\ pc'[p] \notin {"fill", "createSave"} /\ UNCHANGED cache
    <3>1. CASE AuditLog(p)
      BY <3>1, FinishMine DEF AuditLog, TypeInv
    <3>2. CASE ReadReq(p) /\ \E a \in {"notFound", "invalidState"} : Finish(p, a)
      BY <3>2, FinishMine DEF ReadReq, TypeInv
    <3>3. CASE ReadReq(p) /\ ~\E a \in {"notFound", "invalidState"} : Finish(p, a)
      <4>1. /\ pc'[p] = AfterRead(call[p].kind) /\ Mine(p) /\ UNCHANGED cache
        BY <3>3 DEF ReadReq, Goto, TypeInv, TypeOK, Mine
      <4>2. QED
        BY <4>1 DEF AfterRead
    <3>4. QED
      BY <1>3, <3>1, <3>2, <3>3
  <2>2. QED
    BY <2>1, RowsStay
<1>4. CASE \/ RefreshRead(p) \/ RefreshSave(p) \/ DeductRead(p) \/ DeductSave(p)
           \/ RefundRead(p) \/ RefundSave(p)
  <2>1. Mine(p) /\ pc'[p] \notin {"fill", "createSave"} /\ UNCHANGED cache
    <3>1. CASE RefreshRead(p) \/ DeductRead(p) \/ RefundRead(p)
      BY <3>1, FindRowMine DEF RefreshRead, DeductRead, RefundRead, TypeInv
    <3>2. CASE RefreshSave(p) \/ DeductSave(p) \/ RefundSave(p)
      BY <3>2, GotoMine, FinishMine DEF RefreshSave, DeductSave, RefundSave, TypeInv, regs
    <3>3. QED
      BY <1>4, <3>1, <3>2
  <2>2. QED
    BY <2>1, RowsStay
<1>5. CASE DeductInvalidate(p) \/ RefundInvalidate(p)
  <2>1. /\ Mine(p) /\ pc'[p] = "saveReq"
        /\ cache' = [lt \in LeaveTypes |-> NoRow]
    BY <1>5, GotoMine DEF DeductInvalidate, RefundInvalidate, Invalidate, regs, TypeInv
  <2>2. QED
    BY <2>1, RowsStay
<1>6. CASE RefreshFill(p)
  <2>1. /\ Mine(p) /\ pc'[p] \notin {"fill", "createSave"}
        /\ cache' = [cache EXCEPT ![Leave(p)] = row[p]]
    BY <1>6, GotoMine, FinishMine DEF RefreshFill, regs, TypeInv
  <2>2. row[p] = balance[Leave(p)] /\ row[p] \in Rows /\ Leave(p) \in LeaveTypes
    BY <1>6, Busy DEF RefreshFill, DecisionInv, HeldCurrent, TypeInv, HoldsRow
  <2>3. Entitled(Leave(p), row[p]) /\ balance[Leave(p)] # NoRow
    BY <2>2, RowEntitled, NoValueAssumption
  <2>4. \A lt \in LeaveTypes : cache'[lt] # NoRow =>
             balance[lt] # NoRow /\ Entitled(lt, cache'[lt])
    BY <2>1, <2>2, <2>3 DEF TypeInv, TypeOK, RowsEntitled
  <2>5. QED
    BY <2>1, <2>4, RowsStay
<1>7. QED
  BY <1>1, <1>2, <1>3, <1>4, <1>5, <1>6 DEF Step

\* A call that arrives shows nothing.
LEMMA StartRefines ==
    ASSUME TypeInv, RefInv, NEW p \in Slots, Start(p)
    PROVE  UNCHANGED <<LedgerStatus, LedgerDays>> /\ RowsEntitled'
<1>1. /\ UNCHANGED <<reqs, balance, cache, row>>
      /\ pc[p] = "idle" /\ pc'[p] \in {"lookup", "dimRead", "readReq"}
      /\ \A q \in Slots : q # p => pc'[q] = pc[q] /\ call'[q] = call[q]
  BY DEF Start, StartGet, StartCreate, StartDecision, Begin, Goto, tables, TypeInv, TypeOK
<1>2. \A r \in Requests, k \in {"approve", "cancel"} :
          BetweenWrites(k, r)' <=> BetweenWrites(k, r)
  BY <1>1 DEF BetweenWrites
<1>3. UNCHANGED LedgerStatus
  BY <1>1, <1>2 DEF LedgerStatus
<1>4. RowsEntitled'
  BY <1>1 DEF RefInv, RowsEntitled, Entitled, Ledger!Entitlement, Leave, Days
<1>5. QED
  BY <1>1, <1>3, <1>4, SameDays

\* An entry that expires, or a step that is none, shows nothing.
LEMMA IdleRefines ==
    ASSUME TypeInv, RefInv, UNCHANGED <<tables, pc, regs>>,
           UNCHANGED cache \/ \E lt \in LeaveTypes : Expire(lt)
    PROVE  UNCHANGED <<LedgerStatus, LedgerDays>> /\ RowsEntitled'
<1>1. UNCHANGED <<reqs, balance, pc, call, row>>
  BY DEF tables, regs
<1>2. UNCHANGED <<LedgerStatus, LedgerDays>>
  BY <1>1 DEF LedgerStatus, LedgerDays, BetweenWrites
<1>3. \A lt \in LeaveTypes : cache'[lt] # NoRow => cache'[lt] = cache[lt]
  BY DEF Expire, TypeInv, TypeOK
<1>4. QED
  BY <1>1, <1>2, <1>3 DEF RefInv, RowsEntitled, Entitled, Ledger!Entitlement, Leave, Days

\* Without failures every step is one of the ledger or shows nothing, and keeps
\* the invariant that the next one needs.
LEMMA NextRefines ==
    ASSUME MaxFaults = 0, TypeInv, TypeInv', DecisionInv, DecisionInv', RefInv, [Next]_vars
    PROVE  [Ledger!Next]_<<LedgerStatus, LedgerDays>> /\ RefInv'
<1>1. [Ledger!Next]_<<LedgerStatus, LedgerDays>> /\ RowsEntitled'
  <2>1. ASSUME NEW p \in Slots, Start(p)
        PROVE  UNCHANGED <<LedgerStatus, LedgerDays>> /\ RowsEntitled'
    BY <2>1, StartRefines
  <2>2. ASSUME NEW p \in Slots, Step(p)
        PROVE  [Ledger!Next]_<<LedgerStatus, LedgerDays>> /\ RowsEntitled'
    BY <2>2, StepRefines, StepEntitled
  <2>3. ~(faults < MaxFaults)
    BY DEF TypeInv, TypeOK
  <2>4. ASSUME NEW lt \in LeaveTypes, Expire(lt)
        PROVE  UNCHANGED <<LedgerStatus, LedgerDays>> /\ RowsEntitled'
    <3>1. UNCHANGED <<tables, pc, regs>>
      BY <2>4 DEF Expire
    <3>2. QED
      BY <2>4, <3>1, IdleRefines
  <2>5. ASSUME UNCHANGED vars
        PROVE  UNCHANGED <<LedgerStatus, LedgerDays>> /\ RowsEntitled'
    <3>1. UNCHANGED <<tables, pc, regs>> /\ UNCHANGED cache
      BY <2>5 DEF vars
    <3>2. QED
      BY <3>1, IdleRefines
  <2>6. QED
    BY <2>1, <2>2, <2>3, <2>4, <2>5 DEF Next, Fault, Crash
<1>2. LedgerTyped /\ LedgerTyped'
  BY TypedLedger, PTL
<1>3. Backed'
  BY <1>1, <1>2, LedgerBacked DEF RefInv
<1>4. QED
  BY <1>1, <1>3 DEF RefInv

\* Initially nothing is submitted and no leave type opened.
LEMMA InitRefines == Init => Ledger!Init /\ RefInv
<1> SUFFICES ASSUME Init PROVE Ledger!Init /\ RefInv
  OBVIOUS
<1>1. /\ reqs = [r \in Requests |-> [status |-> "NONE", version |-> 0]]
      /\ balance = [lt \in LeaveTypes |-> NoRow]
      /\ cache = [lt \in LeaveTypes |-> NoRow]
      /\ pc = [p \in Slots |-> "idle"]
  BY DEF Init
<1>2. \A k, r : ~BetweenWrites(k, r)
  BY <1>1 DEF BetweenWrites
<1>3. LedgerStatus = [r \in Requests |-> "NONE"]
  BY <1>1, <1>2 DEF LedgerStatus
<1>4. LedgerDays = [lt \in LeaveTypes |-> NoRow]
  BY <1>1 DEF LedgerDays
<1>5. Backed /\ RowsEntitled
  BY <1>1, <1>3, <1>4, LeaveOfAssumption DEF Backed, RowsEntitled
<1>6. QED
  BY <1>3, <1>4, <1>5 DEF RefInv, Ledger!Init

\* One decision per leave type at a time and no failures: the service is the
\* ledger, in which a status and its days change together.
THEOREM RequestsRefineLedger ==
    ASSUME MaxDecisions <= 1, MaxFaults = 0 PROVE Spec => LedgerRefined
<1>1. TypeInv /\ TypeInv' /\ DecisionInv /\ DecisionInv' /\ RefInv /\ [Next]_vars
         => [Ledger!Next]_<<LedgerStatus, LedgerDays>> /\ RefInv'
  BY NextRefines
<1>2. QED
  BY <1>1, InitRefines, DecisionInvariant, TypeInvariant, PTL
     DEF Spec, LedgerRefined, Ledger!Spec

\* Of the days the HCM granted, what the approved requests take is written off,
\* and nothing else.
BooksBalance ==
    \A lt \in LeaveTypes : balance[lt] # NoRow =>
        /\ balance[lt].used = HcmBalance[lt].used + Total[ApprovedOn(lt)]
        /\ balance[lt].available = HcmBalance[lt].available - Total[ApprovedOn(lt)]

\* What the ledger promises holds of the balances table: after any creates, reads,
\* approvals, rejections and cancellations, beside one another, a row is the HCM's
\* numbers less the days of the requests approved on it (a request whose decision
\* is between its two writes counts as decided).
THEOREM RequestsBooksBalance ==
    ASSUME MaxDecisions <= 1, MaxFaults = 0 PROVE Spec => []BooksBalance
<1>1. TypeInv /\ RefInv => BooksBalance
  <2> SUFFICES ASSUME TypeInv, RefInv, NEW lt \in LeaveTypes, balance[lt] # NoRow
               PROVE  /\ balance[lt].used = UsedBy(lt, ApprovedOn(lt))
                      /\ balance[lt].available = HcmBalance[lt].available - Total[ApprovedOn(lt)]
    BY DEF BooksBalance, UsedBy
  <2>1. PICK a \in Nat, u \in Nat : a = balance[lt].available /\ u = balance[lt].used
    BY DaysShown DEF Rows
  <2>2. a + u = Ledger!Entitlement(lt) /\ u = UsedBy(lt, ApprovedOn(lt))
    BY <2>1, DaysShown DEF RefInv, Backed, Entitled
  <2>3. HcmBalance[lt].available \in Nat /\ HcmBalance[lt].used \in Nat
    BY HcmAssumption
  <2>4. Total[ApprovedOn(lt)] \in Nat
    BY TotalOf DEF ApprovedOn
  <2>5. QED
    BY <2>1, <2>2, <2>3, <2>4 DEF Ledger!Entitlement, UsedBy
<1>2. TypeInv /\ TypeInv' /\ DecisionInv /\ DecisionInv' /\ RefInv /\ [Next]_vars => RefInv'
  BY NextRefines
<1>3. QED
  BY <1>1, <1>2, InitRefines, DecisionInvariant, TypeInvariant, PTL DEF Spec

=============================================================================
