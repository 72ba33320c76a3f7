---------------------------- MODULE TimeOffRequests ----------------------------
(***************************************************************************)
(* The life of time-off requests: TimeOffRequestService over               *)
(* BalancesService, BalanceCacheService, the TypeORM repositories and the   *)
(* audit trail, for one employee at one location.                          *)
(*                                                                         *)
(* The service is one Node process.  A handler runs alone from one await    *)
(* to the next, and handlers of concurrent HTTP calls interleave at the     *)
(* awaits, so one action below is one database operation together with the  *)
(* purely local code around it.  Code that touches the shared in-memory     *)
(* cache after an await is an action of its own: between the database's     *)
(* answer and that code other handlers may run.                             *)
(***************************************************************************)
EXTENDS Integers, FiniteSets

CONSTANTS
    Requests,           \* rows of the requests table (their UUIDs)
    Slots,              \* HTTP calls that can be in flight at once
    LeaveTypes,         \* the employee's leave types, one balance row each
    LeaveOf,            \* request -> its leave type      (immutable columns)
    DaysOf,             \* request -> days_requested
    HcmBalance,         \* leave type -> what the HCM answers to getBalance
    MaxRetries,         \* OPTIMISTIC_LOCK_MAX_RETRIES
    SaveChecksVersion,  \* TRUE:  save() of a request checks its @VersionColumn,
                        \*        the contract the code's comments state;
                        \* FALSE: save() is a plain UPDATE by primary key
    MaxDecisions,       \* approve/reject/cancel calls in flight at once on
                        \* requests of one leave type
    MaxCalls,           \* bound: calls a behaviour starts
    MaxFaults,          \* bound: database errors, HCM errors and crashes
    NoRow,              \* no row in a table, no entry in the cache
    NoRequest           \* a call that names no request

Statuses == {"NONE", "PENDING", "APPROVED", "REJECTED", "CANCELLED"}

DecisionKinds == {"approve", "reject", "cancel"}

GetCalls == [kind : {"get"}, req : {NoRequest}, leave : LeaveTypes]

RequestCalls == {[kind |-> k, req |-> r, leave |-> LeaveOf[r]] :
                    k \in DecisionKinds \cup {"create"}, r \in Requests}

NoCall == [kind |-> "none", req |-> NoRequest, leave |-> NoRow]

Rows == [available : Nat, used : Nat, version : Nat \ {0}]

ASSUME LeaveOfAssumption == LeaveOf \in [Requests -> LeaveTypes]
ASSUME DaysOfAssumption == DaysOf \in [Requests -> Nat \ {0}]
ASSUME HcmAssumption == HcmBalance \in [LeaveTypes -> [available : Nat, used : Nat]]
ASSUME BoundsAssumption ==
    /\ MaxRetries \in Nat \ {0}
    /\ MaxDecisions \in Nat
    /\ MaxCalls \in Nat
    /\ MaxFaults \in Nat
ASSUME ModeAssumption == SaveChecksVersion \in BOOLEAN
ASSUME NoValueAssumption == NoRow \notin Rows /\ NoRequest \notin Requests

VARIABLES
    reqs,       \* requests table: [status, version], status "NONE" = no such row
    balance,    \* balances table, by leave type
    audit,      \* audit_logs: the <<request, new status>> pairs recorded
    cache,      \* BalanceCacheService.cache, by leave type
    pc,         \* slot -> the step its handler is about to take
    call,       \* slot -> the call it serves
    seen,       \* slot -> version of the request entity it holds
    row,        \* slot -> the Balance entity it holds
    attempt,    \* slot -> approveRequest's attempt counter
    reply,      \* slot -> answer of the last call it served
    calls,      \* calls started so far
    faults,     \* faults injected so far
    taken,      \* history: deductions written for a request
    refunded,   \* history: refunds written for a request
    debited,    \* history: days all deductions took, by leave type
    credited    \* history: days all refunds gave back, by leave type

tables  == <<reqs, balance, audit>>
regs    == <<call, seen, row, attempt, reply>>
budget  == <<calls, faults>>
history == <<taken, refunded, debited, credited>>
vars    == <<tables, cache, pc, regs, budget, history>>

-----------------------------------------------------------------------------
(* The steps of each kind of call, in the order the handlers take them.      *)

HydrateSteps  == {"hcm", "insert"}
FetchSteps    == {"lookup", "balRead", "fill"}
CreateSteps   == {"dimRead", "createSave"} \cup HydrateSteps \cup FetchSteps
ApproveSteps  == {"refreshRead", "refreshSave", "refreshFill",
                  "deductRead", "deductSave", "deductInvalidate"}
CancelSteps   == {"refundRead", "refundSave", "refundInvalidate"}

StepsOf(k) ==
    CASE k = "get"     -> FetchSteps \cup HydrateSteps
      [] k = "create"  -> CreateSteps \cup {"audit"}
      [] k = "approve" -> ApproveSteps \cup {"readReq", "saveReq", "audit"}
      [] k = "reject"  -> {"readReq", "saveReq", "audit"}
      [] k = "cancel"  -> CancelSteps \cup {"readReq", "saveReq", "audit"}
      [] OTHER         -> {"idle"}

StepNames == CreateSteps \cup ApproveSteps \cup CancelSteps
                \cup {"idle", "readReq", "saveReq", "audit"}

\* Steps that are a query to the database, where it can fail.
DbSteps == StepNames \ {"idle", "hcm", "lookup", "fill", "refreshFill",
                        "deductInvalidate", "refundInvalidate"}

Replies == {"none", "ok", "invalidState", "insufficient", "invalidDimension",
            "notFound", "conflict", "lockError", "error"}

\* The status a decision asks for, and the only one it may start from.
Source(k) == IF k = "cancel" THEN "APPROVED" ELSE "PENDING"
Target(k) == CASE k = "create"  -> "PENDING"
               [] k = "approve" -> "APPROVED"
               [] k = "reject"  -> "REJECTED"
               [] OTHER         -> "CANCELLED"

Init ==
    /\ reqs = [r \in Requests |-> [status |-> "NONE", version |-> 0]]
    /\ balance = [lt \in LeaveTypes |-> NoRow]
    /\ audit = {}
    /\ cache = [lt \in LeaveTypes |-> NoRow]
    /\ pc = [p \in Slots |-> "idle"]
    /\ call = [p \in Slots |-> NoCall]
    /\ seen = [p \in Slots |-> 0]
    /\ row = [p \in Slots |-> NoRow]
    /\ attempt = [p \in Slots |-> 0]
    /\ reply = [p \in Slots |-> "none"]
    /\ calls = 0 /\ faults = 0
    /\ taken = [r \in Requests |-> 0]
    /\ refunded = [r \in Requests |-> 0]
    /\ debited = [lt \in LeaveTypes |-> 0]
    /\ credited = [lt \in LeaveTypes |-> 0]

-----------------------------------------------------------------------------
(* Control of one handler.                                                   *)

Leave(p) == call[p].leave
Req(p)   == call[p].req
Days(p)  == DaysOf[call[p].req]

Goto(p, step) == pc' = [pc EXCEPT ![p] = step]

\* The handler returns or throws; its local entities are gone.
Finish(p, answer) ==
    /\ pc' = [pc EXCEPT ![p] = "idle"]
    /\ call' = [call EXCEPT ![p] = NoCall]
    /\ seen' = [seen EXCEPT ![p] = 0]
    /\ row' = [row EXCEPT ![p] = NoRow]
    /\ attempt' = [attempt EXCEPT ![p] = 0]
    /\ reply' = [reply EXCEPT ![p] = answer]

\* A call arrives at a free slot.
Begin(p, c, step) ==
    /\ pc[p] = "idle"
    /\ calls < MaxCalls
    /\ calls' = calls + 1
    /\ Goto(p, step)
    /\ call' = [call EXCEPT ![p] = c]
    /\ attempt' = [attempt EXCEPT ![p] = 1]
    /\ reply' = [reply EXCEPT ![p] = "none"]
    /\ UNCHANGED <<tables, cache, seen, row, faults, history>>

StartGet(p) == \E c \in GetCalls : Begin(p, c, "lookup")

\* A new UUID: nobody else is creating this row.
StartCreate(p) ==
    \E c \in {x \in RequestCalls : x.kind = "create"} :
        /\ reqs[c.req].status = "NONE"
        /\ \A q \in Slots : call[q] # c
        /\ Begin(p, c, "dimRead")

Deciding(lt) == {q \in Slots : call[q].kind \in DecisionKinds /\ Leave(q) = lt}

StartDecision(p) ==
    \E c \in {x \in RequestCalls : x.kind \in DecisionKinds} :
        /\ Cardinality(Deciding(c.leave)) < MaxDecisions
        /\ Begin(p, c, "readReq")

-----------------------------------------------------------------------------
(* validateDimensions, getBalance and the hydration they share.              *)

\* hydrateBalanceFromHCM swallowed an error and returned null.
HydrationFailed(p) ==
    Finish(p, IF call[p].kind = "create" THEN "invalidDimension" ELSE "notFound")

DimRead(p) ==
    /\ pc[p] = "dimRead"
    /\ Goto(p, IF balance[Leave(p)] = NoRow THEN "hcm" ELSE "lookup")
    /\ UNCHANGED <<tables, cache, regs, budget, history>>

\* The HCM answered; its numbers never change here, so none are kept.
HcmAnswer(p) ==
    /\ pc[p] = "hcm"
    /\ Goto(p, "insert")
    /\ UNCHANGED <<tables, cache, regs, budget, history>>

Hydrated(lt) == [available |-> HcmBalance[lt].available,
                 used |-> HcmBalance[lt].used,
                 version |-> 1]

\* INSERT of the hydrated row; the UNIQUE constraint refuses a second one.
Insert(p) ==
    /\ pc[p] = "insert"
    /\ \/ /\ balance[Leave(p)] = NoRow
          /\ balance' = [balance EXCEPT ![Leave(p)] = Hydrated(Leave(p))]
          /\ row' = [row EXCEPT ![p] = Hydrated(Leave(p))]
          /\ Goto(p, IF call[p].kind = "create" THEN "lookup" ELSE "fill")
          /\ UNCHANGED <<call, seen, attempt, reply>>
       \/ /\ balance[Leave(p)] # NoRow
          /\ HydrationFailed(p)
          /\ UNCHANGED balance
    /\ UNCHANGED <<reqs, audit, cache, budget, history>>

\* What getBalance's caller does with the balance: return it, or let
\* validateBalance compare it.  (createRequest's second getBalance, for the
\* snapshot, follows in the same turn and hits the cache.)
UseBalance(p, b) ==
    IF call[p].kind = "get" THEN Finish(p, "ok")
    ELSE IF b.available < Days(p) THEN Finish(p, "insufficient")
    ELSE Goto(p, "createSave") /\ UNCHANGED regs

Lookup(p) ==
    /\ pc[p] = "lookup"
    /\ \/ /\ cache[Leave(p)] # NoRow
          /\ UseBalance(p, cache[Leave(p)])
       \/ /\ cache[Leave(p)] = NoRow
          /\ Goto(p, "balRead")
          /\ UNCHANGED regs
    /\ UNCHANGED <<tables, cache, budget, history>>

BalRead(p) ==
    /\ pc[p] = "balRead"
    /\ row' = [row EXCEPT ![p] = balance[Leave(p)]]
    /\ Goto(p, IF balance[Leave(p)] = NoRow THEN "hcm" ELSE "fill")
    /\ UNCHANGED <<tables, cache, call, seen, attempt, reply, budget, history>>

Fill(p) ==
    /\ pc[p] = "fill"
    /\ cache' = [cache EXCEPT ![Leave(p)] = row[p]]
    /\ UseBalance(p, row[p])
    /\ UNCHANGED <<tables, budget, history>>

-----------------------------------------------------------------------------
(* createRequest's save and the audit record every mutation ends with.       *)

CreateSave(p) ==
    /\ pc[p] = "createSave"
    /\ reqs' = [reqs EXCEPT ![Req(p)] = [status |-> "PENDING", version |-> 1]]
    /\ Goto(p, "audit")
    /\ UNCHANGED <<balance, audit, cache, regs, budget, history>>

AuditLog(p) ==
    /\ pc[p] = "audit"
    /\ audit' = audit \cup {<<Req(p), Target(call[p].kind)>>}
    /\ Finish(p, "ok")
    /\ UNCHANGED <<reqs, balance, cache, budget, history>>

-----------------------------------------------------------------------------
(* approveRequest, rejectRequest and cancelRequest.                          *)

AfterRead(k) == CASE k = "approve" -> "refreshRead"
                  [] k = "cancel"  -> "refundRead"
                  [] OTHER         -> "saveReq"

\* Mutant: the state-transition check is missing.
ReadReqUnchecked(p) ==
    /\ pc[p] = "readReq"
    /\ seen' = [seen EXCEPT ![p] = reqs[Req(p)].version]
    /\ Goto(p, AfterRead(call[p].kind))
    /\ UNCHANGED <<call, row, attempt, reply, tables, cache, budget, history>>

ReadReq(p) ==
    /\ pc[p] = "readReq"
    /\ \/ /\ reqs[Req(p)].status = Source(call[p].kind)
          /\ seen' = [seen EXCEPT ![p] = reqs[Req(p)].version]
          /\ Goto(p, AfterRead(call[p].kind))
          /\ UNCHANGED <<call, row, attempt, reply>>
       \/ /\ reqs[Req(p)].status # Source(call[p].kind)
          /\ Finish(p, IF reqs[Req(p)].status = "NONE" THEN "notFound"
                                                      ELSE "invalidState")
    /\ UNCHANGED <<tables, cache, budget, history>>

\* findByDimensions inside refreshBalance, updateUsedBalance, refundBalance.
FindRow(p, next) ==
    IF balance[Leave(p)] = NoRow THEN Finish(p, "notFound")
    ELSE /\ row' = [row EXCEPT ![p] = balance[Leave(p)]]
         /\ Goto(p, next)
         /\ UNCHANGED <<call, seen, attempt, reply>>

\* refreshBalance: read the row, write the whole entity back, cache it.
RefreshRead(p) ==
    /\ pc[p] = "refreshRead"
    /\ FindRow(p, "refreshSave")
    /\ UNCHANGED <<tables, cache, budget, history>>

RefreshSave(p) ==
    /\ pc[p] = "refreshSave"
    /\ balance' = [balance EXCEPT ![Leave(p)] = row[p]]
    /\ Goto(p, "refreshFill")
    /\ UNCHANGED <<reqs, audit, cache, regs, budget, history>>

\* Mutant: the request is saved without its deduction.
RefreshFillThenSave(p) ==
    /\ pc[p] = "refreshFill"
    /\ cache' = [cache EXCEPT ![Leave(p)] = row[p]]
    /\ Goto(p, "saveReq")
    /\ UNCHANGED <<tables, regs, budget, history>>

\* Mutant: validateBalance is not called again after the refresh.
RefreshFillUnjudged(p) ==
    /\ pc[p] = "refreshFill"
    /\ cache' = [cache EXCEPT ![Leave(p)] = row[p]]
    /\ Goto(p, "deductRead")
    /\ UNCHANGED <<tables, regs, budget, history>>

\* setInCache and, in the same turn, validateBalance on the entry just set.
RefreshFill(p) ==
    /\ pc[p] = "refreshFill"
    /\ cache' = [cache EXCEPT ![Leave(p)] = row[p]]
    /\ IF row[p].available < Days(p)
         THEN Finish(p, "insufficient")
         ELSE Goto(p, "deductRead") /\ UNCHANGED regs
    /\ UNCHANGED <<tables, budget, history>>

\* Mutant: the days leave available_balance and are not booked as used.
DeductedNotUsed(b, d) ==
    [b EXCEPT !.available = @ - d, !.version = @ + 1]

Deducted(b, d) ==
    [available |-> b.available - d, used |-> b.used + d, version |-> b.version + 1]

\* Mutant: the new numbers go into the cache before the row is saved.
DeductReadCachesFirst(p) ==
    /\ pc[p] = "deductRead"
    /\ FindRow(p, "deductSave")
    /\ cache' = IF row'[p] # NoRow /\ row'[p].available >= Days(p)
                THEN [cache EXCEPT ![Leave(p)] = Deducted(row'[p], Days(p))]
                ELSE cache
    /\ UNCHANGED <<tables, budget, history>>

\* updateUsedBalance: a second read, then the write of the new numbers.
DeductRead(p) ==
    /\ pc[p] = "deductRead"
    /\ FindRow(p, "deductSave")
    /\ UNCHANGED <<tables, cache, budget, history>>

\* History: a deduction or a refund is written for this handler's request.
Debit(p) ==
    /\ taken' = [taken EXCEPT ![Req(p)] = @ + 1]
    /\ debited' = [debited EXCEPT ![Leave(p)] = @ + Days(p)]
    /\ UNCHANGED <<refunded, credited>>

Credit(p) ==
    /\ refunded' = [refunded EXCEPT ![Req(p)] = @ + 1]
    /\ credited' = [credited EXCEPT ![Leave(p)] = @ + Days(p)]
    /\ UNCHANGED <<taken, debited>>

\* Mutant: no CHECK constraint on available_balance.
DeductSaveUnchecked(p) ==
    /\ pc[p] = "deductSave"
    /\ balance' = [balance EXCEPT ![Leave(p)] = Deducted(row[p], Days(p))]
    /\ Debit(p)
    /\ Goto(p, "deductInvalidate")
    /\ UNCHANGED <<reqs, audit, cache, regs, budget>>

\* The CHECK constraint refuses a negative available_balance.
DeductSave(p) ==
    /\ pc[p] = "deductSave"
    /\ \/ /\ row[p].available >= Days(p)
          /\ balance' = [balance EXCEPT ![Leave(p)] = Deducted(row[p], Days(p))]
          /\ Debit(p)
          /\ Goto(p, "deductInvalidate")
          /\ UNCHANGED regs
       \/ /\ row[p].available < Days(p)
          /\ Finish(p, "error")
          /\ UNCHANGED <<balance, history>>
    /\ UNCHANGED <<reqs, audit, cache, budget>>

\* refundBalance.
RefundRead(p) ==
    /\ pc[p] = "refundRead"
    /\ FindRow(p, "refundSave")
    /\ UNCHANGED <<tables, cache, budget, history>>

\* Mutant: the days are taken off used_balance and not given back.
RefundedOnce(b, d) ==
    [available |-> b.available,
     used |-> IF b.used > d THEN b.used - d ELSE 0,
     version |-> b.version + 1]

\* used_balance is cut at zero: Math.max(0, used - days).
Refunded(b, d) ==
    [available |-> b.available + d,
     used |-> IF b.used > d THEN b.used - d ELSE 0,
     version |-> b.version + 1]

RefundSave(p) ==
    /\ pc[p] = "refundSave"
    /\ balance' = [balance EXCEPT ![Leave(p)] = Refunded(row[p], Days(p))]
    /\ Credit(p)
    /\ Goto(p, "refundInvalidate")
    /\ UNCHANGED <<reqs, audit, cache, regs, budget>>

\* invalidateCache drops every leave type of the employee at the location.
Invalidate(p, step) ==
    /\ pc[p] = step
    /\ cache' = [lt \in LeaveTypes |-> NoRow]
    /\ Goto(p, "saveReq")
    /\ UNCHANGED <<tables, regs, budget, history>>

DeductInvalidate(p) == Invalidate(p, "deductInvalidate")
RefundInvalidate(p) == Invalidate(p, "refundInvalidate")

\* Mutant: an off-by-one comparison sees a conflict in an unchanged row.
VersionConflictAlways(p) == SaveChecksVersion /\ reqs[Req(p)].version >= seen[p]

\* UPDATE ... WHERE id = ? AND version = N found no row.
VersionConflict(p) == SaveChecksVersion /\ reqs[Req(p)].version # seen[p]

\* Mutant: the loop saves the same stale entity again.
RetrySameEntity(p) == pc[p] = "saveReq" /\ UNCHANGED <<pc, regs>>

\* Only approveRequest catches OptimisticLockVersionMismatchError.
RetryOrGiveUp(p) ==
    IF call[p].kind = "approve" /\ attempt[p] < MaxRetries
    THEN /\ attempt' = [attempt EXCEPT ![p] = @ + 1]
         /\ Goto(p, "readReq")
         /\ UNCHANGED <<call, seen, row, reply>>
    ELSE Finish(p, IF call[p].kind = "approve" THEN "conflict" ELSE "lockError")

\* Mutant: the audit record is written whether or not the row was.
SaveReqAuditsAnyway(p) ==
    /\ pc[p] = "saveReq"
    /\ reqs' = IF VersionConflict(p) THEN reqs
               ELSE [reqs EXCEPT ![Req(p)] = [status |-> Target(call[p].kind),
                                              version |-> @.version + 1]]
    /\ Goto(p, "audit")
    /\ UNCHANGED <<balance, audit, cache, regs, budget, history>>

\* Mutant: only approvals are audited.
SaveReqUnaudited(p) ==
    /\ pc[p] = "saveReq"
    /\ ~VersionConflict(p)
    /\ reqs' = [reqs EXCEPT ![Req(p)] = [status |-> Target(call[p].kind),
                                         version |-> @.version + 1]]
    /\ IF call[p].kind = "approve" THEN Goto(p, "audit") /\ UNCHANGED regs
                                   ELSE Finish(p, "ok")
    /\ UNCHANGED <<balance, audit, cache, budget, history>>

SaveReq(p) ==
    /\ pc[p] = "saveReq"
    /\ \/ /\ ~VersionConflict(p)
          /\ reqs' = [reqs EXCEPT ![Req(p)] = [status |-> Target(call[p].kind),
                                               version |-> @.version + 1]]
          /\ Goto(p, "audit")
          /\ UNCHANGED regs
       \/ /\ VersionConflict(p)
          /\ RetryOrGiveUp(p)
          /\ UNCHANGED reqs
    /\ UNCHANGED <<balance, audit, cache, budget, history>>

-----------------------------------------------------------------------------
(* The environment.                                                          *)

\* The 30-minute TTL of an entry passes; the next lookup deletes it.
Expire(lt) ==
    /\ cache[lt] # NoRow
    /\ cache' = [cache EXCEPT ![lt] = NoRow]
    /\ UNCHANGED <<tables, pc, regs, budget, history>>

\* A query or the HCM call of this handler fails; hydration swallows it.
Fault(p) ==
    /\ pc[p] \in DbSteps \cup {"hcm"}
    /\ faults < MaxFaults
    /\ faults' = faults + 1
    /\ IF pc[p] \in HydrateSteps THEN HydrationFailed(p) ELSE Finish(p, "error")
    /\ UNCHANGED <<tables, cache, calls, history>>

\* The process dies and restarts: the database is all that is left.
Crash ==
    /\ faults < MaxFaults
    /\ faults' = faults + 1
    /\ cache' = [lt \in LeaveTypes |-> NoRow]
    /\ pc' = [p \in Slots |-> "idle"]
    /\ call' = [p \in Slots |-> NoCall]
    /\ seen' = [p \in Slots |-> 0]
    /\ row' = [p \in Slots |-> NoRow]
    /\ attempt' = [p \in Slots |-> 0]
    /\ reply' = [p \in Slots |-> "none"]
    /\ UNCHANGED <<tables, calls, history>>

-----------------------------------------------------------------------------
Start(p) == StartGet(p) \/ StartCreate(p) \/ StartDecision(p)

Step(p) ==
    \/ DimRead(p) \/ HcmAnswer(p) \/ Insert(p)
    \/ Lookup(p) \/ BalRead(p) \/ Fill(p)
    \/ CreateSave(p) \/ AuditLog(p) \/ ReadReq(p)
    \/ RefreshRead(p) \/ RefreshSave(p) \/ RefreshFill(p)
    \/ DeductRead(p) \/ DeductSave(p) \/ DeductInvalidate(p)
    \/ RefundRead(p) \/ RefundSave(p) \/ RefundInvalidate(p)
    \/ SaveReq(p)

Next ==
    \/ \E p \in Slots : Start(p) \/ Step(p) \/ Fault(p)
    \/ \E lt \in LeaveTypes : Expire(lt)
    \/ Crash

Spec == Init /\ [][Next]_vars

\* Every pending I/O completes, so no handler is kept from its next step.
FairSpec == Spec /\ \A p \in Slots : WF_vars(Step(p))

-----------------------------------------------------------------------------
(* Properties.                                                               *)

\* Type invariant: every variable has its shape, available_balance is never
\* negative, and a handler is always at a step its kind of call has.
TypeOK ==
    /\ reqs \in [Requests -> [status : Statuses, version : Nat]]
    /\ balance \in [LeaveTypes -> Rows \cup {NoRow}]
    /\ audit \subseteq Requests \X Statuses
    /\ cache \in [LeaveTypes -> Rows \cup {NoRow}]
    /\ pc \in [Slots -> StepNames]
    /\ call \in [Slots -> GetCalls \cup RequestCalls \cup {NoCall}]
    /\ \A p \in Slots : pc[p] \in StepsOf(call[p].kind)
    /\ seen \in [Slots -> Nat]
    /\ row \in [Slots -> Rows \cup {NoRow}]
    /\ attempt \in [Slots -> 0..MaxRetries]
    /\ reply \in [Slots -> Replies]
    /\ calls \in 0..MaxCalls
    /\ faults \in 0..MaxFaults
    /\ taken \in [Requests -> Nat]
    /\ refunded \in [Requests -> Nat]
    /\ debited \in [LeaveTypes -> Nat]
    /\ credited \in [LeaveTypes -> Nat]

\* However calls interleave, fail or crash, a request reads APPROVED or
\* CANCELLED only after its days were written off the balance, reads CANCELLED
\* only after they were written back, and days are written back only if they
\* were written off before: approveRequest and cancelRequest move the balance
\* first and the status last, and read the status before either.
LedgerBacksStatus ==
    \A r \in Requests :
        /\ reqs[r].status \in {"APPROVED", "CANCELLED"} => taken[r] > 0
        /\ reqs[r].status = "CANCELLED" => refunded[r] > 0
        /\ refunded[r] > 0 => taken[r] > 0

\* The lifecycle PENDING -> APPROVED -> CANCELLED or PENDING -> REJECTED: no
\* interleaving of approve, reject and cancel makes any other transition.
\* Holds when save() checks the version (SaveChecksVersion).
Lifecycle ==
    [][\A r \in Requests :
          reqs'[r].status # reqs[r].status =>
              <<reqs[r].status, reqs'[r].status>> \in
                  {<<"NONE", "PENDING">>, <<"PENDING", "APPROVED">>,
                   <<"PENDING", "REJECTED">>, <<"APPROVED", "CANCELLED">>}]_vars

\* approveRequest's retry after a version conflict never leads to an approval:
\* whatever changed the version also took the request out of PENDING, so the
\* second attempt is refused and "modified concurrently" is never answered.
RetryIsFutile ==
    \A p \in Slots :
        /\ attempt[p] > 1 => reqs[Req(p)].status # "PENDING"
        /\ reply[p] # "conflict"

\* The audit trail never records a decision the request did not take: with
\* concurrent and failing calls, a recorded status is the request's present
\* one or one the lifecycle passes through on the way to it.
AuditTruthful ==
    \A r \in Requests :
        /\ <<r, "PENDING">> \in audit => reqs[r].status # "NONE"
        /\ <<r, "APPROVED">> \in audit => reqs[r].status \in {"APPROVED", "CANCELLED"}
        /\ <<r, "REJECTED">> \in audit => reqs[r].status = "REJECTED"
        /\ <<r, "CANCELLED">> \in audit => reqs[r].status = "CANCELLED"

\* Lost updates of updateUsedBalance, refundBalance and refreshBalance can
\* give days back twice, but no interleaving makes days disappear: each row,
\* cached row and entity held by a handler adds up to the HCM's total at least.
DaysNeverDestroyed ==
    LET Whole(lt, b) == b # NoRow =>
            b.available + b.used >= HcmBalance[lt].available + HcmBalance[lt].used
    IN  /\ \A lt \in LeaveTypes : Whole(lt, balance[lt]) /\ Whole(lt, cache[lt])
        /\ \A p \in Slots : call[p] # NoCall => Whole(Leave(p), row[p])

\* Nothing checks the version of a balance, so of two racing deductions,
\* refunds and refreshes one may be overwritten by an entity read before it.
\* It can only be dropped, though, never counted twice: whatever races, fails
\* or retries, the days gone from a row are days some deduction took and the
\* days added to it are days some refund gave back, in the table, in the cache
\* and in the entities handlers hold and may still write back.
DaysAccountedFor ==
    LET Explained(lt, b) == b # NoRow =>
            /\ b.available >= HcmBalance[lt].available - debited[lt]
            /\ b.available <= HcmBalance[lt].available + credited[lt]
            /\ b.used <= HcmBalance[lt].used + debited[lt]
            /\ b.available + b.used <=
                  HcmBalance[lt].available + HcmBalance[lt].used + credited[lt]
    IN  /\ \A lt \in LeaveTypes : Explained(lt, balance[lt]) /\ Explained(lt, cache[lt])
        /\ \A p \in Slots : call[p] # NoCall => Explained(Leave(p), row[p])

Quiet == \A p \in Slots : pc[p] = "idle"

\* As long as one decision per leave type runs at a time, whatever creates,
\* reads and decisions on other leave types run beside it, the row
\* approveRequest judged is still the row it deducts from: the CHECK
\* constraint on available_balance never has to refuse a deduction.
DeductionCovered ==
    \A p \in Slots : pc[p] = "deductSave" =>
        row[p] = balance[Leave(p)] /\ Days(p) <= row[p].available

\* Every call is answered: approveRequest's retry loop ends whatever the
\* other handlers do.
CallsAnswered == \A p \in Slots : pc[p] # "idle" ~> pc[p] = "idle"

(* Statements of the code's comments and docs.                               *)

\* "For single-row approve/reject flows the @VersionColumn() on Request is
\* sufficient on its own": once all calls are answered, a request's days are
\* off the balance exactly when it is APPROVED.
VersionColumnSuffices ==
    Quiet => \A r \in Requests :
        taken[r] - refunded[r] = IF reqs[r].status = "APPROVED" THEN 1 ELSE 0

\* "Database transaction failure: rollback, request stays PENDING": a request
\* that stays PENDING after its calls were answered has no days written off.
FailedApprovalRollsBack ==
    Quiet => \A r \in Requests : reqs[r].status = "PENDING" => taken[r] = 0

\* "Append-only immutable audit trail for all significant state changes":
\* once all calls are answered, each request's status is in the trail.  Holds
\* without failures; the record is an insert of its own, after the save.
StatusAudited ==
    Quiet => \A r \in Requests :
        reqs[r].status # "NONE" => <<r, reqs[r].status>> \in audit

=============================================================================
