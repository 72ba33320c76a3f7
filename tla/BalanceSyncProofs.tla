------------------------- MODULE BalanceSyncProofs -------------------------
(***************************************************************************)
(* Theorems about BalanceSync for every number of syncs in flight, every     *)
(* batch and every number the HCM may change a balance to.                   *)
(***************************************************************************)
EXTENDS BalanceSync, LedgerProofs, SequenceTheorems

\* What the HCM grants for a leave type at some time, and the sums of it.
Numbers(lt) == HcmNumbers \cup {HcmBalance[lt]}
Grants == [lt \in LeaveTypes |-> {n.available + n.used : n \in Numbers(lt)}]

Answers == [available : Nat, used : Nat]
JobRecords == [kind : {"none", "batch", "detect", "realtime"}, id : Nat, todo : Seq(LeaveTypes)]
SyncSteps == SyncDbSteps \cup {"idle", "askHcm", "lookup", "hydrate", "fill", "record"}
Holding == (SyncDbSteps \cup {"fill"}) \ {"balRead", "insert"}

SyncRegsOK ==
    /\ spc \in [Syncers -> SyncSteps]
    /\ job \in [Syncers -> JobRecords]
    /\ answer \in [Syncers -> Answers \cup {NoRow}]
    /\ held \in [Syncers -> Rows \cup {NoRow}]

\* What one sync knows at the step it is about to take.
SyncerOK(s) ==
    /\ spc[s] # "idle" <=> job[s].todo # <<>>
    /\ spc[s] = "record" => job[s].kind = "batch"
    /\ spc[s] \notin {"idle", "askHcm", "record"} => answer[s] \in Numbers(Employee(s))
    /\ spc[s] \in Holding => held[s] \in Rows
    /\ spc[s] = "fill" => Whole(Grants, Employee(s), held[s])

\* NoDaysLostToSync is not inductive: a row's numbers come from the cache, from
\* an entity a handler or a sync holds, or from an answer of the HCM.
SyncInv ==
    /\ TypeInv
    /\ DaysInv(Grants)
    /\ hcm \in [LeaveTypes -> Answers]
    /\ \A lt \in LeaveTypes : hcm[lt] \in Numbers(lt)
    /\ SyncRegsOK
    /\ \A s \in Syncers : SyncerOK(s)

\* The HCM's numbers are natural numbers, so their sums are grants.
LEMMA GrantsGranted ==
    /\ Granted(Grants)
    /\ \A lt \in LeaveTypes : Numbers(lt) \subseteq Answers
<1>1. \A lt \in LeaveTypes : Numbers(lt) \subseteq Answers
  BY HcmAssumption, HcmNumbersAssumption DEF Numbers, Answers
<1>2. ASSUME NEW lt \in LeaveTypes
      PROVE  /\ Grants[lt] \subseteq Nat
             /\ HcmBalance[lt].available + HcmBalance[lt].used \in Grants[lt]
  <2>1. HcmBalance[lt] \in Numbers(lt)
    BY DEF Numbers
  <2>2. \A n \in Numbers(lt) : n.available + n.used \in Nat
    BY <1>1, <1>2 DEF Answers
  <2>3. QED
    BY <2>1, <2>2 DEF Grants
<1>3. QED
  BY <1>1, <1>2 DEF Granted

\* A busy sync has an employee.
LEMMA EmployeeKnown ==
    ASSUME SyncInv, NEW s \in Syncers, spc[s] # "idle"
    PROVE  Employee(s) \in LeaveTypes /\ job[s].todo \in Seq(LeaveTypes) \ {<<>>}
<1>1. job[s].todo \in Seq(LeaveTypes) \ {<<>>}
  BY DEF SyncInv, SyncRegsOK, SyncerOK, JobRecords
<1>2. QED
  BY <1>1, HeadTailProperties DEF Employee

-----------------------------------------------------------------------------
(* The tables and the handlers, as a sync step leaves them.                  *)

\* A step that keeps the handlers and the tables keeps what is known of them.
LEMMA HandlersSame ==
    ASSUME SyncInv, UNCHANGED vars PROVE TypeInv' /\ DaysInv(Grants)'
<1>1. TypeInv'
  BY NextTypeInv DEF SyncInv
<1>2. DaysInv(Grants)'
  BY GrantsGranted, DaysNext DEF SyncInv
<1>3. QED
  BY <1>1, <1>2

\* A step of a handler, of the cache or of the process keeps it, too.
LEMMA HandlersStep ==
    ASSUME SyncInv, Next PROVE TypeInv' /\ DaysInv(Grants)'
<1>1. TypeInv'
  BY NextTypeInv DEF SyncInv
<1>2. DaysInv(Grants)'
  BY GrantsGranted, DaysNext DEF SyncInv
<1>3. QED
  BY <1>1, <1>2

\* A sync writes a row, which a handler may read next.
LEMMA RowWritten ==
    ASSUME SyncInv, NEW lt \in LeaveTypes, NEW b \in Rows, Whole(Grants, lt, b),
           balance' = [balance EXCEPT ![lt] = b],
           UNCHANGED <<reqs, audit, cache, pc, regs, budget, history>>
    PROVE  TypeInv' /\ DaysInv(Grants)'
<1>1. balance' \in [LeaveTypes -> Rows \cup {NoRow}]
  BY DEF SyncInv, TypeInv, TypeOK
<1>2. TypeInv'
  BY <1>1 DEF SyncInv, TypeInv, TypeOK, HoldsRow, regs, budget, history
<1>3. \A k \in LeaveTypes : Whole(Grants, k, balance'[k])
  BY DEF SyncInv, TypeInv, TypeOK, DaysInv
<1>4. DaysInv(Grants)'
  BY <1>3 DEF SyncInv, DaysInv, Whole, Leave, regs, Grants, Numbers
<1>5. QED
  BY <1>2, <1>4

\* A sync puts a row into the cache, which a handler may use next.
LEMMA CacheWritten ==
    ASSUME SyncInv, NEW lt \in LeaveTypes, NEW b \in Rows, Whole(Grants, lt, b),
           cache' = [cache EXCEPT ![lt] = b],
           UNCHANGED <<tables, pc, regs, budget, history>>
    PROVE  TypeInv' /\ DaysInv(Grants)'
<1>1. cache' \in [LeaveTypes -> Rows \cup {NoRow}]
  BY DEF SyncInv, TypeInv, TypeOK
<1>2. TypeInv'
  BY <1>1 DEF SyncInv, TypeInv, TypeOK, HoldsRow, regs, budget, history, tables
<1>3. \A k \in LeaveTypes : Whole(Grants, k, cache'[k])
  BY DEF SyncInv, TypeInv, TypeOK, DaysInv
<1>4. DaysInv(Grants)'
  BY <1>3 DEF SyncInv, DaysInv, Whole, Leave, regs, tables, Grants, Numbers
<1>5. QED
  BY <1>2, <1>4

-----------------------------------------------------------------------------
(* The registers of the syncs.                                               *)

\* A step of one sync leaves the other syncs' registers alone.
OtherSyncsSame(s) ==
    \A t \in Syncers : t # s =>
        spc'[t] = spc[t] /\ job'[t] = job[t] /\ answer'[t] = answer[t] /\ held'[t] = held[t]

\* It is enough to see how the step leaves the sync that takes it.
LEMMA OneSyncMoves ==
    ASSUME SyncInv, NEW s \in Syncers, TypeInv', DaysInv(Grants)', UNCHANGED hcm,
           SyncRegsOK', OtherSyncsSame(s), SyncerOK(s)'
    PROVE  SyncInv'
<1>1. ASSUME NEW t \in Syncers, t # s PROVE SyncerOK(t)'
  <2>1. SyncerOK(t)
    BY DEF SyncInv
  <2>2. spc'[t] = spc[t] /\ job'[t] = job[t] /\ answer'[t] = answer[t] /\ held'[t] = held[t]
    BY <1>1 DEF OtherSyncsSame
  <2>3. QED
    BY <2>1, <2>2 DEF SyncerOK, Whole, Employee, Grants, Numbers
<1>2. \A t \in Syncers : SyncerOK(t)'
  BY <1>1
<1>3. (hcm \in [LeaveTypes -> Answers])' /\ (\A lt \in LeaveTypes : hcm[lt] \in Numbers(lt))'
  BY DEF SyncInv, Numbers
<1>4. QED
  BY <1>2, <1>3 DEF SyncInv

\* Moving on within a turn of the loop.
LEMMA SyncGotoRegs ==
    ASSUME SyncInv, NEW s \in Syncers, spc[s] # "idle",
           NEW step \in SyncSteps \ {"idle", "record"}, SyncGoto(s, step), UNCHANGED job,
           NEW a \in Answers \cup {NoRow}, answer' = [answer EXCEPT ![s] = a],
           NEW b \in Rows \cup {NoRow}, held' = [held EXCEPT ![s] = b],
           step # "askHcm" => a \in Numbers(Employee(s)),
           step \in Holding => b \in Rows,
           step = "fill" => Whole(Grants, Employee(s), b)
    PROVE  SyncRegsOK' /\ OtherSyncsSame(s) /\ SyncerOK(s)'
<1>1. SyncRegsOK' /\ OtherSyncsSame(s)
  BY DEF SyncInv, SyncRegsOK, SyncGoto, OtherSyncsSame
<1>2. spc'[s] = step /\ job'[s] = job[s] /\ answer'[s] = a /\ held'[s] = b
  BY DEF SyncInv, SyncRegsOK, SyncGoto
<1>3. SyncerOK(s)'
  BY <1>2 DEF SyncInv, SyncerOK, Employee, Whole, Grants, Numbers
<1>4. QED
  BY <1>1, <1>3

\* The call returns or throws.
LEMMA SyncFinishRegs ==
    ASSUME SyncInv, NEW s \in Syncers, SyncFinish(s)
    PROVE  SyncRegsOK' /\ OtherSyncsSame(s) /\ SyncerOK(s)'
<1>1. NoJob \in JobRecords
  BY DEF NoJob, JobRecords
<1>2. SyncRegsOK' /\ OtherSyncsSame(s)
  BY <1>1 DEF SyncInv, SyncRegsOK, SyncSteps, SyncFinish, SyncGoto, OtherSyncsSame
<1>3. spc'[s] = "idle" /\ job'[s] = NoJob
  BY DEF SyncInv, SyncRegsOK, SyncFinish, SyncGoto
<1>4. QED
  BY <1>2, <1>3 DEF SyncerOK, NoJob, Holding, SyncDbSteps

\* A turn of the loop ends, or the batch with it.
LEMMA NextEmployeeRegs ==
    ASSUME SyncInv, NEW s \in Syncers, spc[s] # "idle", job[s].kind = "batch",
           NEW tally, NextEmployee(s, tally)
    PROVE  SyncRegsOK' /\ OtherSyncsSame(s) /\ SyncerOK(s)'
<1>1. job[s].todo \in Seq(LeaveTypes) \ {<<>>} /\ job[s] \in JobRecords
  BY EmployeeKnown DEF SyncInv, SyncRegsOK
<1>2. CASE Len(job[s].todo) = 1
  <2>1. SyncGoto(s, "record") /\ UNCHANGED <<job, answer, held>>
    BY <1>2 DEF NextEmployee
  <2>2. SyncRegsOK' /\ OtherSyncsSame(s) /\ spc'[s] = "record"
    BY <2>1 DEF SyncInv, SyncRegsOK, SyncSteps, SyncGoto, OtherSyncsSame
  <2>3. QED
    BY <1>1, <2>1, <2>2 DEF SyncerOK, Holding, SyncDbSteps
<1>3. CASE Len(job[s].todo) # 1
  <2>1. /\ SyncGoto(s, "askHcm")
        /\ job' = [job EXCEPT ![s].todo = Tail(@)]
        /\ answer' = [answer EXCEPT ![s] = NoRow]
        /\ held' = [held EXCEPT ![s] = NoRow]
    BY <1>3 DEF NextEmployee
  <2>2. /\ Tail(job[s].todo) \in Seq(LeaveTypes)
        /\ Len(job[s].todo) \in Nat \ {0}
        /\ Len(Tail(job[s].todo)) = Len(job[s].todo) - 1
    <3>1. Len(job[s].todo) \in Nat \ {0}
      BY <1>1, EmptySeq
    <3>2. QED
      BY <1>1, <3>1, HeadTailProperties
  <2>3. Tail(job[s].todo) # <<>>
    <3>1. Len(Tail(job[s].todo)) # 0
      BY <1>3, <2>2
    <3>2. Len(<<>>) = 0
      BY EmptySeq
    <3>3. QED
      BY <3>1, <3>2
  <2>4. job' \in [Syncers -> JobRecords]
    BY <2>1, <2>2 DEF SyncInv, SyncRegsOK, JobRecords
  <2>5. SyncRegsOK' /\ OtherSyncsSame(s) /\ spc'[s] = "askHcm"
    BY <2>1, <2>4 DEF SyncInv, SyncRegsOK, SyncSteps, SyncGoto, OtherSyncsSame
  <2>6. job'[s].todo = Tail(job[s].todo)
    BY <2>1, <1>1 DEF SyncInv, SyncRegsOK, JobRecords
  <2>7. QED
    BY <2>3, <2>5, <2>6 DEF SyncerOK, Holding, SyncDbSteps
<1>4. QED
  BY <1>2, <1>3

\* A failed employee ends the turn or the call.
LEMMA EmployeeFailedRegs ==
    ASSUME SyncInv, NEW s \in Syncers, spc[s] # "idle", EmployeeFailed(s)
    PROVE  SyncRegsOK' /\ OtherSyncsSame(s) /\ SyncerOK(s)'
BY NextEmployeeRegs, SyncFinishRegs DEF EmployeeFailed

-----------------------------------------------------------------------------
(* The steps.                                                                *)

\* getBalance returned local, and what the sync does with it.
LEMMA CompareRegs ==
    ASSUME SyncInv, NEW s \in Syncers, spc[s] \in {"lookup", "fill"},
           NEW local \in Rows, Compare(s, local)
    PROVE  SyncRegsOK' /\ OtherSyncsSame(s) /\ SyncerOK(s)'
<1>1. CASE job[s].kind = "detect"
  BY <1>1, SyncFinishRegs DEF Compare
<1>2. CASE job[s].kind # "detect"
  <2>1. PICK step \in {"saveDrift", "reconRead"} : SyncGoto(s, step)
    BY <1>2 DEF Compare
  <2>2. /\ held' = [held EXCEPT ![s] = local]
        /\ answer' = [answer EXCEPT ![s] = answer[s]]
        /\ UNCHANGED job
    BY <1>2 DEF Compare, SyncInv, SyncRegsOK
  <2>3. answer[s] \in Numbers(Employee(s)) /\ answer[s] \in Answers \cup {NoRow}
    BY DEF SyncInv, SyncRegsOK, SyncerOK
  <2>4. step \in SyncSteps \ {"idle", "record", "askHcm", "fill"}
    BY <2>1 DEF SyncSteps, SyncDbSteps
  <2>5. QED
    BY <2>1, <2>2, <2>3, <2>4, SyncGotoRegs
<1>3. QED
  BY <1>1, <1>2

\* getBalance: the cached row, or the table's, or the HCM's numbers.
LEMMA FetchSync ==
    ASSUME SyncInv, NEW s \in Syncers,
           AskHcm(s) \/ SyncLookup(s) \/ SyncBalRead(s) \/ SyncHydrate(s)
    PROVE  SyncInv'
<1>e. Employee(s) \in LeaveTypes /\ spc[s] # "idle"
  <2>1. spc[s] # "idle"
    BY DEF AskHcm, SyncLookup, SyncBalRead, SyncHydrate
  <2>2. QED
    BY <2>1, EmployeeKnown
<1>s. UNCHANGED hcm /\ TypeInv' /\ DaysInv(Grants)'
  BY HandlersSame DEF AskHcm, SyncLookup, SyncBalRead, SyncHydrate
<1>a. /\ answer[s] \in Answers \cup {NoRow} /\ answer = [answer EXCEPT ![s] = answer[s]]
      /\ held[s] \in Rows \cup {NoRow} /\ held = [held EXCEPT ![s] = held[s]]
  BY DEF SyncInv, SyncRegsOK
<1>1. CASE AskHcm(s)
  <2>1. hcm[Employee(s)] \in Numbers(Employee(s)) /\ hcm[Employee(s)] \in Answers
    BY <1>e DEF SyncInv
  <2>2. /\ SyncGoto(s, "lookup") /\ UNCHANGED job
        /\ answer' = [answer EXCEPT ![s] = hcm[Employee(s)]]
        /\ held' = [held EXCEPT ![s] = held[s]]
    BY <1>1, <1>a DEF AskHcm
  <2>3. "lookup" \in SyncSteps \ {"idle", "record"} /\ "lookup" \notin Holding
    BY DEF SyncSteps, Holding, SyncDbSteps
  <2>4. SyncRegsOK' /\ OtherSyncsSame(s) /\ SyncerOK(s)'
    BY <1>e, <1>a, <2>1, <2>2, <2>3, SyncGotoRegs
  <2>5. QED
    BY <1>s, <2>4, OneSyncMoves
<1>2. CASE SyncLookup(s)
  <2>1. ASSUME cache[Employee(s)] # NoRow, Compare(s, cache[Employee(s)])
        PROVE  SyncRegsOK' /\ OtherSyncsSame(s) /\ SyncerOK(s)'
    <3>1. cache[Employee(s)] \in Rows
      BY <1>e, <2>1 DEF SyncInv, TypeInv, TypeOK
    <3>2. QED
      BY <1>2, <2>1, <3>1, CompareRegs DEF SyncLookup
  <2>2. ASSUME SyncGoto(s, "balRead"), UNCHANGED <<job, answer, held>>
        PROVE  SyncRegsOK' /\ OtherSyncsSame(s) /\ SyncerOK(s)'
    <3>1. answer[s] \in Numbers(Employee(s))
      BY <1>2 DEF SyncLookup, SyncInv, SyncerOK
    <3>2. QED
      BY <1>e, <1>a, <2>2, <3>1, SyncGotoRegs DEF SyncSteps, Holding, SyncDbSteps
  <2>3. QED
    BY <1>2, <1>s, <2>1, <2>2, OneSyncMoves DEF SyncLookup
<1>3. CASE SyncBalRead(s)
  <2>1. answer[s] \in Numbers(Employee(s))
    BY <1>3 DEF SyncBalRead, SyncInv, SyncerOK
  <2>2. /\ balance[Employee(s)] \in Rows \cup {NoRow}
        /\ Whole(Grants, Employee(s), balance[Employee(s)])
    BY <1>e DEF SyncInv, TypeInv, TypeOK, DaysInv
  <2>3. SyncRegsOK' /\ OtherSyncsSame(s) /\ SyncerOK(s)'
    <3>1. PICK step \in {"hydrate", "fill"} :
             SyncGoto(s, step) /\ (step = "fill" => balance[Employee(s)] # NoRow)
      BY <1>3 DEF SyncBalRead
    <3>2. /\ UNCHANGED job
          /\ answer' = [answer EXCEPT ![s] = answer[s]]
          /\ held' = [held EXCEPT ![s] = balance[Employee(s)]]
      BY <1>3, <1>a DEF SyncBalRead
    <3>3. /\ step \in SyncSteps \ {"idle", "record"}
          /\ step \in Holding => balance[Employee(s)] \in Rows
      BY <2>2, <3>1 DEF SyncSteps, Holding, SyncDbSteps
    <3>4. QED
      BY <1>e, <1>a, <2>1, <2>2, <3>1, <3>2, <3>3, SyncGotoRegs
  <2>4. QED
    BY <1>s, <2>3, OneSyncMoves
<1>4. CASE SyncHydrate(s)
  <2>1. answer[s] \in Numbers(Employee(s))
    BY <1>4 DEF SyncHydrate, SyncInv, SyncerOK
  <2>2. SyncRegsOK' /\ OtherSyncsSame(s) /\ SyncerOK(s)'
    BY <1>4, <1>e, <1>a, <2>1, SyncGotoRegs DEF SyncHydrate, SyncSteps, Holding, SyncDbSteps
  <2>3. QED
    BY <1>s, <2>2, OneSyncMoves
<1>5. QED
  BY <1>1, <1>2, <1>3, <1>4

\* Hydration inserts the HCM's numbers, or the UNIQUE constraint refuses.
LEMMA InsertSync ==
    ASSUME SyncInv, NEW s \in Syncers, SyncInsert(s) PROVE SyncInv'
<1> DEFINE lt == Employee(s)
<1>e. lt \in LeaveTypes /\ spc[s] = "insert" /\ UNCHANGED hcm
  BY EmployeeKnown DEF SyncInsert
<1>1. ASSUME balance' = [balance EXCEPT ![lt] = Hydrated(lt)],
             held' = [held EXCEPT ![s] = Hydrated(lt)],
             SyncGoto(s, "fill"), UNCHANGED <<job, answer, session>>
      PROVE  SyncInv'
  <2>1. Hydrated(lt) \in Rows /\ Whole(Grants, lt, Hydrated(lt))
    BY <1>e, HcmAssumption, GrantsGranted, HydratedWhole DEF Hydrated, Rows
  <2>2. TypeInv' /\ DaysInv(Grants)'
    BY <1>e, <1>1, <2>1, RowWritten DEF SyncInsert
  <2>3. /\ answer[s] \in Numbers(lt) /\ answer[s] \in Answers \cup {NoRow}
        /\ answer' = [answer EXCEPT ![s] = answer[s]]
    BY <1>e, <1>1 DEF SyncInv, SyncRegsOK, SyncerOK
  <2>4. "fill" \in SyncSteps \ {"idle", "record"}
    BY DEF SyncSteps
  <2>5. SyncRegsOK' /\ OtherSyncsSame(s) /\ SyncerOK(s)'
    BY <1>e, <1>1, <2>1, <2>3, <2>4, SyncGotoRegs
  <2>6. QED
    BY <1>e, <2>2, <2>5, OneSyncMoves
<1>2. ASSUME EmployeeFailed(s), UNCHANGED balance PROVE SyncInv'
  <2>1. UNCHANGED vars
    BY <1>2 DEF SyncInsert, vars, tables
  <2>2. QED
    BY <1>e, <1>2, <2>1, HandlersSame, EmployeeFailedRegs, OneSyncMoves
<1>3. QED
  BY <1>1, <1>2 DEF SyncInsert

\* The cache gets the row the sync holds, even if the table moved on.
LEMMA FillSync ==
    ASSUME SyncInv, NEW s \in Syncers, SyncFill(s) PROVE SyncInv'
<1>1. Employee(s) \in LeaveTypes /\ spc[s] = "fill"
  BY EmployeeKnown DEF SyncFill
<1>2. held[s] \in Rows /\ Whole(Grants, Employee(s), held[s])
  BY <1>1 DEF SyncInv, SyncerOK, Holding
<1>3. TypeInv' /\ DaysInv(Grants)'
  BY <1>1, <1>2, CacheWritten DEF SyncFill
<1>4. SyncRegsOK' /\ OtherSyncsSame(s) /\ SyncerOK(s)'
  BY <1>1, <1>2, CompareRegs DEF SyncFill
<1>5. UNCHANGED hcm
  BY DEF SyncFill
<1>6. QED
  BY <1>3, <1>4, <1>5, OneSyncMoves

\* recordDrift and the reads and audits of reconcileBalance write no row.
LEMMA RecordSyncSteps ==
    ASSUME SyncInv, NEW s \in Syncers,
           SaveDrift(s) \/ DriftAudit(s) \/ ReconRead(s) \/ ReconAudit(s) \/ RecordSync(s)
    PROVE  SyncInv'
<1>e. spc[s] # "idle" /\ Employee(s) \in LeaveTypes
  <2>1. spc[s] # "idle"
    BY DEF SaveDrift, DriftAudit, ReconRead, ReconAudit, RecordSync
  <2>2. QED
    BY <2>1, EmployeeKnown
<1>s. UNCHANGED hcm /\ TypeInv' /\ DaysInv(Grants)'
  BY HandlersSame DEF SaveDrift, DriftAudit, ReconRead, ReconAudit, RecordSync
<1>a. /\ answer[s] \in Answers \cup {NoRow} /\ answer = [answer EXCEPT ![s] = answer[s]]
      /\ held[s] \in Rows \cup {NoRow} /\ held = [held EXCEPT ![s] = held[s]]
      /\ spc[s] \notin {"idle", "askHcm", "record"} => answer[s] \in Numbers(Employee(s))
      /\ spc[s] \in Holding => held[s] \in Rows
  BY DEF SyncInv, SyncRegsOK, SyncerOK
<1>n. \A step \in {"driftAudit", "reconRead", "reconSave"} :
          step \in SyncSteps \ {"idle", "record", "fill"}
  BY DEF SyncSteps, SyncDbSteps
<1>1. CASE SaveDrift(s) \/ DriftAudit(s)
  <2>1. PICK step \in {"driftAudit", "reconRead"} : SyncGoto(s, step)
    BY <1>1 DEF SaveDrift, DriftAudit
  <2>2. UNCHANGED <<job, answer, held>> /\ spc[s] \in {"saveDrift", "driftAudit"}
    BY <1>1 DEF SaveDrift, DriftAudit
  <2>3. held[s] \in Rows /\ answer[s] \in Numbers(Employee(s))
    BY <1>a, <2>2 DEF Holding, SyncDbSteps
  <2>4. SyncRegsOK' /\ OtherSyncsSame(s) /\ SyncerOK(s)'
    BY <1>e, <1>a, <1>n, <2>1, <2>2, <2>3, SyncGotoRegs
  <2>5. QED
    BY <1>s, <2>4, OneSyncMoves
<1>2. CASE ReconRead(s)
  <2>1. ASSUME balance[Employee(s)] # NoRow,
               held' = [held EXCEPT ![s] = balance[Employee(s)]],
               SyncGoto(s, "reconSave"), UNCHANGED <<job, answer, session>>
        PROVE  SyncRegsOK' /\ OtherSyncsSame(s) /\ SyncerOK(s)'
    <3>1. balance[Employee(s)] \in Rows
      BY <1>e, <2>1 DEF SyncInv, TypeInv, TypeOK
    <3>2. answer[s] \in Numbers(Employee(s))
      BY <1>2, <1>a DEF ReconRead
    <3>3. QED
      BY <1>e, <1>a, <1>n, <2>1, <3>1, <3>2, SyncGotoRegs
  <2>2. QED
    BY <1>2, <1>e, <1>s, <2>1, EmployeeFailedRegs, OneSyncMoves DEF ReconRead
<1>3. CASE ReconAudit(s) \/ RecordSync(s)
  BY <1>3, <1>e, <1>s, SyncFinishRegs, NextEmployeeRegs, OneSyncMoves
     DEF ReconAudit, RecordSync
<1>4. QED
  BY <1>1, <1>2, <1>3

\* reconcileBalance gives the row numbers the HCM had.
LEMMA ReconSaveSync ==
    ASSUME SyncInv, NEW s \in Syncers, ReconSave(s) PROVE SyncInv'
<1> DEFINE lt == Employee(s)
           b == Reconciled(held[s], answer[s])
<1>1. lt \in LeaveTypes /\ spc[s] = "reconSave"
  BY EmployeeKnown DEF ReconSave
<1>2. /\ answer[s] \in Numbers(lt) /\ answer[s] \in Answers
      /\ held[s] \in Rows
      /\ answer = [answer EXCEPT ![s] = answer[s]] /\ held = [held EXCEPT ![s] = held[s]]
  BY <1>1, GrantsGranted DEF SyncInv, SyncRegsOK, SyncerOK, Holding, SyncDbSteps
<1>3. b \in Rows /\ b.available = answer[s].available /\ b.used = answer[s].used
  BY <1>2 DEF Reconciled, Rows, Answers
<1>4. Whole(Grants, lt, b)
  <2>1. answer[s].available + answer[s].used \in Grants[lt]
    BY <1>1, <1>2 DEF Grants
  <2>2. b.available + b.used >= answer[s].available + answer[s].used
    BY <1>2, <1>3 DEF Answers
  <2>3. QED
    BY <2>1, <2>2 DEF Whole
<1>5. TypeInv' /\ DaysInv(Grants)' /\ UNCHANGED hcm
  BY <1>1, <1>3, <1>4, RowWritten DEF ReconSave
<1>6. "reconAudit" \in SyncSteps \ {"idle", "record"}
  BY DEF SyncSteps, SyncDbSteps
<1>7. SyncRegsOK' /\ OtherSyncsSame(s) /\ SyncerOK(s)'
  BY <1>1, <1>2, <1>6, SyncGotoRegs DEF ReconSave
<1>8. QED
  BY <1>5, <1>7, OneSyncMoves

\* A sync begins, holding nothing.
LEMMA StartSyncInv ==
    ASSUME SyncInv, syncs \in Nat, NEW s \in Syncers, StartSync(s) PROVE SyncInv'
<1>1. PICK j \in Jobs : job' = [job EXCEPT ![s] = j]
  BY DEF StartSync
<1>2. j \in JobRecords /\ j.todo # <<>>
  <2>1. \A lt \in LeaveTypes : <<lt>> \in Seq(LeaveTypes) /\ <<lt>> # <<>>
    OBVIOUS
  <2>2. j.kind \in {"batch", "detect", "realtime"} /\ j.id = syncs + 1
        /\ j.todo \in Seq(LeaveTypes) /\ j.todo # <<>>
    BY <2>1, BatchesAssumption DEF Jobs
  <2>3. j = [kind |-> j.kind, id |-> j.id, todo |-> j.todo]
    BY DEF Jobs
  <2>4. QED
    BY <2>2, <2>3 DEF JobRecords
<1>3. SyncGoto(s, "askHcm") /\ UNCHANGED <<answer, held>> /\ UNCHANGED hcm
  BY DEF StartSync
<1>4. SyncRegsOK' /\ OtherSyncsSame(s) /\ spc'[s] = "askHcm" /\ job'[s] = j
  BY <1>1, <1>2, <1>3 DEF SyncInv, SyncRegsOK, SyncSteps, SyncGoto, OtherSyncsSame
<1>5. SyncerOK(s)'
  BY <1>2, <1>4 DEF SyncerOK, Holding, SyncDbSteps
<1>6. TypeInv' /\ DaysInv(Grants)'
  BY HandlersSame DEF StartSync
<1>7. QED
  BY <1>3, <1>4, <1>5, <1>6, OneSyncMoves

\* What leaves the syncs and the HCM alone leaves what they know.
LEMMA SyncsSame ==
    ASSUME SyncInv, TypeInv', DaysInv(Grants)', UNCHANGED <<hcm, spc, job, answer, held>>
    PROVE  SyncInv'
<1>1. SyncRegsOK' /\ \A s \in Syncers : SyncerOK(s)'
  BY DEF SyncInv, SyncRegsOK, SyncerOK, Employee, Whole, Grants, Numbers
<1>2. (hcm \in [LeaveTypes -> Answers])' /\ (\A lt \in LeaveTypes : hcm[lt] \in Numbers(lt))'
  BY DEF SyncInv, Numbers
<1>3. QED
  BY <1>1, <1>2 DEF SyncInv

\* The HCM only ever changes a balance to one of its numbers.
LEMMA HcmChangeSync ==
    ASSUME SyncInv, NEW lt \in LeaveTypes, HcmChange(lt) PROVE SyncInv'
<1>1. PICK n \in HcmNumbers : hcm' = [hcm EXCEPT ![lt] = n]
  BY DEF HcmChange
<1>2. \A k \in LeaveTypes : hcm'[k] \in Numbers(k) /\ hcm' \in [LeaveTypes -> Answers]
  BY <1>1, HcmNumbersAssumption DEF SyncInv, Numbers, Answers
<1>3. TypeInv' /\ DaysInv(Grants)'
  BY HandlersSame DEF HcmChange
<1>4. UNCHANGED <<spc, job, answer, held>>
  BY DEF HcmChange, syncRegs
<1>5. SyncRegsOK' /\ \A s \in Syncers : SyncerOK(s)'
  BY <1>4 DEF SyncInv, SyncRegsOK, SyncerOK, Employee, Whole, Grants, Numbers
<1>6. QED
  BY <1>2, <1>3, <1>5 DEF SyncInv, Numbers

\* A query or an HCM call of a sync fails.
LEMMA SyncFaultInv ==
    ASSUME SyncInv, NEW s \in Syncers, SyncFault(s) PROVE SyncInv'
<1>1. spc[s] # "idle" /\ UNCHANGED hcm
  BY DEF SyncFault, SyncDbSteps
<1>2. TypeInv'
  <2>1. faults' \in 0..MaxFaults
    BY BoundsAssumption DEF SyncFault, SyncInv, TypeInv, TypeOK
  <2>2. UNCHANGED <<reqs, balance, audit, cache, pc, call, seen, row, attempt, reply,
                    calls, taken, refunded, debited, credited>>
    BY DEF SyncFault, tables, regs, history
  <2>3. QED
    BY <2>1, <2>2 DEF SyncInv, TypeInv, TypeOK, HoldsRow
<1>3. DaysInv(Grants)'
  <2>1. UNCHANGED <<balance, cache, call, row>>
    BY DEF SyncFault, tables, regs
  <2>2. QED
    BY <2>1, DaysSame DEF SyncInv, Grants, Numbers
<1>4. QED
  BY <1>1, <1>2, <1>3, EmployeeFailedRegs, OneSyncMoves DEF SyncFault

\* A restart forgets every sync.
LEMMA SyncCrashInv ==
    ASSUME SyncInv, SyncCrash PROVE SyncInv'
<1>1. Next
  BY DEF SyncCrash, Next
<1>2. NoJob \in JobRecords
  BY DEF NoJob, JobRecords
<1>3. SyncRegsOK' /\ \A s \in Syncers : SyncerOK(s)'
  BY <1>2 DEF SyncCrash, SyncRegsOK, SyncerOK, SyncSteps, Holding, SyncDbSteps, NoJob
<1>4. UNCHANGED hcm
  BY DEF SyncCrash
<1>5. QED
  BY <1>1, <1>3, <1>4, HandlersStep DEF SyncInv, Numbers

\* Every step keeps what the syncs and the handlers know.
LEMMA NextSyncInv ==
    ASSUME SyncInv, syncs \in Nat, [SyncNext]_<<vars, syncVars>> PROVE SyncInv'
<1>1. ASSUME NEW s \in Syncers, StartSync(s) PROVE SyncInv'
  BY <1>1, StartSyncInv
<1>2. ASSUME NEW s \in Syncers, SyncStep(s) PROVE SyncInv'
  BY <1>2, FetchSync, InsertSync, FillSync, RecordSyncSteps, ReconSaveSync DEF SyncStep
<1>3. ASSUME NEW s \in Syncers, SyncFault(s) PROVE SyncInv'
  BY <1>3, SyncFaultInv
<1>4. ASSUME NEW lt \in LeaveTypes, HcmChange(lt) PROVE SyncInv'
  BY <1>4, HcmChangeSync
<1>5. ASSUME Next, UNCHANGED <<hcm, syncRegs>> PROVE SyncInv'
  BY <1>5, HandlersStep, SyncsSame DEF syncRegs
<1>6. ASSUME NEW p \in Slots, StartDecision(p), UNCHANGED <<hcm, syncRegs>> PROVE SyncInv'
  BY <1>5, <1>6 DEF Next, Start
<1>7. ASSUME NEW p \in Slots, StartGet(p) \/ StartCreate(p) \/ Step(p) \/ Fault(p),
             UNCHANGED syncVars
      PROVE  SyncInv'
  BY <1>5, <1>7 DEF Next, Start, syncVars
<1>8. ASSUME NEW lt \in LeaveTypes, Expire(lt), UNCHANGED syncVars PROVE SyncInv'
  BY <1>5, <1>8 DEF Next, syncVars
<1>9. CASE SyncCrash
  BY <1>9, SyncCrashInv
<1>10. CASE UNCHANGED <<vars, syncVars>>
  BY <1>10, HandlersSame, SyncsSame DEF syncVars, syncRegs
<1>11. QED
  BY <1>1, <1>2, <1>3, <1>4, <1>6, <1>7, <1>8, <1>9, <1>10 DEF SyncNext

-----------------------------------------------------------------------------
(* What a batch reports.                                                     *)

SessionRecords == [status : {"none", "IN_PROGRESS", "COMPLETED"},
                   employees : Seq(LeaveTypes),
                   progress : Nat, synced : Nat, drifted : Nat, failed : Nat]
WrittenRecords == [drifts : Nat, rows : Nat]

Runs(s) == spc[s] # "idle" /\ job[s].kind = "batch"

\* The counters of one session.
Counted(i) ==
    LET x == session[i]
    IN  /\ x.progress = x.synced + x.failed
        /\ x.synced <= written[i].rows
        /\ x.drifted <= written[i].drifts
        /\ x.status = "COMPLETED" => x.progress = Len(x.employees)
        /\ x.status = "IN_PROGRESS" => \E s \in Syncers : Runs(s) /\ job[s].id = i

\* A running batch and its session: between a write and its count, the write is
\* ahead.
BatchOf(s) ==
    LET x == Batch(s)
        w == written[job[s].id]
    IN  /\ x.status = IF spc[s] = "record" THEN "COMPLETED" ELSE "IN_PROGRESS"
        /\ spc[s] # "record" => x.progress + Len(job[s].todo) = Len(x.employees)
        /\ spc[s] = "driftAudit" => x.drifted < w.drifts
        /\ spc[s] = "reconAudit" => x.synced < w.rows

\* BatchAccounted is not inductive: it needs that every sync has an ID of its
\* own, and what is written but not counted yet.
BatchInv ==
    /\ syncs \in 0..MaxSyncs
    /\ session \in [SyncIds -> SessionRecords]
    /\ written \in [SyncIds -> WrittenRecords]
    /\ \A s \in Syncers : spc[s] # "idle" => job[s].id \in 1..syncs
    /\ \A s, t \in Syncers :
          spc[s] # "idle" /\ spc[t] # "idle" /\ job[s].id = job[t].id => s = t
    /\ \A i \in SyncIds : i > syncs => session[i] = NoSession
    /\ \A i \in SyncIds : Counted(i)
    /\ \A s \in Syncers : Runs(s) => BatchOf(s)

\* Counters and sessions of running batches make up the accounts.
LEMMA BatchCounts == BatchInv => BatchAccounted
<1> SUFFICES ASSUME BatchInv, NEW i \in SyncIds
             PROVE  LET x == session[i]
                    IN  /\ x.progress = x.synced + x.failed
                        /\ x.synced <= written[i].rows
                        /\ x.drifted <= written[i].drifts
                        /\ x.status = "IN_PROGRESS" => \E s \in Syncers :
                               /\ job[s].kind = "batch" /\ job[s].id = i
                               /\ x.progress + Len(job[s].todo) = Len(x.employees)
                        /\ x.status = "COMPLETED" => x.progress = Len(x.employees)
  BY DEF BatchAccounted
<1>1. Counted(i)
  BY DEF BatchInv
<1>2. ASSUME session[i].status = "IN_PROGRESS"
      PROVE  \E s \in Syncers :
                /\ job[s].kind = "batch" /\ job[s].id = i
                /\ session[i].progress + Len(job[s].todo) = Len(session[i].employees)
  <2>1. PICK s \in Syncers : Runs(s) /\ job[s].id = i
    BY <1>1, <1>2 DEF Counted
  <2>2. BatchOf(s)
    BY <2>1 DEF BatchInv
  <2>3. QED
    BY <1>2, <2>1, <2>2 DEF BatchOf, Batch, Runs
<1>3. QED
  BY <1>1, <1>2 DEF Counted

\* A step of one sync touches at most its own session.
LEMMA OneBatchMoves ==
    ASSUME BatchInv, NEW s \in Syncers, spc[s] # "idle", OtherSyncsSame(s), UNCHANGED syncs,
           NEW id, id = job[s].id, job'[s].id = id \/ spc'[s] = "idle",
           session' \in [SyncIds -> SessionRecords], written' \in [SyncIds -> WrittenRecords],
           \A i \in SyncIds \ {id} :
               session'[i] = session[i] /\ written'[i] = written[i],
           Counted(id)', Runs(s)' => BatchOf(s)'
    PROVE  BatchInv'
<1>1. job[s].id \in 1..syncs /\ job[s].id \in SyncIds /\ syncs \in Nat
  BY SyncBoundsAssumption DEF BatchInv, SyncIds
<1>2. ASSUME NEW i \in SyncIds, i # job[s].id PROVE Counted(i)'
  <2>1. ASSUME session[i].status = "IN_PROGRESS"
        PROVE  \E t \in Syncers : Runs(t)' /\ job'[t].id = i
    <3>1. PICK t \in Syncers : Runs(t) /\ job[t].id = i
      BY <2>1 DEF BatchInv, Counted
    <3>2. QED
      BY <1>2, <3>1 DEF OtherSyncsSame, Runs
  <2>2. session'[i] = session[i] /\ written'[i] = written[i]
    BY <1>2
  <2>3. QED
    BY <2>1, <2>2 DEF BatchInv, Counted
<1>3. ASSUME NEW t \in Syncers, t # s, spc'[t] # "idle"
      PROVE  /\ job'[t].id \in 1..syncs
             /\ job'[t].id # job[s].id
             /\ Runs(t)' => BatchOf(t)'
  <2>1. spc'[t] = spc[t] /\ job'[t] = job[t]
    BY <1>3 DEF OtherSyncsSame
  <2>2. job[t].id \in 1..syncs /\ job[t].id # job[s].id /\ job[t].id \in SyncIds
    BY <1>3, <2>1, SyncBoundsAssumption DEF BatchInv, SyncIds
  <2>3. session'[job[t].id] = session[job[t].id] /\ written'[job[t].id] = written[job[t].id]
    BY <2>2
  <2>4. QED
    BY <2>1, <2>2, <2>3 DEF BatchInv, BatchOf, Batch, Runs
<1>4. (\A i \in SyncIds : i > syncs => session[i] = NoSession)'
  BY <1>1 DEF BatchInv
<1>5. (\A r, t \in Syncers :
          spc[r] # "idle" /\ spc[t] # "idle" /\ job[r].id = job[t].id => r = t)'
  <2>1. ASSUME NEW r \in Syncers, NEW t \in Syncers, spc'[r] # "idle", spc'[t] # "idle",
               job'[r].id = job'[t].id, r # t
        PROVE  FALSE
    <3>1. r # s /\ t # s
      BY <1>3, <2>1
    <3>2. QED
      BY <2>1, <3>1 DEF BatchInv, OtherSyncsSame
  <2>2. QED
    BY <2>1
<1>6. (\A t \in Syncers : spc[t] # "idle" => job[t].id \in 1..syncs)'
  BY <1>1, <1>3
<1>7. (\A i \in SyncIds : Counted(i))' /\ (\A t \in Syncers : Runs(t) => BatchOf(t))'
  <2>1. \A i \in SyncIds : Counted(i)'
    BY <1>2
  <2>2. \A t \in Syncers : Runs(t)' => BatchOf(t)'
    BY <1>3 DEF Runs
  <2>3. QED
    BY <2>1, <2>2
<1>8. QED
  BY <1>4, <1>5, <1>6, <1>7 DEF BatchInv

\* What StatusMovesForward says of a step.
Forward ==
    \A i \in SyncIds : session'[i] # NoSession =>
        /\ session[i].progress <= session'[i].progress
        /\ session[i].status = "COMPLETED" => session'[i] = session[i]

\* A busy sync's ID is that of a session, and what its session says if it is a
\* batch's.
LEMMA BatchKnown ==
    ASSUME SyncInv, BatchInv, NEW s \in Syncers, spc[s] # "idle"
    PROVE  /\ job[s].id \in SyncIds /\ job[s] \in JobRecords
           /\ session[job[s].id] \in SessionRecords /\ written[job[s].id] \in WrittenRecords
           /\ Counted(job[s].id) /\ Len(job[s].todo) \in Nat
           /\ job[s].kind = "batch" => BatchOf(s)
           /\ spc \in [Syncers -> SyncSteps] /\ job \in [Syncers -> JobRecords]
<1>1. job[s].id \in SyncIds /\ job[s] \in JobRecords
  BY SyncBoundsAssumption DEF BatchInv, SyncIds, SyncInv, SyncRegsOK
<1>2. Len(job[s].todo) \in Nat
  BY <1>1, LenProperties DEF JobRecords
<1>3. QED
  BY <1>1, <1>2 DEF BatchInv, Runs, SyncInv, SyncRegsOK

\* What leaves the sessions alone moves nothing back.
LEMMA ForwardSame ==
    ASSUME BatchInv, UNCHANGED session PROVE Forward
BY DEF BatchInv, Forward, SessionRecords

\* Moving on without a write that is counted later.
LEMMA BatchGoto ==
    ASSUME SyncInv, BatchInv, NEW s \in Syncers, spc[s] \notin {"idle", "record"},
           NEW step, step \notin {"idle", "record", "driftAudit", "reconAudit"},
           SyncGoto(s, step), OtherSyncsSame(s), UNCHANGED <<job, session, written, syncs>>
    PROVE  BatchInv' /\ Forward
<1>1. spc'[s] = step /\ spc[s] # "idle"
  BY BatchKnown DEF SyncGoto
<1>2. Runs(s)' => BatchOf(s)'
  BY <1>1, BatchKnown DEF Runs, BatchOf, Batch
<1>3. \A i \in SyncIds : session[i].status = "IN_PROGRESS" =>
          \E t \in Syncers : Runs(t)' /\ job'[t].id = i
  <2>1. \A t \in Syncers : Runs(t) => Runs(t)'
    BY <1>1 DEF Runs, OtherSyncsSame
  <2>2. QED
    BY <2>1 DEF BatchInv, Counted
<1>4. \A i \in SyncIds : Counted(i)'
  BY <1>3 DEF BatchInv, Counted
<1>5. BatchInv'
  BY <1>1, <1>2, <1>4, BatchKnown, OneBatchMoves DEF BatchInv
<1>6. QED
  BY <1>5, ForwardSame

\* The call returns: a batch's only after its session was completed.
LEMMA BatchFinish ==
    ASSUME SyncInv, BatchInv, NEW s \in Syncers, spc[s] # "idle",
           job[s].kind = "batch" => spc[s] = "record",
           SyncFinish(s), OtherSyncsSame(s), UNCHANGED <<session, written, syncs>>
    PROVE  BatchInv' /\ Forward
<1>1. spc'[s] = "idle"
  BY BatchKnown DEF SyncFinish, SyncGoto
<1>2. ASSUME NEW i \in SyncIds, session[i].status = "IN_PROGRESS"
      PROVE  \E t \in Syncers : Runs(t)' /\ job'[t].id = i
  <2>1. PICK t \in Syncers : Runs(t) /\ job[t].id = i
    BY <1>2 DEF BatchInv, Counted
  <2>2. t # s
    BY <1>2, <2>1 DEF BatchInv, Runs, BatchOf, Batch
  <2>3. QED
    BY <2>1, <2>2 DEF OtherSyncsSame, Runs
<1>3. \A i \in SyncIds : Counted(i)'
  BY <1>2 DEF BatchInv, Counted
<1>4. BatchInv'
  BY <1>1, <1>3, BatchKnown, OneBatchMoves DEF BatchInv, Runs
<1>5. QED
  BY <1>4, ForwardSame

\* A session with one field changed.
LEMMA SessionChanged ==
    ASSUME NEW r \in SessionRecords, NEW q,
           \/ q = [r EXCEPT !.failed = @ + 1]
           \/ q = [r EXCEPT !.synced = @ + 1]
    PROVE  /\ q \in SessionRecords
           /\ q.status = r.status /\ q.progress = r.progress
           /\ q.drifted = r.drifted /\ q.employees = r.employees
           /\ q = [r EXCEPT !.failed = @ + 1] => q.failed = r.failed + 1 /\ q.synced = r.synced
           /\ q = [r EXCEPT !.synced = @ + 1] => q.synced = r.synced + 1 /\ q.failed = r.failed
BY DEF SessionRecords

\* A turn of the loop ends: the employee is counted once, as synced after its
\* row was written or as failed.
LEMMA BatchTurn ==
    ASSUME SyncInv, BatchInv, NEW s \in Syncers, spc[s] \notin {"idle", "record"},
           job[s].kind = "batch", NEW tally,
           \/ tally = [Batch(s) EXCEPT !.failed = @ + 1]
           \/ spc[s] = "reconAudit" /\ tally = [Batch(s) EXCEPT !.synced = @ + 1],
           NextEmployee(s, tally), OtherSyncsSame(s), UNCHANGED <<written, syncs>>
    PROVE  BatchInv' /\ Forward
<1>0. PICK id : id = job[s].id
  OBVIOUS
<1> DEFINE x == session[id]
           y == session'[id]
           last == Len(job[s].todo) = 1
<1>1. /\ id \in SyncIds /\ x \in SessionRecords /\ written[id] \in WrittenRecords
      /\ Counted(id) /\ BatchOf(s) /\ Len(job[s].todo) \in Nat
      /\ job[s] \in JobRecords
      /\ spc \in [Syncers -> SyncSteps] /\ job \in [Syncers -> JobRecords]
  BY <1>0, BatchKnown
<1>2. session' = [session EXCEPT ![id] =
          [tally EXCEPT !.progress = @ + 1, !.status = IF last THEN "COMPLETED" ELSE @]]
  BY <1>0 DEF NextEmployee
<1>3. y = [tally EXCEPT !.progress = @ + 1, !.status = IF last THEN "COMPLETED" ELSE @]
  BY <1>1, <1>2 DEF BatchInv
<1>4. /\ y \in SessionRecords
      /\ y.status = IF last THEN "COMPLETED" ELSE "IN_PROGRESS"
      /\ y.progress = x.progress + 1
      /\ y.drifted = x.drifted /\ y.employees = x.employees
      /\ y.progress = y.synced + y.failed
      /\ y.synced <= written[id].rows
  <2>1. /\ x.status = "IN_PROGRESS" /\ x.progress = x.synced + x.failed
        /\ x.synced <= written[id].rows
        /\ spc[s] = "reconAudit" => x.synced < written[id].rows
    BY <1>0, <1>1 DEF BatchOf, Counted, Batch
  <2>2. x.synced \in Nat /\ x.failed \in Nat /\ written[id].rows \in Nat
    BY <1>1 DEF SessionRecords, WrittenRecords
  <2>3. \/ tally = [x EXCEPT !.failed = @ + 1]
        \/ spc[s] = "reconAudit" /\ tally = [x EXCEPT !.synced = @ + 1]
    BY <1>0 DEF Batch
  <2>4. /\ tally \in SessionRecords
        /\ tally.status = x.status /\ tally.progress = x.progress
        /\ tally.drifted = x.drifted /\ tally.employees = x.employees
        /\ \/ tally.failed = x.failed + 1 /\ tally.synced = x.synced
           \/ spc[s] = "reconAudit" /\ tally.synced = x.synced + 1 /\ tally.failed = x.failed
    BY <1>1, <2>3, SessionChanged
  <2>5. /\ y \in SessionRecords
        /\ y.status = IF last THEN "COMPLETED" ELSE tally.status
        /\ y.progress = tally.progress + 1
        /\ y.drifted = tally.drifted /\ y.employees = tally.employees
        /\ y.synced = tally.synced /\ y.failed = tally.failed
    <3>1. PICK v : v = IF last THEN "COMPLETED" ELSE tally.status
      OBVIOUS
    <3>2. v \in {"none", "IN_PROGRESS", "COMPLETED"}
      BY <2>4, <3>1 DEF SessionRecords
    <3>3. y = [tally EXCEPT !.progress = @ + 1, !.status = v]
      BY <1>3, <3>1
    <3>4. y = [status |-> v, employees |-> tally.employees,
               progress |-> tally.progress + 1, synced |-> tally.synced,
               drifted |-> tally.drifted, failed |-> tally.failed]
      BY <2>4, <3>3 DEF SessionRecords
    <3>5. /\ tally.employees \in Seq(LeaveTypes) /\ tally.progress \in Nat
          /\ tally.synced \in Nat /\ tally.drifted \in Nat /\ tally.failed \in Nat
      BY <2>4 DEF SessionRecords
    <3>6. QED
      BY <3>1, <3>2, <3>4, <3>5 DEF SessionRecords
  <2> HIDE DEF x, y
  <2>6. y.progress = y.synced + y.failed /\ y.synced <= written[id].rows
    BY <2>1, <2>2, <2>4, <2>5
  <2>7. QED
    BY <2>1, <2>4, <2>5, <2>6
<1>5. x.progress + Len(job[s].todo) = Len(x.employees) /\ x.status = "IN_PROGRESS"
  BY <1>0, <1>1 DEF BatchOf, Batch
<1>6. /\ job'[s].id = id /\ job'[s].kind = "batch"
      /\ spc'[s] = IF last THEN "record" ELSE "askHcm"
      /\ ~last => job'[s].todo = Tail(job[s].todo)
  BY <1>0, <1>1 DEF NextEmployee, SyncGoto, JobRecords
<1>7. session' \in [SyncIds -> SessionRecords]
  BY <1>1, <1>2, <1>3, <1>4 DEF BatchInv
<1>8. BatchOf(s)' /\ Runs(s)'
  <2>1. Batch(s)' = y
    BY <1>6 DEF Batch
  <2>2. ASSUME ~last PROVE y.progress + Len(job'[s].todo) = Len(y.employees)
    <3>1. Len(Tail(job[s].todo)) = Len(job[s].todo) - 1
      BY EmployeeKnown, HeadTailProperties
    <3>2. x.progress \in Nat /\ y.progress = x.progress + 1 /\ y.employees = x.employees
      BY <1>1, <1>4 DEF SessionRecords
    <3>3. Len(job'[s].todo) = Len(job[s].todo) - 1
      BY <1>6, <2>2, <3>1
    <3>4. Len(job[s].todo) \in Nat /\ Len(x.employees) \in Nat
      BY <1>1, EmployeeKnown, LenProperties DEF SessionRecords
    <3>5. x.progress + Len(job[s].todo) = Len(x.employees)
      BY <1>5
    <3> HIDE DEF x, y
    <3>6. PICK n \in Nat, m \in Nat, k \in Nat :
              n = x.progress /\ m = Len(job[s].todo) /\ k = Len(x.employees)
      BY <3>2, <3>4
    <3>7. n + m = k => (n + 1) + (m - 1) = k
      OBVIOUS
    <3>8. y.progress = n + 1 /\ Len(job'[s].todo) = m - 1 /\ Len(y.employees) = k
      BY <3>2, <3>3, <3>6
    <3>9. n + m = k
      BY <3>5, <3>6
    <3>10. QED
      BY <3>7, <3>8, <3>9
  <2>3. y.status = IF spc'[s] = "record" THEN "COMPLETED" ELSE "IN_PROGRESS"
    BY <1>4, <1>6
  <2>4. QED
    BY <1>6, <2>1, <2>2, <2>3 DEF BatchOf, Runs
<1>9. Counted(id)'
  <2>1. y.drifted <= written[id].drifts
    BY <1>1, <1>4 DEF Counted
  <2>2. last => y.progress = Len(y.employees)
    BY <1>4, <1>5
  <2>3. UNCHANGED written /\ job'[s].id = id /\ Runs(s)'
    BY <1>6, <1>8
  <2>4. QED
    BY <1>4, <2>1, <2>2, <2>3 DEF Counted
<1>10. BatchInv'
  <2>1. \A i \in SyncIds \ {id} : session'[i] = session[i] /\ written'[i] = written[i]
    BY <1>2 DEF BatchInv
  <2>2. written' \in [SyncIds -> WrittenRecords]
    BY DEF BatchInv
  <2>3. QED
    BY <1>0, <1>6, <1>7, <1>8, <1>9, <2>1, <2>2, OneBatchMoves
<1>11. Forward
  <2>1. ASSUME NEW i \in SyncIds
        PROVE  /\ session[i].progress <= session'[i].progress
               /\ session[i].status = "COMPLETED" => session'[i] = session[i]
    <3>1. CASE i = id
      BY <1>1, <1>4, <1>5, <3>1 DEF SessionRecords
    <3>2. CASE i # id
      <4>1. session'[i] = session[i] /\ session[i].progress \in Nat
        BY <1>2, <3>2 DEF BatchInv, SessionRecords
      <4>2. QED
        BY <4>1
    <3>3. QED
      BY <3>1, <3>2
  <2>2. QED
    BY <2>1 DEF Forward
<1>12. QED
  BY <1>10, <1>11

\* The catch of the loop's body, or of a sync without a session.
LEMMA BatchFails ==
    ASSUME SyncInv, BatchInv, NEW s \in Syncers, spc[s] \notin {"idle", "record"},
           EmployeeFailed(s), UNCHANGED <<written, syncs>>
    PROVE  BatchInv' /\ Forward
<1>1. OtherSyncsSame(s)
  BY EmployeeFailedRegs
<1>2. CASE job[s].kind = "batch"
  BY <1>1, <1>2, BatchTurn DEF EmployeeFailed
<1>3. CASE job[s].kind # "batch"
  BY <1>1, <1>3, BatchFinish DEF EmployeeFailed
<1>4. QED
  BY <1>2, <1>3

\* A step that sets some registers of one sync.
LEMMA GotoOtherSyncs ==
    ASSUME SyncRegsOK, NEW s \in Syncers, NEW step, SyncGoto(s, step), UNCHANGED job,
           \/ UNCHANGED answer
           \/ \E a : answer' = [answer EXCEPT ![s] = a],
           \/ UNCHANGED held
           \/ \E b : held' = [held EXCEPT ![s] = b]
    PROVE  OtherSyncsSame(s)
BY DEF SyncRegsOK, SyncGoto, OtherSyncsSame

\* getBalance and reconcileBalance's read, up to the write.
LEMMA FetchBatch ==
    ASSUME SyncInv, BatchInv, NEW s \in Syncers,
           \/ AskHcm(s) \/ SyncLookup(s) \/ SyncBalRead(s) \/ SyncHydrate(s)
           \/ SyncInsert(s) \/ SyncFill(s) \/ ReconRead(s)
    PROVE  BatchInv' /\ Forward
<1>1. spc[s] \notin {"idle", "record"} /\ UNCHANGED <<written, syncs>>
  BY DEF AskHcm, SyncLookup, SyncBalRead, SyncHydrate, SyncInsert, SyncFill, ReconRead
<1>r. SyncRegsOK
  BY DEF SyncInv
<1>2. ASSUME NEW step \in SyncSteps \ {"idle", "record", "driftAudit", "reconAudit"},
             SyncGoto(s, step), UNCHANGED <<job, session>>,
             \/ UNCHANGED answer
             \/ \E a : answer' = [answer EXCEPT ![s] = a],
             \/ UNCHANGED held
             \/ \E b : held' = [held EXCEPT ![s] = b]
      PROVE  BatchInv' /\ Forward
  <2>1. OtherSyncsSame(s)
    BY <1>r, <1>2, GotoOtherSyncs
  <2>2. QED
    BY <1>1, <1>2, <2>1, BatchGoto
<1>n. \A step \in {"lookup", "balRead", "hydrate", "insert", "fill", "saveDrift",
                   "reconRead", "reconSave"} :
          step \in SyncSteps \ {"idle", "record", "driftAudit", "reconAudit"}
  BY DEF SyncSteps, SyncDbSteps
<1>3. ASSUME NEW local, Compare(s, local) PROVE BatchInv' /\ Forward
  <2>1. CASE job[s].kind = "detect"
    <3>1. OtherSyncsSame(s) /\ SyncFinish(s) /\ UNCHANGED session
      BY <1>3, <2>1, SyncFinishRegs DEF Compare
    <3>2. QED
      BY <1>1, <2>1, <3>1, BatchFinish
  <2>2. CASE job[s].kind # "detect"
    <3>1. /\ held' = [held EXCEPT ![s] = local] /\ UNCHANGED <<job, answer, session>>
          /\ SyncGoto(s, "saveDrift") \/ SyncGoto(s, "reconRead")
      BY <1>3, <2>2 DEF Compare
    <3>2. QED
      BY <1>2, <1>n, <3>1
  <2>3. QED
    BY <2>1, <2>2
<1>4. ASSUME EmployeeFailed(s) PROVE BatchInv' /\ Forward
  BY <1>1, <1>4, BatchFails
<1>5. CASE AskHcm(s)
  <2>1. /\ SyncGoto(s, "lookup") /\ UNCHANGED <<job, session, held>>
        /\ \E a : answer' = [answer EXCEPT ![s] = a]
    BY <1>5 DEF AskHcm
  <2>2. QED
    BY <1>2, <1>n, <2>1
<1>6. CASE SyncLookup(s)
  <2>1. \/ \E local : Compare(s, local)
        \/ SyncGoto(s, "balRead") /\ UNCHANGED <<job, answer, held, session>>
    BY <1>6 DEF SyncLookup
  <2>2. QED
    BY <1>2, <1>n, <1>3, <2>1
<1>7. CASE SyncBalRead(s)
  <2>1. /\ SyncGoto(s, "hydrate") \/ SyncGoto(s, "fill")
        /\ UNCHANGED <<job, session, answer>>
        /\ \E b : held' = [held EXCEPT ![s] = b]
    BY <1>7 DEF SyncBalRead
  <2>2. QED
    BY <1>2, <1>n, <2>1
<1>8. CASE SyncHydrate(s)
  <2>1. SyncGoto(s, "insert") /\ UNCHANGED <<job, session, answer, held>>
    BY <1>8 DEF SyncHydrate
  <2>2. QED
    BY <1>2, <1>n, <2>1
<1>9. CASE SyncInsert(s)
  <2>1. \/ /\ SyncGoto(s, "fill") /\ UNCHANGED <<job, session, answer>>
           /\ \E b : held' = [held EXCEPT ![s] = b]
        \/ EmployeeFailed(s)
    BY <1>9 DEF SyncInsert
  <2>2. QED
    BY <1>2, <1>n, <1>4, <2>1
<1>10. CASE SyncFill(s)
  BY <1>10, <1>3 DEF SyncFill
<1>11. CASE ReconRead(s)
  <2>1. \/ /\ SyncGoto(s, "reconSave") /\ UNCHANGED <<job, session, answer>>
           /\ \E b : held' = [held EXCEPT ![s] = b]
        \/ EmployeeFailed(s)
    BY <1>11 DEF ReconRead
  <2>2. QED
    BY <1>2, <1>n, <1>4, <2>1
<1>12. QED
  BY <1>5, <1>6, <1>7, <1>8, <1>9, <1>10, <1>11

\* A write comes before its count.
LEMMA WriteBatch ==
    ASSUME SyncInv, BatchInv, NEW s \in Syncers, SaveDrift(s) \/ ReconSave(s)
    PROVE  BatchInv' /\ Forward
<1>0. PICK id : id = job[s].id
  OBVIOUS
<1>1. /\ spc[s] \in {"saveDrift", "reconSave"} /\ spc[s] # "idle"
      /\ UNCHANGED <<job, session, syncs>>
      /\ OtherSyncsSame(s)
  BY GotoOtherSyncs DEF SaveDrift, ReconSave, SyncInv
<1>2. /\ id \in SyncIds /\ session[id] \in SessionRecords /\ written[id] \in WrittenRecords
      /\ Counted(id) /\ (job[s].kind = "batch" => BatchOf(s))
      /\ spc \in [Syncers -> SyncSteps]
  BY <1>0, <1>1, BatchKnown
<1>3. PICK w \in WrittenRecords :
          /\ written' = [written EXCEPT ![id] = w]
          /\ w.drifts >= written[id].drifts /\ w.rows >= written[id].rows
          /\ job[s].kind = "batch" =>
                \/ spc'[s] = "driftAudit" /\ w.drifts > written[id].drifts
                \/ spc'[s] = "reconAudit" /\ w.rows > written[id].rows
          /\ spc'[s] \in {"driftAudit", "reconAudit"}
  <2>1. CASE SaveDrift(s)
    <3>1. written' = [written EXCEPT ![id] =
              [written[id] EXCEPT !.drifts = IF job[s].kind = "batch" THEN @ + 1 ELSE @]]
      BY <1>0, <2>1 DEF SaveDrift
    <3>2. spc'[s] = "driftAudit"
      BY <1>2, <2>1 DEF SaveDrift, SyncGoto
    <3>3. PICK w : w = [written[id] EXCEPT !.drifts = IF job[s].kind = "batch" THEN @ + 1 ELSE @]
      OBVIOUS
    <3>4. /\ w \in WrittenRecords /\ w.rows = written[id].rows
          /\ w.drifts = IF job[s].kind = "batch" THEN written[id].drifts + 1 ELSE written[id].drifts
          /\ written[id].drifts \in Nat /\ written[id].rows \in Nat
      BY <1>2, <3>3 DEF WrittenRecords
    <3>5. written' = [written EXCEPT ![id] = w]
      BY <3>1, <3>3
    <3>6. w.drifts >= written[id].drifts /\ w.rows >= written[id].rows
      BY <3>4
    <3>7. job[s].kind = "batch" => w.drifts > written[id].drifts
      BY <3>4
    <3>8. QED
      BY <3>2, <3>4, <3>5, <3>6, <3>7
  <2>2. CASE ReconSave(s)
    <3>1. written' = [written EXCEPT ![id] =
              [written[id] EXCEPT !.rows = IF job[s].kind = "batch" THEN @ + 1 ELSE @]]
      BY <1>0, <2>2 DEF ReconSave
    <3>2. spc'[s] = "reconAudit"
      BY <1>2, <2>2 DEF ReconSave, SyncGoto
    <3>3. PICK w : w = [written[id] EXCEPT !.rows = IF job[s].kind = "batch" THEN @ + 1 ELSE @]
      OBVIOUS
    <3>4. /\ w \in WrittenRecords /\ w.drifts = written[id].drifts
          /\ w.rows = IF job[s].kind = "batch" THEN written[id].rows + 1 ELSE written[id].rows
          /\ written[id].rows \in Nat /\ written[id].drifts \in Nat
      BY <1>2, <3>3 DEF WrittenRecords
    <3>5. written' = [written EXCEPT ![id] = w]
      BY <3>1, <3>3
    <3>6. w.drifts >= written[id].drifts /\ w.rows >= written[id].rows
      BY <3>4
    <3>7. job[s].kind = "batch" => w.rows > written[id].rows
      BY <3>4
    <3>8. QED
      BY <3>2, <3>4, <3>5, <3>6, <3>7
  <2>3. QED
    BY <2>1, <2>2
<1>4. written' \in [SyncIds -> WrittenRecords] /\ written'[id] = w
  BY <1>2, <1>3 DEF BatchInv
<1>5. session[id].synced \in Nat /\ session[id].drifted \in Nat
      /\ w.drifts \in Nat /\ w.rows \in Nat /\ written[id].drifts \in Nat /\ written[id].rows \in Nat
  BY <1>2 DEF SessionRecords, WrittenRecords
<1>6. Counted(id)'
  <2>1. session[id].status = "IN_PROGRESS" =>
            \E t \in Syncers : Runs(t)' /\ job'[t].id = id
    <3>1. \A t \in Syncers : Runs(t) => Runs(t)'
      BY <1>1, <1>3 DEF Runs, OtherSyncsSame
    <3>2. QED
      BY <1>1, <1>2, <3>1 DEF Counted
  <2>2. QED
    BY <1>1, <1>2, <1>3, <1>4, <1>5, <2>1 DEF Counted
<1>7. Runs(s)' => BatchOf(s)'
  <2>1. ASSUME job[s].kind = "batch" PROVE BatchOf(s)'
    <3>1. /\ Batch(s)' = session[id] /\ Batch(s) = session[id]
          /\ job' = job /\ written'[job'[s].id] = w
      BY <1>0, <1>1, <1>4 DEF Batch
    <3>2. session[id].synced <= written[id].rows /\ session[id].drifted <= written[id].drifts
      BY <1>2 DEF Counted
    <3>3. /\ spc'[s] = "driftAudit" => session[id].drifted < w.drifts
          /\ spc'[s] = "reconAudit" => session[id].synced < w.rows
      BY <1>3, <1>5, <2>1, <3>2
    <3>4. QED
      BY <1>1, <1>2, <1>3, <2>1, <3>1, <3>3 DEF BatchOf
  <2>2. QED
    BY <1>1, <2>1 DEF Runs
<1>8. BatchInv'
  <2>1. \A i \in SyncIds \ {id} : session'[i] = session[i] /\ written'[i] = written[i]
    BY <1>1, <1>3 DEF BatchInv
  <2>2. session' \in [SyncIds -> SessionRecords]
    BY <1>1 DEF BatchInv
  <2>3. QED
    BY <1>0, <1>1, <1>4, <1>6, <1>7, <2>1, <2>2, OneBatchMoves
<1>9. QED
  BY <1>1, <1>8, ForwardSame

\* A drift is counted after its balance_history row was written.
LEMMA CountBatch ==
    ASSUME SyncInv, BatchInv, NEW s \in Syncers, DriftAudit(s) PROVE BatchInv' /\ Forward
<1>0. PICK id : id = job[s].id
  OBVIOUS
<1>1. /\ spc[s] = "driftAudit" /\ SyncGoto(s, "reconRead") /\ UNCHANGED <<job, written, syncs>>
      /\ OtherSyncsSame(s)
  BY GotoOtherSyncs DEF DriftAudit, SyncInv
<1>2. /\ id \in SyncIds /\ session[id] \in SessionRecords /\ written[id] \in WrittenRecords
      /\ Counted(id) /\ (job[s].kind = "batch" => BatchOf(s))
      /\ spc \in [Syncers -> SyncSteps]
  BY <1>0, <1>1, BatchKnown
<1>3. CASE job[s].kind # "batch"
  <2>1. session' = [session EXCEPT ![id].drifted = @]
    BY <1>0, <1>3 DEF DriftAudit
  <2>2. session' = session
    BY <1>2, <2>1 DEF BatchInv, SessionRecords
  <2>3. QED
    BY <1>1, <2>2, BatchGoto
<1>4. CASE job[s].kind = "batch"
  <2>1. PICK y : y = [session[id] EXCEPT !.drifted = @ + 1]
    OBVIOUS
  <2>2. session' = [session EXCEPT ![id] = y]
    BY <1>0, <1>4, <2>1 DEF DriftAudit
  <2>3. /\ y \in SessionRecords /\ y.drifted = session[id].drifted + 1
        /\ y.status = session[id].status /\ y.employees = session[id].employees
        /\ y.progress = session[id].progress /\ y.synced = session[id].synced
        /\ y.failed = session[id].failed
        /\ session[id].drifted \in Nat /\ session[id].progress \in Nat
        /\ written[id].drifts \in Nat
    <3>1. PICK x : x = session[id]
      OBVIOUS
    <3>2. x \in SessionRecords /\ x.drifted \in Nat /\ x.progress \in Nat
      BY <1>2, <3>1 DEF SessionRecords
    <3>3. y = [x EXCEPT !.drifted = @ + 1]
      BY <2>1, <3>1
    <3>4. /\ y \in SessionRecords /\ y.drifted = x.drifted + 1
          /\ y.status = x.status /\ y.employees = x.employees
          /\ y.progress = x.progress /\ y.synced = x.synced /\ y.failed = x.failed
      BY <3>2, <3>3 DEF SessionRecords
    <3>5. written[id].drifts \in Nat
      BY <1>2 DEF WrittenRecords
    <3>6. QED
      BY <3>1, <3>2, <3>4, <3>5
  <2>4. spc'[s] = "reconRead" /\ session'[id] = y /\ session' \in [SyncIds -> SessionRecords]
    BY <1>1, <1>2, <2>2, <2>3 DEF SyncGoto, BatchInv
  <2>5. /\ session[id].status = "IN_PROGRESS"
        /\ session[id].progress + Len(job[s].todo) = Len(session[id].employees)
        /\ session[id].drifted < written[id].drifts
    BY <1>0, <1>1, <1>2, <1>4 DEF BatchOf, Batch
  <2>6. y.drifted <= written[id].drifts
    BY <2>3, <2>5
  <2>7. Runs(s)' /\ job'[s].id = id
    BY <1>0, <1>1, <1>4, <2>4 DEF Runs
  <2>8. Counted(id)'
    BY <1>1, <1>2, <2>3, <2>4, <2>5, <2>6, <2>7 DEF Counted
  <2>9. BatchOf(s)'
    <3>1. Batch(s)' = y
      BY <2>4, <2>7 DEF Batch
    <3>2. job' = job
      BY <1>1
    <3>3. QED
      BY <2>3, <2>4, <2>5, <3>1, <3>2 DEF BatchOf
  <2>10. BatchInv'
    <3>1. \A i \in SyncIds \ {id} : session'[i] = session[i] /\ written'[i] = written[i]
      BY <1>1, <2>2 DEF BatchInv
    <3>2. written' \in [SyncIds -> WrittenRecords]
      BY <1>1 DEF BatchInv
    <3>3. QED
      BY <1>0, <1>1, <2>4, <2>7, <2>8, <2>9, <3>1, <3>2, OneBatchMoves
  <2>11. Forward
    <3>1. ASSUME NEW i \in SyncIds
          PROVE  /\ session[i].progress <= session'[i].progress
                 /\ session[i].status = "COMPLETED" => session'[i] = session[i]
      <4>1. CASE i = id
        BY <2>3, <2>4, <2>5, <4>1
      <4>2. CASE i # id
        <5>1. session'[i] = session[i] /\ session[i].progress \in Nat
          BY <2>2, <4>2 DEF BatchInv, SessionRecords
        <5>2. QED
          BY <5>1
      <4>3. QED
        BY <4>1, <4>2
    <3>2. QED
      BY <3>1 DEF Forward
  <2>12. QED
    BY <2>10, <2>11
<1>5. QED
  BY <1>3, <1>4

\* reconcileBalance is done, or the batch call returns.
LEMMA EndBatch ==
    ASSUME SyncInv, BatchInv, NEW s \in Syncers, ReconAudit(s) \/ RecordSync(s)
    PROVE  BatchInv' /\ Forward
<1>1. CASE ReconAudit(s)
  <2>1. spc[s] = "reconAudit" /\ UNCHANGED <<written, syncs>>
    BY <1>1 DEF ReconAudit
  <2>2. CASE job[s].kind = "batch"
    <3>1. NextEmployee(s, [Batch(s) EXCEPT !.synced = @ + 1])
      BY <1>1, <2>2 DEF ReconAudit
    <3>2. OtherSyncsSame(s)
      BY <2>1, <2>2, <3>1, NextEmployeeRegs
    <3>3. QED
      BY <2>1, <2>2, <3>1, <3>2, BatchTurn
  <2>3. CASE job[s].kind # "batch"
    <3>1. SyncFinish(s) /\ UNCHANGED session
      BY <1>1, <2>3 DEF ReconAudit
    <3>2. QED
      BY <2>1, <2>3, <3>1, SyncFinishRegs, BatchFinish
  <2>4. QED
    BY <2>2, <2>3
<1>2. CASE RecordSync(s)
  BY <1>2, SyncFinishRegs, BatchFinish DEF RecordSync
<1>3. QED
  BY <1>1, <1>2

\* A sync gets an ID that no other has had.
LEMMA StartBatch ==
    ASSUME SyncInv, BatchInv, NEW s \in Syncers, StartSync(s) PROVE BatchInv' /\ Forward
<1>1. PICK j \in Jobs :
          /\ job' = [job EXCEPT ![s] = j]
          /\ session' = [session EXCEPT ![j.id] =
                IF j.kind = "batch" THEN Session("IN_PROGRESS", j.todo) ELSE @]
  BY DEF StartSync
<1>2. /\ spc[s] = "idle" /\ syncs < MaxSyncs /\ syncs' = syncs + 1
      /\ SyncGoto(s, "askHcm") /\ UNCHANGED written
  BY DEF StartSync
<1>3. j.id = syncs + 1 /\ j.todo \in Seq(LeaveTypes)
  <2>1. \A lt \in LeaveTypes : <<lt>> \in Seq(LeaveTypes)
    OBVIOUS
  <2>2. QED
    BY <2>1, BatchesAssumption DEF Jobs
<1>4. /\ syncs \in Nat /\ syncs' \in 0..MaxSyncs /\ j.id \in SyncIds /\ j.id \in 1..syncs'
      /\ j.id > syncs
  BY <1>2, <1>3, SyncBoundsAssumption DEF BatchInv, SyncIds
<1>5. session[j.id] = NoSession /\ written[j.id] \in WrittenRecords
  BY <1>4 DEF BatchInv
<1>6. PICK x : x = IF j.kind = "batch" THEN Session("IN_PROGRESS", j.todo) ELSE NoSession
  OBVIOUS
<1>7. /\ session' = [session EXCEPT ![j.id] = x]
      /\ session'[j.id] = x
  BY <1>1, <1>4, <1>5, <1>6 DEF BatchInv
<1>8. NoSession \in SessionRecords /\ x \in SessionRecords
  BY <1>3, <1>6 DEF Session, NoSession, SessionRecords
<1>9. /\ spc' = [spc EXCEPT ![s] = "askHcm"] /\ spc'[s] = "askHcm" /\ job'[s] = j
      /\ \A t \in Syncers : t # s => spc'[t] = spc[t] /\ job'[t] = job[t]
  BY <1>1, <1>2 DEF SyncGoto, SyncInv, SyncRegsOK
<1>10. \A i \in SyncIds \ {j.id} : session'[i] = session[i] /\ written'[i] = written[i]
  BY <1>2, <1>7 DEF BatchInv
<1>11. (session \in [SyncIds -> SessionRecords])' /\ (written \in [SyncIds -> WrittenRecords])'
  BY <1>2, <1>7, <1>8 DEF BatchInv
<1>12. ASSUME NEW t \in Syncers, spc[t] # "idle"
       PROVE  job[t].id \in 1..syncs' /\ job[t].id \in SyncIds \ {j.id} /\ t # s
  BY <1>2, <1>3, <1>4, <1>12, SyncBoundsAssumption DEF BatchInv, SyncIds
<1>13. (\A t \in Syncers : spc[t] # "idle" => job[t].id \in 1..syncs)'
  BY <1>4, <1>9, <1>12
<1>14. (\A r, t \in Syncers :
           spc[r] # "idle" /\ spc[t] # "idle" /\ job[r].id = job[t].id => r = t)'
  <2>1. ASSUME NEW r \in Syncers, NEW t \in Syncers, spc'[r] # "idle", spc'[t] # "idle",
               job'[r].id = job'[t].id, r # t
        PROVE  FALSE
    <3>1. CASE r = s \/ t = s
      BY <1>9, <1>12, <2>1, <3>1
    <3>2. CASE r # s /\ t # s
      BY <1>9, <2>1, <3>2 DEF BatchInv
    <3>3. QED
      BY <3>1, <3>2
  <2>2. QED
    BY <2>1
<1>15. (\A i \in SyncIds : i > syncs => session[i] = NoSession)'
  <2>1. ASSUME NEW i \in SyncIds, i > syncs' PROVE session'[i] = NoSession
    <3>1. i # j.id /\ i > syncs
      BY <1>2, <1>3, <1>4, <2>1, SyncBoundsAssumption DEF SyncIds
    <3>2. QED
      BY <1>10, <3>1 DEF BatchInv
  <2>2. QED
    BY <2>1
<1>16. \A i \in SyncIds : Counted(i)'
  <2>1. ASSUME NEW i \in SyncIds, i # j.id PROVE Counted(i)'
    <3>1. session[i].status = "IN_PROGRESS" => \E t \in Syncers : Runs(t)' /\ job'[t].id = i
      <4>1. \A t \in Syncers : Runs(t) => Runs(t)' /\ job'[t].id = job[t].id
        BY <1>9, <1>12 DEF Runs
      <4>2. QED
        BY <4>1 DEF BatchInv, Counted
    <3>2. session'[i] = session[i] /\ written'[i] = written[i]
      BY <1>10, <2>1
    <3>3. QED
      BY <3>1, <3>2 DEF BatchInv, Counted
  <2>2. ASSUME NEW i, i = j.id PROVE Counted(i)'
    <3>1. /\ x.progress = 0 /\ x.synced = 0 /\ x.failed = 0 /\ x.drifted = 0
          /\ x.status # "COMPLETED"
          /\ x.status = "IN_PROGRESS" => j.kind = "batch"
      BY <1>6 DEF Session, NoSession
    <3>2. written'[i].rows \in Nat /\ written'[i].drifts \in Nat /\ session'[i] = x
      BY <1>2, <1>5, <1>7, <2>2 DEF WrittenRecords
    <3>3. j.kind = "batch" => Runs(s)' /\ job'[s].id = i
      BY <1>9, <2>2 DEF Runs
    <3>4. QED
      BY <3>1, <3>2, <3>3 DEF Counted
  <2>3. QED
    BY <2>1, <2>2
<1>17. \A t \in Syncers : Runs(t)' => BatchOf(t)'
  <2>1. ASSUME NEW t \in Syncers, t # s, Runs(t)' PROVE BatchOf(t)'
    <3>1. Runs(t) /\ spc'[t] = spc[t] /\ job'[t] = job[t]
      BY <1>9, <2>1 DEF Runs
    <3>2. session'[job[t].id] = session[job[t].id] /\ written'[job[t].id] = written[job[t].id]
      BY <1>10, <1>12, <3>1 DEF Runs
    <3>3. QED
      BY <3>1, <3>2 DEF BatchInv, BatchOf, Batch
  <2>2. ASSUME j.kind = "batch" PROVE BatchOf(s)'
    <3>1. /\ x.status = "IN_PROGRESS" /\ x.progress = 0 /\ x.employees = j.todo
          /\ Len(j.todo) \in Nat
      BY <1>3, <1>6, <2>2, LenProperties DEF Session
    <3>2. Batch(s)' = x
      BY <1>7, <1>9 DEF Batch
    <3>3. QED
      BY <1>9, <3>1, <3>2 DEF BatchOf
  <2>3. QED
    BY <1>9, <2>1, <2>2 DEF Runs
<1>18. BatchInv'
  BY <1>4, <1>11, <1>13, <1>14, <1>15, <1>16, <1>17 DEF BatchInv
<1>19. Forward
  <2>1. ASSUME NEW i \in SyncIds
        PROVE  /\ session[i].progress <= session'[i].progress
               /\ session[i].status = "COMPLETED" => session'[i] = session[i]
    <3>1. CASE i = j.id
      BY <1>5, <1>6, <1>7, <3>1 DEF Session, NoSession
    <3>2. CASE i # j.id
      <4>1. session'[i] = session[i] /\ session[i].progress \in Nat
        BY <1>10, <3>2 DEF BatchInv, SessionRecords
      <4>2. QED
        BY <4>1
    <3>3. QED
      BY <3>1, <3>2
  <2>2. QED
    BY <2>1 DEF Forward
<1>20. QED
  BY <1>18, <1>19

\* What leaves the syncs and their sessions alone.
LEMMA BatchesSame ==
    ASSUME BatchInv, UNCHANGED <<spc, job, session, written, syncs>> PROVE BatchInv' /\ Forward
<1>1. \A i \in SyncIds : Counted(i)'
  BY DEF BatchInv, Counted, Runs
<1>2. \A s \in Syncers : Runs(s)' => BatchOf(s)'
  BY DEF BatchInv, BatchOf, Batch, Runs
<1>3. BatchInv'
  BY <1>1, <1>2 DEF BatchInv
<1>4. QED
  BY <1>3, ForwardSame

\* Every step keeps the accounts, and moves no session back.
LEMMA NextBatchInv ==
    ASSUME SyncInv, BatchInv, SyncNext PROVE BatchInv' /\ Forward
<1>1. ASSUME NEW s \in Syncers, StartSync(s) PROVE BatchInv' /\ Forward
  BY <1>1, StartBatch
<1>2. ASSUME NEW s \in Syncers, SyncStep(s) PROVE BatchInv' /\ Forward
  BY <1>2, FetchBatch, WriteBatch, CountBatch, EndBatch DEF SyncStep
<1>3. ASSUME NEW s \in Syncers, SyncFault(s) PROVE BatchInv' /\ Forward
  <2>1. /\ spc[s] \notin {"idle", "record"} /\ EmployeeFailed(s)
        /\ UNCHANGED <<written, syncs>>
    BY <1>3 DEF SyncFault, SyncDbSteps
  <2>2. QED
    BY <2>1, BatchFails
<1>4. ASSUME UNCHANGED <<syncRegs, syncs>> PROVE BatchInv' /\ Forward
  BY <1>4, BatchesSame DEF syncRegs
<1>5. ASSUME NEW lt \in LeaveTypes, HcmChange(lt) PROVE BatchInv' /\ Forward
  BY <1>4, <1>5 DEF HcmChange
<1>6. CASE SyncCrash
  <2>1. /\ \A s \in Syncers : spc'[s] = "idle"
        /\ session' = [i \in SyncIds |-> NoSession]
        /\ written' = [i \in SyncIds |-> NothingWritten]
        /\ UNCHANGED syncs
    BY <1>6 DEF SyncCrash
  <2>2. NoSession \in SessionRecords /\ NothingWritten \in WrittenRecords
    BY EmptySeq DEF NoSession, Session, SessionRecords, NothingWritten, WrittenRecords
  <2>3. \A i \in SyncIds : Counted(i)'
    BY <2>1 DEF Counted, NoSession, Session, NothingWritten
  <2>4. \A s \in Syncers : ~ Runs(s)'
    BY <2>1 DEF Runs
  <2>5. (\A s, t \in Syncers :
            spc[s] # "idle" /\ spc[t] # "idle" /\ job[s].id = job[t].id => s = t)'
    BY <2>1
  <2>6. BatchInv'
    BY <2>1, <2>2, <2>3, <2>4, <2>5 DEF BatchInv
  <2>7. Forward
    BY <2>1 DEF Forward
  <2>8. QED
    BY <2>6, <2>7
<1>7. QED
  BY <1>1, <1>2, <1>3, <1>4, <1>5, <1>6 DEF SyncNext, syncVars

-----------------------------------------------------------------------------
(* The theorems.                                                             *)

\* At first no sync is on its way and no session is kept.
LEMMA InitSync == SyncInit => SyncInv /\ BatchInv
<1> SUFFICES ASSUME SyncInit PROVE SyncInv /\ BatchInv
  OBVIOUS
<1>1. TypeInv
  BY InitTypeInv DEF SyncInit
<1>2. DaysInv(Grants)
  BY DEF SyncInit, Init, DaysInv, Whole
<1>3. hcm \in [LeaveTypes -> Answers] /\ \A lt \in LeaveTypes : hcm[lt] \in Numbers(lt)
  BY HcmAssumption DEF SyncInit, Answers, Numbers
<1>4. NoJob \in JobRecords
  BY EmptySeq DEF NoJob, JobRecords
<1>5. SyncRegsOK /\ \A s \in Syncers : SyncerOK(s)
  BY <1>4 DEF SyncInit, SyncRegsOK, SyncSteps, SyncerOK, Holding, SyncDbSteps, NoJob
<1>6. NoSession \in SessionRecords /\ NothingWritten \in WrittenRecords
  BY EmptySeq DEF NoSession, Session, SessionRecords, NothingWritten, WrittenRecords
<1>7. \A i \in SyncIds : Counted(i)
  BY DEF SyncInit, Counted, NoSession, Session, NothingWritten
<1>8. BatchInv
  BY <1>6, <1>7, SyncBoundsAssumption DEF SyncInit, BatchInv, Runs
<1>9. QED
  BY <1>1, <1>2, <1>3, <1>5, <1>8 DEF SyncInv

\* Every step keeps both invariants.
LEMMA NextSync == SyncInv /\ BatchInv /\ [SyncNext]_<<vars, syncVars>> => SyncInv' /\ BatchInv'
<1> SUFFICES ASSUME SyncInv, BatchInv, [SyncNext]_<<vars, syncVars>> PROVE SyncInv' /\ BatchInv'
  OBVIOUS
<1>1. SyncInv'
  BY NextSyncInv DEF BatchInv
<1>2. BatchInv'
  BY NextBatchInv, BatchesSame DEF syncVars, syncRegs
<1>3. QED
  BY <1>1, <1>2

\* What holds of syncs, handlers and sessions in every reachable state.
LEMMA SyncInvariant == SyncSpec => [](SyncInv /\ BatchInv)
BY InitSync, NextSync, PTL DEF SyncSpec

\* Type correctness: the rows reconciliation writes, possibly from an entity
\* read before other writes, are rows the handlers may read.
THEOREM SyncTypeCorrect == SyncSpec => []SyncTypeOK
<1>1. ASSUME SyncInv PROVE SyncTypeOK
  <2>1. \A s \in Syncers : spc[s] \notin {"idle", "askHcm", "record"} =>
            answer[s] \in [available : Nat, used : Nat]
    BY <1>1, EmployeeKnown, GrantsGranted DEF SyncInv, SyncerOK, Answers
  <2>2. QED
    BY <1>1, <2>1 DEF SyncInv, TypeInv, SyncRegsOK, SyncSteps, SyncerOK, Holding, Answers,
                      SyncTypeOK
<1>2. QED
  BY <1>1, SyncInvariant, PTL

\* However many syncs, approvals, refunds and failures overwrite one another, a
\* row holds at least the days the HCM granted at some time.
THEOREM SyncKeepsDays == SyncSpec => []NoDaysLostToSync
<1>1. ASSUME SyncInv PROVE NoDaysLostToSync
  <2>1. ASSUME NEW lt \in LeaveTypes, balance[lt] # NoRow
        PROVE  \E n \in Numbers(lt) :
                  balance[lt].available + balance[lt].used >= n.available + n.used
    <3>1. Whole(Grants, lt, balance[lt])
      BY <1>1 DEF SyncInv, DaysInv
    <3>2. QED
      BY <2>1, <3>1 DEF Whole, Grants
  <2>2. QED
    BY <2>1 DEF NoDaysLostToSync, Numbers
<1>2. QED
  BY <1>1, SyncInvariant, PTL

\* Whatever fails in however many overlapping batches, the counters of every
\* session agree with one another and with the rows written.
THEOREM SyncCountsBatches == SyncSpec => []BatchAccounted
BY BatchCounts, SyncInvariant, PTL

\* Progress never falls and COMPLETED stays, but for a restart.
THEOREM SyncMovesForward == SyncSpec => StatusMovesForward
<1>1. SyncInv /\ BatchInv /\ [SyncNext]_<<vars, syncVars>> => [Forward]_session
  BY NextBatchInv DEF syncVars, syncRegs
<1>2. SyncSpec => [][Forward]_session
  BY <1>1, SyncInvariant, PTL DEF SyncSpec
<1>3. QED
  BY <1>2 DEF StatusMovesForward, Forward

-----------------------------------------------------------------------------
(* What undisturbed syncs leave in the rows.                                 *)

\* The row has the HCM's numbers.
Agrees(lt) ==
    /\ balance[lt] # NoRow
    /\ balance[lt].available = hcm[lt].available
    /\ balance[lt].used = hcm[lt].used

SomeoneAlone == \E s \in Syncers : spc[s] # "idle" /\ alone[s]

\* What a sync was told is what the HCM still says, and what it wrote, too.
AnswerCurrent(s) ==
    /\ spc[s] \notin {"idle", "askHcm", "record"} => answer[s] = hcm[Employee(s)]
    /\ spc[s] = "reconAudit" => Agrees(Employee(s))

StillToDo(s, lt) == spc[s] # "record" /\ \E k \in DOMAIN job[s].todo : job[s].todo[k] = lt

\* An employee of a batch that had no failure agrees, or its turn is to come.
DoneOf(s) ==
    alone[s] /\ Runs(s) /\ Batch(s).failed = 0 =>
        \A i \in DOMAIN Batch(s).employees :
            Agrees(Batch(s).employees[i]) \/ StillToDo(s, Batch(s).employees[i])

\* SyncConverges is not inductive: it needs what a batch did in its earlier
\* turns, that no decision is on its way while an undisturbed sync runs, that
\* whatever other syncs write meanwhile is current, whether or not they began
\* undisturbed, and that a hydration on the way writes the same numbers.
ConvInv ==
    /\ alone \in [Syncers -> BOOLEAN]
    /\ \A lt \in LeaveTypes : balance[lt] = NoRow => hcm[lt] = HcmBalance[lt]
    /\ SomeoneAlone => /\ \A p \in Slots : call[p].kind \notin DecisionKinds
                       /\ \A s \in Syncers : AnswerCurrent(s)
    /\ \A s \in Syncers : DoneOf(s)

\* Hydration is all that happens to the rows.
KeepsRows ==
    \/ UNCHANGED balance
    \/ \E lt \in LeaveTypes :
          balance[lt] = NoRow /\ balance' = [balance EXCEPT ![lt] = Hydrated(lt)]

\* A hydrated row is a row.
LEMMA HydratedIsRow ==
    ASSUME NEW lt \in LeaveTypes PROVE Hydrated(lt) \in Rows /\ Hydrated(lt) # NoRow
BY HcmAssumption, NoValueAssumption DEF Hydrated, Rows

\* Such a step makes no row disagree, and takes none away.
LEMMA KeptRows ==
    ASSUME TypeInv, KeepsRows, UNCHANGED hcm, NEW lt \in LeaveTypes
    PROVE  /\ Agrees(lt) => Agrees(lt)'
           /\ balance[lt] # NoRow => balance'[lt] # NoRow
BY HydratedIsRow DEF TypeInv, TypeOK, KeepsRows, Agrees

\* Only a decision writes a row that was there.
LEMMA StepRows ==
    ASSUME TypeInv, NEW p \in Slots, Step(p)
    PROVE  /\ call[p].kind \notin DecisionKinds => KeepsRows
           /\ \A lt \in LeaveTypes : balance[lt] # NoRow => balance'[lt] # NoRow
<1> USE DEF TypeInv
<1>b. call[p] # NoCall /\ Leave(p) \in LeaveTypes
  <2>1. pc[p] # "idle"
    BY DEF Step, DimRead, HcmAnswer, Insert, Lookup, BalRead, Fill, CreateSave,
           AuditLog, ReadReq, RefreshRead, RefreshSave, RefreshFill, DeductRead,
           DeductSave, DeductInvalidate, RefundRead, RefundSave, RefundInvalidate,
           Invalidate, SaveReq
  <2>2. call[p] # NoCall
    BY <2>1 DEF TypeOK, NoCall, StepsOf
  <2>3. QED
    BY <2>1, <2>2, Busy
<1>1. ASSUME KeepsRows
      PROVE  \A lt \in LeaveTypes : balance[lt] # NoRow => balance'[lt] # NoRow
  BY <1>1, HydratedIsRow DEF KeepsRows, TypeOK
<1>2. ASSUME NEW b \in Rows, balance' = [balance EXCEPT ![Leave(p)] = b]
      PROVE  \A lt \in LeaveTypes : balance[lt] # NoRow => balance'[lt] # NoRow
  BY <1>2, NoValueAssumption DEF TypeOK
<1>3. CASE DimRead(p) \/ HcmAnswer(p) \/ Lookup(p) \/ BalRead(p) \/ Fill(p) \/ CreateSave(p)
              \/ AuditLog(p) \/ ReadReq(p) \/ RefreshRead(p) \/ RefreshFill(p) \/ DeductRead(p)
              \/ DeductInvalidate(p) \/ RefundRead(p) \/ RefundInvalidate(p) \/ SaveReq(p)
  <2>1. UNCHANGED balance
    BY <1>3 DEF DimRead, HcmAnswer, Lookup, BalRead, Fill, CreateSave, AuditLog, ReadReq,
           RefreshRead, RefreshFill, DeductRead, DeductInvalidate, RefundRead,
           RefundInvalidate, Invalidate, SaveReq, tables
  <2>2. QED
    BY <2>1 DEF KeepsRows
<1>4. CASE Insert(p)
  <2>1. KeepsRows
    BY <1>4, <1>b DEF Insert, KeepsRows
  <2>2. QED
    BY <1>1, <2>1
<1>5. CASE RefreshSave(p)
  <2>1. call[p].kind = "approve"
    BY <1>5, StepKinds DEF RefreshSave, TypeOK, ApproveSteps
  <2>2. row[p] \in Rows
    BY <1>5 DEF RefreshSave, HoldsRow
  <2>3. QED
    BY <1>2, <1>5, <2>1, <2>2 DEF RefreshSave, DecisionKinds
<1>6. CASE DeductSave(p)
  <2>1. call[p].kind = "approve" /\ pc[p] # "idle"
    BY <1>6, StepKinds DEF DeductSave, TypeOK, ApproveSteps
  <2>2. row[p] \in Rows /\ Days(p) \in Nat
    BY <1>6, <2>1, Busy DEF DeductSave, HoldsRow
  <2>3. row[p].available >= Days(p) => Deducted(row[p], Days(p)) \in Rows
    BY <2>2 DEF Deducted, Rows
  <2>4. QED
    BY <1>2, <1>6, <2>1, <2>3 DEF DeductSave, DecisionKinds
<1>7. CASE RefundSave(p)
  <2>1. call[p].kind = "cancel" /\ pc[p] # "idle"
    BY <1>7, StepKinds DEF RefundSave, TypeOK, CancelSteps
  <2>2. row[p] \in Rows /\ Days(p) \in Nat
    BY <1>7, <2>1, Busy DEF RefundSave, HoldsRow
  <2>3. Refunded(row[p], Days(p)) \in Rows
    BY <2>2 DEF Refunded, Rows
  <2>4. QED
    BY <1>2, <1>7, <2>1, <2>3 DEF RefundSave, DecisionKinds
<1>8. QED
  BY <1>3, <1>4, <1>5, <1>6, <1>7 DEF Step

\* No handler that is not called for a decision begins one.
LEMMA StepCalls ==
    ASSUME TypeInv, NEW p \in Slots,
           StartGet(p) \/ StartCreate(p) \/ Step(p) \/ Fault(p)
    PROVE  \A q \in Slots : call'[q].kind \in DecisionKinds => call[q].kind \in DecisionKinds
<1> USE DEF TypeInv
<1>1. NoCall.kind \notin DecisionKinds
  BY DEF NoCall, DecisionKinds
<1>2. ASSUME NEW a, Finish(p, a)
      PROVE  \A q \in Slots : call'[q].kind \in DecisionKinds => call[q].kind \in DecisionKinds
  BY <1>1, <1>2, FinishOthers DEF OthersSame
<1>3. ASSUME NEW c, NEW step, Begin(p, c, step), c.kind \in {"get", "create"}
      PROVE  \A q \in Slots : call'[q].kind \in DecisionKinds => call[q].kind \in DecisionKinds
  <2>1. c.kind \notin DecisionKinds
    BY <1>3 DEF DecisionKinds
  <2>2. QED
    BY <1>3, <2>1 DEF Begin, TypeOK
<1>4. CASE StartGet(p) \/ StartCreate(p)
  <2>1. \A c \in GetCalls : c.kind = "get"
    BY CallShape
  <2>2. QED
    BY <1>3, <1>4, <2>1 DEF StartGet, StartCreate
<1>5. CASE Fault(p)
  BY <1>2, <1>5 DEF Fault, HydrationFailed
<1>6. CASE Step(p)
  <2>1. UNCHANGED call \/ \E a : Finish(p, a)
    BY <1>6 DEF Step, DimRead, HcmAnswer, Insert, Lookup, BalRead, Fill, CreateSave,
           AuditLog, ReadReq, RefreshRead, RefreshSave, RefreshFill, DeductRead,
           DeductSave, DeductInvalidate, RefundRead, RefundSave, RefundInvalidate,
           Invalidate, SaveReq, UseBalance, FindRow, RetryOrGiveUp, HydrationFailed, regs
  <2>2. QED
    BY <1>2, <2>1
<1>7. QED
  BY <1>4, <1>5, <1>6

\* While nobody is undisturbed there is little to keep.
LEMMA NobodyAlone ==
    ASSUME (alone \in [Syncers -> BOOLEAN])', ~SomeoneAlone',
           \A lt \in LeaveTypes : balance'[lt] = NoRow => hcm'[lt] = HcmBalance[lt]
    PROVE  ConvInv'
<1>1. \A s \in Syncers : DoneOf(s)'
  BY DEF DoneOf, Runs, SomeoneAlone
<1>2. QED
  BY <1>1 DEF ConvInv

\* Gets, creates and the cache's clock hydrate at most.
LEMMA HandlersConv ==
    ASSUME SyncInv, BatchInv, ConvInv, KeepsRows,
           \A q \in Slots : call'[q].kind \in DecisionKinds => call[q].kind \in DecisionKinds,
           UNCHANGED <<hcm, spc, job, answer, session, alone>>
    PROVE  ConvInv'
<1>1. \A lt \in LeaveTypes : /\ Agrees(lt) => Agrees(lt)'
                             /\ balance[lt] # NoRow => balance'[lt] # NoRow
  BY KeptRows DEF SyncInv
<1>2. SomeoneAlone' = SomeoneAlone
  BY DEF SomeoneAlone
<1>3. ASSUME SomeoneAlone, NEW s \in Syncers PROVE AnswerCurrent(s)'
  <2>1. AnswerCurrent(s)
    BY <1>3 DEF ConvInv
  <2>2. spc[s] = "reconAudit" => Employee(s) \in LeaveTypes
    BY EmployeeKnown
  <2>3. QED
    BY <1>1, <2>1, <2>2 DEF AnswerCurrent, Employee
<1>4. ASSUME NEW s \in Syncers PROVE DoneOf(s)'
  <2>1. DoneOf(s)
    BY DEF ConvInv
  <2>2. Runs(s) => Batch(s) \in SessionRecords
    BY BatchKnown DEF Runs, Batch
  <2>3. Runs(s) => \A i \in DOMAIN Batch(s).employees : Batch(s).employees[i] \in LeaveTypes
    BY <2>2 DEF SessionRecords
  <2>4. /\ Runs(s)' = Runs(s) /\ Batch(s)' = Batch(s)
        /\ \A lt \in LeaveTypes : StillToDo(s, lt)' = StillToDo(s, lt)
    BY DEF Runs, Batch, StillToDo
  <2>5. QED
    BY <1>1, <2>1, <2>3, <2>4 DEF DoneOf
<1>5. QED
  BY <1>1, <1>2, <1>3, <1>4 DEF ConvInv

\* A sync hydrates, or writes what it was told.
Reconciles(s) ==
    /\ spc[s] = "reconSave"
    /\ balance' = [balance EXCEPT ![Employee(s)] = Reconciled(held[s], answer[s])]
    /\ UNCHANGED job
SyncWrites(s) == KeepsRows \/ Reconciles(s)

\* Either is what the HCM says, so no row that agreed disagrees.
LEMMA SyncKeepsAgreement ==
    ASSUME SyncInv, ConvInv, NEW s \in Syncers, SyncWrites(s), UNCHANGED hcm
    PROVE  /\ \A lt \in LeaveTypes : balance[lt] # NoRow => balance'[lt] # NoRow
           /\ SomeoneAlone => \A lt \in LeaveTypes : Agrees(lt) => Agrees(lt)'
           /\ SomeoneAlone /\ Reconciles(s) => Agrees(Employee(s))'
<1>1. CASE KeepsRows /\ ~Reconciles(s)
  BY <1>1, KeptRows DEF SyncInv
<1>2. CASE Reconciles(s)
  <2>1. spc[s] = "reconSave" /\ Employee(s) \in LeaveTypes
    BY <1>2, EmployeeKnown DEF Reconciles
  <2>2. held[s] \in Rows /\ answer[s] \in Answers
    BY <2>1, GrantsGranted DEF SyncInv, SyncerOK, Holding, SyncDbSteps
  <2> DEFINE b == Reconciled(held[s], answer[s])
  <2>3. b \in Rows /\ b.available = answer[s].available /\ b.used = answer[s].used
    BY <2>2 DEF Reconciled, Rows, Answers
  <2> HIDE DEF b
  <2>4. balance' = [balance EXCEPT ![Employee(s)] = b] /\ b # NoRow
    BY <1>2, <2>3, NoValueAssumption DEF Reconciles, b
  <2>5. balance'[Employee(s)] = b
        /\ \A lt \in LeaveTypes : lt # Employee(s) => balance'[lt] = balance[lt]
    BY <2>1, <2>4 DEF SyncInv, TypeInv, TypeOK
  <2>6. ASSUME SomeoneAlone
        PROVE  Agrees(Employee(s))' /\ \A lt \in LeaveTypes : Agrees(lt) => Agrees(lt)'
    <3>1. answer[s] = hcm[Employee(s)]
      BY <2>1, <2>6 DEF ConvInv, AnswerCurrent
    <3>2. PICK e : e = Employee(s)
      OBVIOUS
    <3>3. \A lt \in LeaveTypes : Agrees(lt) \/ lt = e => Agrees(lt)'
      BY <2>3, <2>4, <2>5, <3>1, <3>2 DEF Agrees
    <3>4. Employee(s)' = e /\ e \in LeaveTypes
      BY <1>2, <2>1, <3>2 DEF Employee, Reconciles
    <3>5. Agrees(e)'
      BY <3>3, <3>4
    <3>6. QED
      BY <3>3, <3>4, <3>5 DEF Agrees
  <2>7. QED
    BY <2>4, <2>5, <2>6
<1>3. QED
  BY <1>1, <1>2 DEF SyncWrites

\* It is enough to see what becomes of the sync that takes the step.
LEMMA OneSyncConv ==
    ASSUME SyncInv, BatchInv, ConvInv, NEW s \in Syncers, spc[s] # "idle", OtherSyncsSame(s),
           SyncWrites(s), UNCHANGED <<hcm, alone, call>>,
           \A i \in SyncIds \ {job[s].id} : session'[i] = session[i],
           SomeoneAlone => AnswerCurrent(s)',
           alone[s] => DoneOf(s)'
    PROVE  ConvInv'
<1>1. /\ \A lt \in LeaveTypes : balance[lt] # NoRow => balance'[lt] # NoRow
      /\ SomeoneAlone => \A lt \in LeaveTypes : Agrees(lt) => Agrees(lt)'
  BY SyncKeepsAgreement
<1>2. SomeoneAlone' => SomeoneAlone
  BY DEF SomeoneAlone, OtherSyncsSame
<1>3. ASSUME SomeoneAlone, NEW t \in Syncers PROVE AnswerCurrent(t)'
  <2>1. CASE t = s
    BY <1>3, <2>1
  <2>2. CASE t # s
    <3>1. AnswerCurrent(t)
      BY <1>3 DEF ConvInv
    <3>2. spc'[t] = spc[t] /\ job'[t] = job[t] /\ answer'[t] = answer[t]
      BY <2>2 DEF OtherSyncsSame
    <3>3. spc[t] = "reconAudit" => Employee(t) \in LeaveTypes
      BY EmployeeKnown
    <3>4. Employee(t)' = Employee(t)
      BY <3>2 DEF Employee
    <3>5. spc[t] = "reconAudit" => Agrees(Employee(t))'
      BY <1>1, <1>3, <3>1, <3>3, <3>4 DEF AnswerCurrent, Agrees
    <3>6. QED
      BY <3>1, <3>2, <3>4, <3>5 DEF AnswerCurrent
  <2>3. QED
    BY <2>1, <2>2
<1>4. ASSUME NEW t \in Syncers PROVE DoneOf(t)'
  <2>1. CASE ~ alone[t]
    BY <2>1 DEF DoneOf
  <2>2. CASE t = s /\ alone[s]
    BY <2>2
  <2>3. CASE t # s /\ alone[t]
    <3>1. spc'[t] = spc[t] /\ job'[t] = job[t]
      BY <2>3 DEF OtherSyncsSame
    <3>2. CASE ~ Runs(t)
      BY <3>1, <3>2 DEF DoneOf, Runs
    <3>3. CASE Runs(t)
      <4>1. spc[t] # "idle" /\ job[t].id \in SyncIds /\ Batch(t) \in SessionRecords
        BY <3>3, BatchKnown DEF Runs, Batch
      <4>2. job[t].id # job[s].id
        BY <2>3, <4>1 DEF BatchInv
      <4>3. Batch(t)' = Batch(t)
        BY <3>1, <4>1, <4>2 DEF Batch
      <4>4. \A i \in DOMAIN Batch(t).employees : Batch(t).employees[i] \in LeaveTypes
        BY <4>1 DEF SessionRecords
      <4>5. SomeoneAlone
        BY <2>3, <4>1 DEF SomeoneAlone
      <4>6. DoneOf(t)
        BY DEF ConvInv
      <4>7. \A lt : StillToDo(t, lt)' <=> StillToDo(t, lt)
        BY <3>1 DEF StillToDo
      <4>8. alone'[t] = alone[t]
        OBVIOUS
      <4>9. Runs(t)' <=> Runs(t)
        BY <3>1 DEF Runs
      <4>10. \A i \in DOMAIN Batch(t).employees :
                Agrees(Batch(t).employees[i]) => Agrees(Batch(t).employees[i])'
        BY <1>1, <4>3, <4>4, <4>5 DEF Agrees
      <4> QED  BY <4>3, <4>6, <4>7, <4>8, <4>9, <4>10 DEF DoneOf
    <3>4. QED
      BY <3>2, <3>3
  <2>4. QED
    BY <2>1, <2>2, <2>3
<1>5. QED
  BY <1>1, <1>2, <1>3, <1>4 DEF ConvInv

\* The call returns or throws.
LEMMA FinishConv ==
    ASSUME SyncInv, BatchInv, ConvInv, NEW s \in Syncers, spc[s] # "idle", SyncFinish(s),
           UNCHANGED <<hcm, alone, call, session, balance>>
    PROVE  ConvInv'
<1>1. OtherSyncsSame(s)
  BY SyncFinishRegs
<1>2. spc'[s] = "idle"
  BY BatchKnown DEF SyncFinish, SyncGoto
<1>3. AnswerCurrent(s)' /\ DoneOf(s)'
  BY <1>2 DEF AnswerCurrent, DoneOf, Runs
<1>4. QED
  BY <1>1, <1>3, OneSyncConv DEF SyncWrites, KeepsRows

\* A step within a turn of the loop.
LEMMA GotoConv ==
    ASSUME SyncInv, BatchInv, ConvInv, NEW s \in Syncers, spc[s] \notin {"idle", "record"},
           NEW step, step \notin {"idle", "record", "askHcm"},
           SyncGoto(s, step), OtherSyncsSame(s), UNCHANGED <<hcm, alone, call, job>>,
           SyncWrites(s), step = "reconAudit" => Reconciles(s),
           \A i \in SyncIds \ {job[s].id} : session'[i] = session[i],
           Batch(s)'.failed = Batch(s).failed, Batch(s)'.employees = Batch(s).employees,
           answer'[s] = IF spc[s] = "askHcm" THEN hcm[Employee(s)] ELSE answer[s]
    PROVE  ConvInv'
<1>1. spc'[s] = step
  BY BatchKnown DEF SyncGoto
<1>2. /\ SomeoneAlone => \A lt \in LeaveTypes : Agrees(lt) => Agrees(lt)'
      /\ SomeoneAlone /\ Reconciles(s) => Agrees(Employee(s))'
  BY SyncKeepsAgreement
<1>3. ASSUME SomeoneAlone PROVE AnswerCurrent(s)'
  <2>1. AnswerCurrent(s)
    BY <1>3 DEF ConvInv
  <2>2. Employee(s)' = Employee(s)
    BY DEF Employee
  <2>3. answer'[s] = hcm'[Employee(s)']
    BY <2>1, <2>2 DEF AnswerCurrent
  <2>4. QED
    BY <1>1, <1>2, <1>3, <2>3 DEF AnswerCurrent
<1>4. ASSUME alone[s] PROVE DoneOf(s)'
  <2>1. SomeoneAlone
    BY <1>4 DEF SomeoneAlone
  <2>2. CASE ~ Runs(s)'
    BY <2>2 DEF DoneOf
  <2>3. CASE Runs(s)'
    <3>1. Runs(s) /\ Batch(s) \in SessionRecords
      BY <2>3, BatchKnown DEF Runs, Batch
    <3>2. \A i \in DOMAIN Batch(s).employees : Batch(s).employees[i] \in LeaveTypes
      BY <3>1 DEF SessionRecords
    <3>3. \A lt : StillToDo(s, lt) => StillToDo(s, lt)'
      BY <1>1 DEF StillToDo
    <3>4. DoneOf(s)
      BY DEF ConvInv
    <3>5. \A i \in DOMAIN Batch(s).employees :
              Agrees(Batch(s).employees[i]) => Agrees(Batch(s).employees[i])'
      <4>1. PICK l : l = Batch(s).employees
        OBVIOUS
      <4>2. \A i \in DOMAIN l : l[i] \in LeaveTypes /\ (Agrees(l[i]) => Agrees(l[i])')
        BY <1>2, <2>1, <3>2, <4>1
      <4>3. Batch(s)'.employees = l
        BY <4>1
      <4>4. QED
        BY <4>1, <4>2, <4>3 DEF Agrees
    <3>6. QED
      BY <1>4, <3>1, <3>3, <3>4, <3>5 DEF DoneOf
  <2>4. QED
    BY <2>2, <2>3
<1>5. QED
  BY <1>3, <1>4, OneSyncConv

\* What is left of a batch after a turn.
LEMMA TailToDo ==
    ASSUME NEW todo \in Seq(LeaveTypes) \ {<<>>}, NEW k \in DOMAIN todo
    PROVE  \/ todo[k] = Head(todo)
           \/ Len(todo) # 1 /\ \E m \in DOMAIN Tail(todo) : Tail(todo)[m] = todo[k]
<1>1. /\ Tail(todo) \in Seq(LeaveTypes) /\ Len(Tail(todo)) = Len(todo) - 1
      /\ \A i \in 1..Len(Tail(todo)) : Tail(todo)[i] = todo[i + 1]
      /\ Len(todo) \in Nat
  BY HeadTailProperties, LenProperties
<1>2. k \in 1..Len(todo)
  OBVIOUS
<1>3. CASE k = 1
  BY <1>3
<1>4. CASE k # 1
  <2>1. k - 1 \in 1..Len(Tail(todo)) /\ (k - 1) + 1 = k
    BY <1>1, <1>2, <1>4
  <2>2. Tail(todo)[k - 1] = todo[k]
    BY <1>1, <2>1
  <2>3. k - 1 \in DOMAIN Tail(todo)
    BY <1>1, <2>1
  <2>4. Len(todo) # 1
    BY <1>2, <1>4
  <2>5. QED
    BY <2>2, <2>3, <2>4
<1>5. QED
  BY <1>3, <1>4

\* A turn of the loop ends: with a failure, or with a row that agrees.
LEMMA TurnConv ==
    ASSUME SyncInv, BatchInv, ConvInv, NEW s \in Syncers, spc[s] \notin {"idle", "record"},
           job[s].kind = "batch", NEW tally,
           \/ tally = [Batch(s) EXCEPT !.failed = @ + 1]
           \/ spc[s] = "reconAudit" /\ tally = [Batch(s) EXCEPT !.synced = @ + 1],
           NextEmployee(s, tally), UNCHANGED <<hcm, alone, call, balance>>
    PROVE  ConvInv'
<1>0. PICK id : id = job[s].id
  OBVIOUS
<1>1. OtherSyncsSame(s) /\ spc[s] # "idle"
  BY NextEmployeeRegs
<1>2. /\ id \in SyncIds /\ job[s] \in JobRecords /\ Batch(s) \in SessionRecords
      /\ session \in [SyncIds -> SessionRecords] /\ Batch(s) = session[id]
      /\ spc \in [Syncers -> SyncSteps] /\ job \in [Syncers -> JobRecords]
  BY <1>0, <1>1, BatchKnown DEF BatchInv, Batch
<1>3. PICK y : y = [tally EXCEPT !.progress = @ + 1,
                                 !.status = IF Len(job[s].todo) = 1 THEN "COMPLETED" ELSE @]
  OBVIOUS
<1>4. session' = [session EXCEPT ![id] = y]
  BY <1>0, <1>3 DEF NextEmployee
<1>5. session'[id] = y /\ \A i \in SyncIds \ {id} : session'[i] = session[i]
  BY <1>2, <1>4
<1>6. /\ tally \in SessionRecords /\ tally.employees = Batch(s).employees
      /\ \/ tally.failed = Batch(s).failed + 1
         \/ spc[s] = "reconAudit" /\ tally.failed = Batch(s).failed
  BY <1>2, SessionChanged
<1>7. y.employees = Batch(s).employees /\ y.failed = tally.failed /\ Batch(s).failed \in Nat
  BY <1>2, <1>3, <1>6 DEF SessionRecords
<1>8. /\ Len(job[s].todo) = 1 => spc'[s] = "record" /\ job'[s] = job[s]
      /\ Len(job[s].todo) # 1 =>
            /\ spc'[s] = "askHcm" /\ job'[s].todo = Tail(job[s].todo)
            /\ job'[s].id = id /\ job'[s].kind = "batch"
  BY <1>0, <1>2 DEF NextEmployee, SyncGoto, JobRecords
<1>9. AnswerCurrent(s)'
  BY <1>8 DEF AnswerCurrent
<1>10. ASSUME alone[s] PROVE DoneOf(s)'
  <2>1. job'[s].id = id
    BY <1>0, <1>8
  <2>2. Batch(s)' = y
    BY <1>5, <2>1 DEF Batch
  <2>3. CASE tally.failed = Batch(s).failed + 1
    <3>1. y.failed # 0
      BY <1>7, <2>3
    <3>2. QED
      BY <2>2, <3>1 DEF DoneOf
  <2>4. CASE spc[s] = "reconAudit" /\ tally.failed = Batch(s).failed
    <3> SUFFICES ASSUME y.failed = 0, NEW i \in DOMAIN y.employees
                 PROVE  \/ Agrees(y.employees[i])'
                        \/ StillToDo(s, y.employees[i])'
      BY <2>2 DEF DoneOf
    <3>1. PICK lt : lt = y.employees[i]
      OBVIOUS
    <3>2. Agrees(lt) \/ StillToDo(s, lt)
      <4>1. DoneOf(s) /\ Runs(s) /\ Batch(s).failed = 0
        BY <1>1, <1>7, <2>4 DEF ConvInv, Runs
      <4>2. QED
        BY <1>7, <1>10, <3>1, <4>1 DEF DoneOf
    <3>3. Agrees(Employee(s))
      BY <1>1, <1>10, <2>4 DEF ConvInv, SomeoneAlone, AnswerCurrent
    <3>4. CASE Agrees(lt)
      BY <3>1, <3>4 DEF Agrees
    <3>5. CASE StillToDo(s, lt) /\ ~Agrees(lt)
      <4>1. PICK k \in DOMAIN job[s].todo : job[s].todo[k] = lt
        BY <3>5 DEF StillToDo
      <4>2. job[s].todo \in Seq(LeaveTypes) \ {<<>>}
        BY <1>1, EmployeeKnown
      <4>3. lt # Head(job[s].todo)
        BY <3>3, <3>5 DEF Employee
      <4>4. /\ Len(job[s].todo) # 1
            /\ \E m \in DOMAIN Tail(job[s].todo) : Tail(job[s].todo)[m] = lt
        BY <4>1, <4>2, <4>3, TailToDo
      <4>5. StillToDo(s, lt)'
        BY <1>8, <4>4 DEF StillToDo
      <4>6. QED
        BY <3>1, <4>5 DEF StillToDo
    <3>6. QED
      BY <3>2, <3>4, <3>5
  <2>5. QED
    BY <1>6, <2>3, <2>4
<1>11. QED
  BY <1>0, <1>1, <1>5, <1>9, <1>10, OneSyncConv DEF SyncWrites, KeepsRows

\* The catch of the loop's body, or of a sync without a session.
LEMMA FailsConv ==
    ASSUME SyncInv, BatchInv, ConvInv, NEW s \in Syncers, spc[s] \notin {"idle", "record"},
           EmployeeFailed(s), UNCHANGED <<hcm, alone, call, balance>>
    PROVE  ConvInv'
BY TurnConv, FinishConv DEF EmployeeFailed

\* The steps of a turn.
LEMMA StepConv ==
    ASSUME SyncInv, BatchInv, ConvInv, NEW s \in Syncers, SyncStep(s)
    PROVE  ConvInv'
<1>r. SyncRegsOK
  BY DEF SyncInv
<1>u. UNCHANGED <<hcm, alone, call>> /\ spc[s] # "idle"
  BY DEF SyncStep, AskHcm, SyncLookup, SyncBalRead, SyncHydrate, SyncInsert, SyncFill,
         SaveDrift, DriftAudit, ReconRead, ReconSave, ReconAudit, RecordSync, vars, regs
<1>e. Employee(s) \in LeaveTypes
  BY <1>u, EmployeeKnown
\* Moving on with the session as it is.
<1>1. ASSUME NEW step, step \notin {"idle", "record", "askHcm"},
             spc[s] \notin {"idle", "record", "askHcm"},
             step = "reconAudit" => Reconciles(s),
             SyncGoto(s, step), UNCHANGED <<job, session, answer>>, SyncWrites(s),
             UNCHANGED held \/ \E b : held' = [held EXCEPT ![s] = b]
      PROVE  ConvInv'
  <2>1. OtherSyncsSame(s)
    BY <1>r, <1>1, GotoOtherSyncs
  <2>2. Batch(s)' = Batch(s)
    BY <1>1 DEF Batch
  <2>3. Batch(s)'.failed = Batch(s).failed /\ Batch(s)'.employees = Batch(s).employees
    BY <2>2
  <2>4. QED
    BY <1>1, <1>u, <2>1, <2>3, GotoConv
<1>2. ASSUME NEW local, Compare(s, local), UNCHANGED balance, spc[s] \in {"lookup", "fill"}
      PROVE  ConvInv'
  <2>1. CASE job[s].kind = "detect"
    BY <1>2, <1>u, <2>1, FinishConv DEF Compare
  <2>2. CASE job[s].kind # "detect"
    <3>1. /\ held' = [held EXCEPT ![s] = local] /\ UNCHANGED <<job, answer, session>>
          /\ SyncGoto(s, "saveDrift") \/ SyncGoto(s, "reconRead")
      BY <1>2, <2>2 DEF Compare
    <3>2. QED
      BY <1>1, <1>2, <3>1 DEF SyncWrites, KeepsRows
  <2>3. QED
    BY <2>1, <2>2
<1>3. CASE AskHcm(s)
  <2>1. /\ spc[s] = "askHcm" /\ SyncGoto(s, "lookup") /\ UNCHANGED <<job, session, held>>
        /\ answer' = [answer EXCEPT ![s] = hcm[Employee(s)]] /\ UNCHANGED balance
    BY <1>3 DEF AskHcm, vars, tables
  <2>2. OtherSyncsSame(s) /\ answer'[s] = hcm[Employee(s)]
    BY <1>r, <2>1, GotoOtherSyncs DEF SyncRegsOK
  <2>3. Batch(s)' = Batch(s)
    BY <2>1 DEF Batch
  <2>4. Batch(s)'.failed = Batch(s).failed /\ Batch(s)'.employees = Batch(s).employees
    BY <2>3
  <2>5. SyncWrites(s)
    BY <2>1 DEF SyncWrites, KeepsRows
  <2>6. \A i \in SyncIds \ {job[s].id} : session'[i] = session[i]
    BY <2>1
  <2>7. QED
    BY <1>u, <2>1, <2>2, <2>4, <2>5, <2>6, GotoConv
<1>4. CASE SyncLookup(s)
  <2>1. UNCHANGED balance /\ spc[s] = "lookup"
    BY <1>4 DEF SyncLookup, vars, tables
  <2>2. CASE Compare(s, cache[Employee(s)])
    BY <1>2, <2>1, <2>2
  <2>3. CASE SyncGoto(s, "balRead") /\ UNCHANGED <<job, answer, held, session>>
    BY <1>1, <2>1, <2>3 DEF SyncWrites, KeepsRows
  <2>4. QED
    BY <1>4, <2>2, <2>3 DEF SyncLookup
<1>5. CASE SyncBalRead(s) \/ SyncHydrate(s) \/ SaveDrift(s)
  <2>1. /\ UNCHANGED <<balance, job, session, answer>>
        /\ spc[s] \in {"balRead", "hydrate", "saveDrift"}
        /\ UNCHANGED held \/ \E b : held' = [held EXCEPT ![s] = b]
        /\ \E step \in {"hydrate", "fill", "insert", "driftAudit"} : SyncGoto(s, step)
    BY <1>5 DEF SyncBalRead, SyncHydrate, SaveDrift, vars, tables
  <2>2. QED
    BY <1>1, <2>1 DEF SyncWrites, KeepsRows
<1>6. CASE SyncInsert(s)
  <2>1. CASE EmployeeFailed(s) /\ UNCHANGED balance
    BY <1>6, <1>u, <2>1, FailsConv DEF SyncInsert
  <2>2. CASE /\ balance[Employee(s)] = NoRow
             /\ balance' = [balance EXCEPT ![Employee(s)] = Hydrated(Employee(s))]
             /\ held' = [held EXCEPT ![s] = Hydrated(Employee(s))]
             /\ SyncGoto(s, "fill")
             /\ UNCHANGED <<job, answer, session>>
    <3>1. SyncWrites(s)
      BY <1>e, <2>2 DEF SyncWrites, KeepsRows
    <3>2. spc[s] = "insert"
      BY <1>6 DEF SyncInsert
    <3>3. QED
      BY <1>1, <2>2, <3>1, <3>2
  <2>3. QED
    BY <1>6, <2>1, <2>2 DEF SyncInsert
<1>7. CASE SyncFill(s)
  BY <1>2, <1>7 DEF SyncFill, tables
<1>8. CASE DriftAudit(s)
  <2>1. /\ spc[s] = "driftAudit" /\ SyncGoto(s, "reconRead")
        /\ UNCHANGED <<balance, job, answer, held>>
    BY <1>8 DEF DriftAudit, vars, tables
  <2>2. PICK id : id = job[s].id
    OBVIOUS
  <2>3. /\ id \in SyncIds /\ session[id] \in SessionRecords
        /\ session \in [SyncIds -> SessionRecords]
    BY <1>u, <2>2, BatchKnown DEF BatchInv
  <2>4. session' = [session EXCEPT ![id] =
            [session[id] EXCEPT !.drifted = IF job[s].kind = "batch" THEN @ + 1 ELSE @]]
    BY <1>8, <2>2 DEF DriftAudit
  <2>5. /\ session'[id].failed = session[id].failed
        /\ session'[id].employees = session[id].employees
        /\ \A i \in SyncIds \ {id} : session'[i] = session[i]
    BY <2>3, <2>4 DEF SessionRecords
  <2>6. Batch(s) = session[id] /\ Batch(s)' = session'[id]
    BY <2>1, <2>2 DEF Batch
  <2>7. OtherSyncsSame(s)
    BY <1>r, <2>1, GotoOtherSyncs
  <2>8. SyncWrites(s)
    BY <2>1 DEF SyncWrites, KeepsRows
  <2>9. Batch(s)'.failed = Batch(s).failed /\ Batch(s)'.employees = Batch(s).employees
    BY <2>5, <2>6
  <2>10. answer'[s] = IF spc[s] = "askHcm" THEN hcm[Employee(s)] ELSE answer[s]
    BY <2>1
  <2>11. \A i \in SyncIds \ {job[s].id} : session'[i] = session[i]
    BY <2>2, <2>5
  <2>12. UNCHANGED <<hcm, alone, call, job>>
    BY <1>u, <2>1
  <2>13. QED
    BY <2>1, <2>7, <2>8, <2>9, <2>10, <2>11, <2>12, GotoConv
<1>9. CASE ReconRead(s)
  <2>1. spc[s] = "reconRead" /\ UNCHANGED balance
    BY <1>9 DEF ReconRead, vars, tables
  <2>2. CASE EmployeeFailed(s)
    BY <1>u, <2>1, <2>2, FailsConv
  <2>3. CASE /\ held' = [held EXCEPT ![s] = balance[Employee(s)]]
             /\ SyncGoto(s, "reconSave") /\ UNCHANGED <<job, answer, session>>
    BY <1>1, <2>1, <2>3 DEF SyncWrites, KeepsRows
  <2>4. QED
    BY <1>9, <2>2, <2>3 DEF ReconRead
<1>10. CASE ReconSave(s)
  <2>1. spc[s] = "reconSave" /\ SyncGoto(s, "reconAudit")
        /\ UNCHANGED <<job, answer, session, held>>
        /\ Reconciles(s)
    BY <1>10 DEF ReconSave, Reconciles
  <2>2. QED
    BY <1>1, <2>1 DEF SyncWrites
<1>11. CASE ReconAudit(s)
  <2>1. UNCHANGED balance /\ spc[s] = "reconAudit"
    BY <1>11 DEF ReconAudit, vars, tables
  <2>2. CASE job[s].kind = "batch"
    BY <1>11, <1>u, <2>1, <2>2, TurnConv DEF ReconAudit
  <2>3. CASE job[s].kind # "batch"
    BY <1>11, <1>u, <2>1, <2>3, FinishConv DEF ReconAudit
  <2>4. QED
    BY <2>2, <2>3
<1>12. CASE RecordSync(s)
  BY <1>12, <1>u, FinishConv DEF RecordSync, vars, tables
<1>13. QED
  BY <1>3, <1>4, <1>5, <1>6, <1>7, <1>8, <1>9, <1>10, <1>11, <1>12 DEF SyncStep

\* A sync begins undisturbed when nothing else is on its way but undisturbed
\* syncs; all of its employees are still to do.
LEMMA StartConv ==
    ASSUME SyncInv, BatchInv, ConvInv, NEW s \in Syncers, StartSync(s) PROVE ConvInv'
<1>1. PICK j \in Jobs :
          /\ job' = [job EXCEPT ![s] = j]
          /\ session' = [session EXCEPT ![j.id] =
                IF j.kind = "batch" THEN Session("IN_PROGRESS", j.todo) ELSE @]
  BY DEF StartSync
<1>2. /\ spc[s] = "idle" /\ SyncGoto(s, "askHcm") /\ syncs < MaxSyncs
      /\ UNCHANGED <<balance, call, hcm, answer>>
      /\ alone' = [alone EXCEPT ![s] =
                      Quiet /\ \A t \in Syncers : spc[t] # "idle" => alone[t]]
  BY DEF StartSync, vars, tables, regs
<1>3. j.id = syncs + 1 /\ j.id \in SyncIds /\ syncs \in Nat
  BY <1>2, SyncBoundsAssumption DEF Jobs, BatchInv, SyncIds
<1>4. /\ spc'[s] = "askHcm" /\ job'[s] = j
      /\ \A t \in Syncers : t # s => /\ spc'[t] = spc[t] /\ job'[t] = job[t]
                                     /\ alone'[t] = alone[t]
      /\ alone'[s] = (Quiet /\ \A t \in Syncers : spc[t] # "idle" => alone[t])
      /\ alone' \in [Syncers -> BOOLEAN]
  BY <1>1, <1>2 DEF SyncGoto, SyncInv, SyncRegsOK, ConvInv
<1>5. \A t \in Syncers : t # s /\ Agrees(Employee(t)) => Agrees(Employee(t))'
  BY <1>2, <1>4 DEF Agrees, Employee
<1>6. ASSUME NEW t \in Syncers, SomeoneAlone \/ spc[t] = "idle" PROVE AnswerCurrent(t)'
  <2>1. CASE t = s
    BY <1>4, <2>1 DEF AnswerCurrent
  <2>2. CASE t # s
    <3>1. AnswerCurrent(t)
      BY <1>6 DEF ConvInv, AnswerCurrent
    <3>2. Employee(t)' = Employee(t)
      BY <1>4, <2>2 DEF Employee
    <3>3. spc'[t] = spc[t]
      BY <1>4, <2>2
    <3>4. QED
      BY <1>2, <1>5, <2>2, <3>1, <3>2, <3>3 DEF AnswerCurrent
  <2>3. QED
    BY <2>1, <2>2
<1>7. ASSUME SomeoneAlone'
      PROVE  /\ \A p \in Slots : call'[p].kind \notin DecisionKinds
             /\ \A t \in Syncers : AnswerCurrent(t)'
  <2>1. CASE SomeoneAlone
    BY <1>2, <1>6, <2>1 DEF ConvInv
  <2>2. CASE ~SomeoneAlone
    <3>1. alone'[s]
      BY <1>4, <1>7, <2>2 DEF SomeoneAlone
    <3>2. Quiet /\ \A t \in Syncers : spc[t] = "idle"
      BY <1>4, <2>2, <3>1 DEF SomeoneAlone
    <3>3. \A p \in Slots : "idle" \in StepsOf(call[p].kind)
      BY <3>2 DEF Quiet, SyncInv, TypeInv, TypeOK
    <3>4. \A p \in Slots : call[p].kind \notin DecisionKinds
      BY <3>3, StepKinds DEF DecisionKinds
    <3>5. QED
      BY <1>2, <1>6, <3>2, <3>4
  <2>3. QED
    BY <2>1, <2>2
<1>8. ASSUME NEW t \in Syncers, t # s PROVE DoneOf(t)'
  <2>1. CASE ~ Runs(t)
    BY <1>4, <1>8, <2>1 DEF DoneOf, Runs
  <2>2. CASE Runs(t)
    <3>1. spc[t] # "idle" /\ job[t].id \in SyncIds /\ job[t].id # j.id
      BY <1>3, <2>2, BatchKnown DEF Runs, BatchInv
    <3>2. Batch(t)' = Batch(t)
      BY <1>1, <1>3, <1>4, <1>8, <3>1 DEF Batch, BatchInv
    <3>3. DoneOf(t)
      BY DEF ConvInv
    <3>4. \A lt : (StillToDo(t, lt)' <=> StillToDo(t, lt)) /\ (Agrees(lt)' <=> Agrees(lt))
      BY <1>2, <1>4, <1>8 DEF StillToDo, Agrees
    <3>5. (Runs(t)' <=> Runs(t)) /\ (alone'[t] <=> alone[t])
      BY <1>4, <1>8 DEF Runs
    <3>6. \A i : Agrees(Batch(t).employees[i])' <=> Agrees(Batch(t).employees[i])
      BY <1>2, <3>2 DEF Agrees
    <3>7. QED
      BY <3>2, <3>3, <3>4, <3>5, <3>6 DEF DoneOf
  <2>3. QED
    BY <2>1, <2>2
<1>9. DoneOf(s)'
  <2>1. CASE j.kind # "batch"
    BY <1>4, <2>1 DEF DoneOf, Runs
  <2>2. CASE j.kind = "batch"
    <3>1. Batch(s)' = Session("IN_PROGRESS", j.todo)
      BY <1>1, <1>3, <1>4, <2>2 DEF Batch, BatchInv
    <3>2. Batch(s)'.employees = j.todo
      BY <3>1 DEF Session
    <3>3. \A i \in DOMAIN j.todo : StillToDo(s, j.todo[i])'
      BY <1>4 DEF StillToDo
    <3>4. \A i \in DOMAIN Batch(s)'.employees : StillToDo(s, Batch(s).employees[i])'
      BY <3>2, <3>3 DEF StillToDo
    <3>5. QED
      BY <3>4 DEF DoneOf
  <2>3. QED
    BY <2>1, <2>2
<1>10. (\A lt \in LeaveTypes : balance[lt] = NoRow => hcm[lt] = HcmBalance[lt])'
  BY <1>2 DEF ConvInv
<1>11. \A t \in Syncers : DoneOf(t)'
  BY <1>8, <1>9
<1>12. QED
  BY <1>4, <1>7, <1>10, <1>11 DEF ConvInv

\* The handlers' steps: while an undisturbed sync runs, none is a decision's.
LEMMA HandlerStepConv ==
    ASSUME SyncInv, BatchInv, ConvInv, NEW p \in Slots,
           StartGet(p) \/ StartCreate(p) \/ Step(p) \/ Fault(p), UNCHANGED syncVars
    PROVE  ConvInv'
<1>t. TypeInv
  BY DEF SyncInv
<1>1. UNCHANGED <<hcm, spc, job, answer, session, alone>>
  BY DEF syncVars, syncRegs
<1>2. \A q \in Slots : call'[q].kind \in DecisionKinds => call[q].kind \in DecisionKinds
  BY <1>t, StepCalls
<1>3. /\ \A lt \in LeaveTypes : balance[lt] # NoRow => balance'[lt] # NoRow
      /\ call[p].kind \notin DecisionKinds => KeepsRows
  <2>1. CASE Step(p)
    BY <1>t, <2>1, StepRows
  <2>2. CASE StartGet(p) \/ StartCreate(p) \/ Fault(p)
    <3>1. UNCHANGED balance
      BY <2>2 DEF StartGet, StartCreate, Begin, Fault, tables
    <3>2. QED
      BY <3>1 DEF KeepsRows
  <2>3. QED
    BY <2>1, <2>2
<1>4. CASE SomeoneAlone
  <2>1. KeepsRows
    BY <1>3, <1>4 DEF ConvInv
  <2>2. QED
    BY <1>1, <1>2, <2>1, HandlersConv
<1>5. CASE ~SomeoneAlone
  <2>1. ~SomeoneAlone' /\ (alone \in [Syncers -> BOOLEAN])'
    BY <1>1, <1>5 DEF SomeoneAlone, ConvInv
  <2>2. \A lt \in LeaveTypes : balance'[lt] = NoRow => hcm'[lt] = HcmBalance[lt]
    BY <1>1, <1>3 DEF ConvInv
  <2>3. QED
    BY <2>1, <2>2, NobodyAlone
<1>6. QED
  BY <1>4, <1>5

\* A change of the HCM, a decision and a restart leave nobody undisturbed; every
\* other step keeps what undisturbed syncs rely on.
LEMMA NextConv ==
    ASSUME SyncInv, BatchInv, ConvInv, [SyncNext]_<<vars, syncVars>> PROVE ConvInv'
<1>1. ASSUME NEW s \in Syncers, StartSync(s) \/ SyncStep(s) PROVE ConvInv'
  BY <1>1, StartConv, StepConv
<1>2. ASSUME NEW s \in Syncers, SyncFault(s) PROVE ConvInv'
  <2>1. /\ spc[s] \notin {"idle", "record"} /\ EmployeeFailed(s)
        /\ UNCHANGED <<hcm, alone, call, balance>>
    BY <1>2 DEF SyncFault, SyncDbSteps, tables, regs
  <2>2. QED
    BY <2>1, FailsConv
<1>3. ASSUME NEW lt \in LeaveTypes, HcmChange(lt) PROVE ConvInv'
  <2>1. UNCHANGED balance /\ alone' = [s \in Syncers |-> FALSE] /\ balance[lt] # NoRow
    BY <1>3 DEF HcmChange, vars, tables
  <2>2. \A k \in LeaveTypes : k # lt => hcm'[k] = hcm[k]
    BY <1>3 DEF HcmChange, SyncInv
  <2>3. \A k \in LeaveTypes : balance'[k] = NoRow => hcm'[k] = HcmBalance[k]
    BY <2>1, <2>2 DEF ConvInv
  <2>4. (alone \in [Syncers -> BOOLEAN])' /\ ~SomeoneAlone'
    BY <2>1 DEF SomeoneAlone
  <2>5. QED
    BY <2>3, <2>4, NobodyAlone
<1>4. ASSUME NEW p \in Slots, StartDecision(p), alone' = [s \in Syncers |-> FALSE],
             UNCHANGED hcm
      PROVE  ConvInv'
  <2>1. UNCHANGED balance
    BY <1>4 DEF StartDecision, Begin, tables
  <2>2. (alone \in [Syncers -> BOOLEAN])' /\ ~SomeoneAlone'
    BY <1>4 DEF SomeoneAlone
  <2>3. \A lt \in LeaveTypes : balance'[lt] = NoRow => hcm'[lt] = HcmBalance[lt]
    BY <1>4, <2>1 DEF ConvInv
  <2>4. QED
    BY <2>2, <2>3, NobodyAlone
<1>5. ASSUME NEW p \in Slots, StartGet(p) \/ StartCreate(p) \/ Step(p) \/ Fault(p),
             UNCHANGED syncVars
      PROVE  ConvInv'
  BY <1>5, HandlerStepConv
<1>6. ASSUME UNCHANGED <<balance, call, syncVars>> PROVE ConvInv'
  <2>1. KeepsRows /\ UNCHANGED <<hcm, spc, job, answer, session, alone>>
    BY <1>6 DEF KeepsRows, syncVars, syncRegs
  <2>2. \A q \in Slots : call'[q].kind \in DecisionKinds => call[q].kind \in DecisionKinds
    BY <1>6
  <2>3. QED
    BY <2>1, <2>2, HandlersConv
<1>7. ASSUME NEW lt \in LeaveTypes, Expire(lt), UNCHANGED syncVars PROVE ConvInv'
  BY <1>6, <1>7 DEF Expire, tables, regs
<1>8. CASE UNCHANGED <<vars, syncVars>>
  BY <1>6, <1>8 DEF vars, tables, regs
<1>9. CASE SyncCrash
  <2>1. UNCHANGED <<balance, hcm, alone>> /\ \A s \in Syncers : spc'[s] = "idle"
    BY <1>9 DEF SyncCrash, Crash, tables
  <2>2. (alone \in [Syncers -> BOOLEAN])' /\ ~SomeoneAlone'
    BY <2>1 DEF SomeoneAlone, ConvInv
  <2>3. \A lt \in LeaveTypes : balance'[lt] = NoRow => hcm'[lt] = HcmBalance[lt]
    BY <2>1 DEF ConvInv
  <2>4. QED
    BY <2>2, <2>3, NobodyAlone
<1>10. QED
  BY <1>1, <1>2, <1>3, <1>4, <1>5, <1>7, <1>8, <1>9 DEF SyncNext

\* At first nothing is busy and the HCM has the numbers a hydration stores.
LEMMA InitConv == SyncInit => ConvInv
BY DEF SyncInit, ConvInv, SomeoneAlone, DoneOf, Runs

\* A sync that no decision, no change of the HCM and no failure disturbed leaves
\* the HCM's numbers in the rows of all its employees, whatever other syncs,
\* hydrations and expired cache entries do meanwhile.
THEOREM SyncLeavesHcmNumbers == SyncSpec => []SyncConverges
<1>1. SyncInv /\ BatchInv /\ ConvInv /\ [SyncNext]_<<vars, syncVars>> => ConvInv'
  BY NextConv
<1>2. SyncInv /\ ConvInv => SyncConverges
  <2> SUFFICES ASSUME SyncInv, ConvInv, NEW s \in Syncers, Undisturbed(s),
                      NEW i \in DOMAIN Batch(s).employees
               PROVE  Agrees(Batch(s).employees[i])
    BY DEF SyncConverges, Agrees
  <2>1. alone[s] /\ spc[s] = "record" /\ Batch(s).failed = 0
    BY DEF Undisturbed
  <2>2. Runs(s)
    BY <2>1 DEF Runs, SyncInv, SyncerOK
  <2>3. DoneOf(s)
    BY DEF ConvInv
  <2>4. QED
    BY <2>1, <2>2, <2>3 DEF DoneOf, StillToDo
<1>3. QED
  BY <1>1, <1>2, InitConv, SyncInvariant, PTL DEF SyncSpec

=============================================================================
