------------------------------ MODULE BalanceSync ------------------------------
(***************************************************************************)
(* SyncService with DriftDetectionService and ConflictResolutionService,     *)
(* beside the request handlers of TimeOffRequests: they share the balances   *)
(* table and BalanceCacheService, and nothing orders one after the other.    *)
(*                                                                         *)
(* A sync walks over its employees one by one; here an employee of a batch   *)
(* is a leave type.  Each await is a step, as in TimeOffRequests.            *)
(***************************************************************************)
EXTENDS TimeOffRequests, Sequences

CONSTANTS
    Syncers,            \* sync calls that can be in flight at once
    Batches,            \* lists of employees batchSyncBalances is called with
    HcmNumbers,         \* numbers the HCM may change a balance to
    MaxSyncs,           \* bound: syncs a behaviour starts
    MaxHcmChanges       \* bound: changes made in the HCM

ASSUME BatchesAssumption == Batches \subseteq (Seq(LeaveTypes) \ {<<>>})
ASSUME HcmNumbersAssumption == HcmNumbers \subseteq [available : Nat, used : Nat]
ASSUME SyncBoundsAssumption == MaxSyncs \in Nat /\ MaxHcmChanges \in Nat

VARIABLES
    hcm,        \* leave type -> the HCM's numbers
    spc,        \* syncer -> the step it is about to take
    job,        \* syncer -> [kind, todo]: the employees still to do
    answer,     \* syncer -> the HCM numbers it holds
    held,       \* syncer -> the Balance entity it holds
    session,    \* sync ID -> its batch: SyncSession and SyncResultDto
    syncs,      \* syncs started so far
    changes,    \* HCM changes so far
    written,    \* history: sync ID -> [drifts, rows] its batch wrote
    alone       \* history: no decision and no HCM change touched it

syncRegs == <<spc, job, answer, held, session, written>>
syncVars == <<hcm, syncRegs, syncs, changes, alone>>

-----------------------------------------------------------------------------
\* batchSyncBalances and the detect-drift endpoint are called with a list,
\* realTimeSyncBalance with one employee; the latter two keep no session.
Jobs == [kind : {"batch", "detect"}, id : {syncs + 1}, todo : Batches]
            \cup [kind : {"realtime"}, id : {syncs + 1}, todo : {<<lt>> : lt \in LeaveTypes}]

NoJob == [kind |-> "none", id |-> 0, todo |-> <<>>]

SyncIds == 1..MaxSyncs

Session(state, todo) == [status |-> state, employees |-> todo, progress |-> 0,
                         synced |-> 0, drifted |-> 0, failed |-> 0]
NoSession == Session("none", <<>>)

NothingWritten == [drifts |-> 0, rows |-> 0]

SyncInit ==
    /\ Init
    /\ hcm = HcmBalance
    /\ spc = [s \in Syncers |-> "idle"]
    /\ job = [s \in Syncers |-> NoJob]
    /\ answer = [s \in Syncers |-> NoRow]
    /\ held = [s \in Syncers |-> NoRow]
    /\ session = [i \in SyncIds |-> NoSession]
    /\ syncs = 0 /\ changes = 0
    /\ written = [i \in SyncIds |-> NothingWritten]
    /\ alone = [s \in Syncers |-> FALSE]

-----------------------------------------------------------------------------
(* Control of one sync.                                                      *)

Employee(s) == Head(job[s].todo)
Batch(s) == session[job[s].id]

SyncGoto(s, step) == spc' = [spc EXCEPT ![s] = step]

StartSync(s) ==
    /\ spc[s] = "idle"
    /\ syncs < MaxSyncs
    /\ syncs' = syncs + 1
    /\ SyncGoto(s, "askHcm")
    /\ \E j \in Jobs :
          /\ job' = [job EXCEPT ![s] = j]
          /\ session' = [session EXCEPT ![j.id] =
                IF j.kind = "batch" THEN Session("IN_PROGRESS", j.todo) ELSE @]
    /\ alone' = [alone EXCEPT ![s] =
                    Quiet /\ \A t \in Syncers : spc[t] # "idle" => alone[t]]
    /\ UNCHANGED <<vars, hcm, answer, held, changes, written>>

\* The call returns or throws; the session of a batch stays.
SyncFinish(s) ==
    /\ SyncGoto(s, "idle")
    /\ job' = [job EXCEPT ![s] = NoJob]
    /\ answer' = [answer EXCEPT ![s] = NoRow]
    /\ held' = [held EXCEPT ![s] = NoRow]

\* Mutant: every turn marks the session as completed.
NextEmployeeCompletes(s, tally) ==
    /\ session' = [session EXCEPT ![job[s].id] =
          [tally EXCEPT !.progress = @ + 1, !.status = "COMPLETED"]]
    /\ IF Len(job[s].todo) = 1 THEN SyncGoto(s, "record") /\ UNCHANGED <<job, answer, held>>
       ELSE /\ SyncGoto(s, "askHcm")
            /\ job' = [job EXCEPT ![s].todo = Tail(@)]
            /\ answer' = [answer EXCEPT ![s] = NoRow]
            /\ held' = [held EXCEPT ![s] = NoRow]

\* One turn of the batch's loop ends: progress, and the session's end after
\* the last employee.  tally is the session with this employee counted.
NextEmployee(s, tally) ==
    LET last == Len(job[s].todo) = 1
    IN  /\ session' = [session EXCEPT ![job[s].id] =
              [tally EXCEPT !.progress = @ + 1,
                            !.status = IF last THEN "COMPLETED" ELSE @]]
        /\ IF last THEN SyncGoto(s, "record") /\ UNCHANGED <<job, answer, held>>
           ELSE /\ SyncGoto(s, "askHcm")
                /\ job' = [job EXCEPT ![s].todo = Tail(@)]
                /\ answer' = [answer EXCEPT ![s] = NoRow]
                /\ held' = [held EXCEPT ![s] = NoRow]

\* The catch of the loop's body; realTimeSyncBalance and detectDrift rethrow.
EmployeeFailed(s) ==
    IF job[s].kind = "batch"
    THEN NextEmployee(s, [Batch(s) EXCEPT !.failed = @ + 1])
    ELSE SyncFinish(s) /\ UNCHANGED session

-----------------------------------------------------------------------------
(* hcmClient.getBalance, then balancesService.getBalance.                    *)

AskHcm(s) ==
    /\ spc[s] = "askHcm"
    /\ answer' = [answer EXCEPT ![s] = hcm[Employee(s)]]
    /\ SyncGoto(s, "lookup")
    /\ UNCHANGED <<vars, hcm, job, held, session, syncs, changes, written, alone>>

\* detectDrift compares what getBalance returned with the HCM's answer, by
\* available_balance alone.
Compare(s, local) ==
    IF job[s].kind = "detect"
    THEN SyncFinish(s) /\ UNCHANGED session
    ELSE /\ held' = [held EXCEPT ![s] = local]
         /\ SyncGoto(s, IF local.available # answer[s].available THEN "saveDrift"
                                                                 ELSE "reconRead")
         /\ UNCHANGED <<job, answer, session>>

SyncLookup(s) ==
    /\ spc[s] = "lookup"
    /\ \/ /\ cache[Employee(s)] # NoRow
          /\ Compare(s, cache[Employee(s)])
       \/ /\ cache[Employee(s)] = NoRow
          /\ SyncGoto(s, "balRead")
          /\ UNCHANGED <<job, answer, held, session>>
    /\ UNCHANGED <<vars, hcm, syncs, changes, written, alone>>

\* Mutant: the missing row is not noticed.
SyncBalReadUnchecked(s) ==
    /\ spc[s] = "balRead"
    /\ held' = [held EXCEPT ![s] = balance[Employee(s)]]
    /\ SyncGoto(s, "fill")
    /\ UNCHANGED <<vars, hcm, job, answer, session, syncs, changes, written, alone>>

SyncBalRead(s) ==
    /\ spc[s] = "balRead"
    /\ held' = [held EXCEPT ![s] = balance[Employee(s)]]
    /\ SyncGoto(s, IF balance[Employee(s)] = NoRow THEN "hydrate" ELSE "fill")
    /\ UNCHANGED <<vars, hcm, job, answer, session, syncs, changes, written, alone>>

\* A second call to the HCM; its numbers change only once there is a row.
SyncHydrate(s) ==
    /\ spc[s] = "hydrate"
    /\ SyncGoto(s, "insert")
    /\ UNCHANGED <<vars, hcm, job, answer, held, session, syncs, changes, written, alone>>

\* Mutant: a refused INSERT is tried again.
SyncInsertAgain(s) ==
    LET lt == Employee(s)
    IN  /\ spc[s] = "insert"
        /\ \/ /\ balance[lt] = NoRow
              /\ balance' = [balance EXCEPT ![lt] = Hydrated(lt)]
              /\ held' = [held EXCEPT ![s] = Hydrated(lt)]
              /\ SyncGoto(s, "fill")
              /\ UNCHANGED <<job, answer, session>>
           \/ /\ balance[lt] # NoRow
              /\ SyncGoto(s, "hydrate")
              /\ UNCHANGED <<balance, job, answer, held, session>>
        /\ UNCHANGED <<reqs, audit, cache, pc, regs, budget, history,
                       hcm, syncs, changes, written, alone>>

SyncInsert(s) ==
    LET lt == Employee(s)
    IN  /\ spc[s] = "insert"
        /\ \/ /\ balance[lt] = NoRow
              /\ balance' = [balance EXCEPT ![lt] = Hydrated(lt)]
              /\ held' = [held EXCEPT ![s] = Hydrated(lt)]
              /\ SyncGoto(s, "fill")
              /\ UNCHANGED <<job, answer, session>>
           \/ /\ balance[lt] # NoRow
              /\ EmployeeFailed(s)
              /\ UNCHANGED balance
        /\ UNCHANGED <<reqs, audit, cache, pc, regs, budget, history,
                       hcm, syncs, changes, written, alone>>

SyncFill(s) ==
    /\ spc[s] = "fill"
    /\ cache' = [cache EXCEPT ![Employee(s)] = held[s]]
    /\ Compare(s, held[s])
    /\ UNCHANGED <<tables, pc, regs, budget, history, hcm, syncs, changes, written, alone>>

-----------------------------------------------------------------------------
(* recordDrift and reconcileBalance.                                         *)

\* Inserts into balance_history and audit_logs; neither is read again.
SaveDrift(s) ==
    /\ spc[s] = "saveDrift"
    /\ written' = [written EXCEPT ![job[s].id].drifts =
                      IF job[s].kind = "batch" THEN @ + 1 ELSE @]
    /\ SyncGoto(s, "driftAudit")
    /\ UNCHANGED <<vars, hcm, job, answer, held, session, syncs, changes, alone>>

DriftAudit(s) ==
    /\ spc[s] = "driftAudit"
    /\ session' = [session EXCEPT ![job[s].id].drifted =
                      IF job[s].kind = "batch" THEN @ + 1 ELSE @]
    /\ SyncGoto(s, "reconRead")
    /\ UNCHANGED <<vars, hcm, job, answer, held, syncs, changes, written, alone>>

ReconRead(s) ==
    /\ spc[s] = "reconRead"
    /\ IF balance[Employee(s)] = NoRow THEN EmployeeFailed(s)
       ELSE /\ held' = [held EXCEPT ![s] = balance[Employee(s)]]
            /\ SyncGoto(s, "reconSave")
            /\ UNCHANGED <<job, answer, session>>
    /\ UNCHANGED <<vars, hcm, syncs, changes, written, alone>>

\* Mutant: used_balance is not taken over.
ReconciledAvailable(b, numbers) ==
    [b EXCEPT !.available = numbers.available, !.version = @ + 1]

\* Mutant: a row whose available_balance agrees is left alone.
ReconciledIfDrifted(b, numbers) ==
    IF b.available = numbers.available THEN b
    ELSE [available |-> numbers.available, used |-> numbers.used,
          version |-> b.version + 1]

Reconciled(b, numbers) ==
    [available |-> numbers.available, used |-> numbers.used, version |-> b.version + 1]

\* The whole entity is saved; the cache is left as it is.
ReconSave(s) ==
    /\ spc[s] = "reconSave"
    /\ balance' = [balance EXCEPT ![Employee(s)] = Reconciled(held[s], answer[s])]
    /\ written' = [written EXCEPT ![job[s].id].rows =
                      IF job[s].kind = "batch" THEN @ + 1 ELSE @]
    /\ SyncGoto(s, "reconAudit")
    /\ UNCHANGED <<reqs, audit, cache, pc, regs, budget, history,
                   hcm, job, answer, held, session, syncs, changes, alone>>

ReconAudit(s) ==
    /\ spc[s] = "reconAudit"
    /\ IF job[s].kind = "batch"
       THEN NextEmployee(s, [Batch(s) EXCEPT !.synced = @ + 1])
       ELSE SyncFinish(s) /\ UNCHANGED session
    /\ UNCHANGED <<vars, hcm, syncs, changes, written, alone>>

\* recordSyncEvent: best effort, so its failure changes nothing here.  Only now
\* does the batch call return.
RecordSync(s) ==
    /\ spc[s] = "record"
    /\ SyncFinish(s)
    /\ UNCHANGED <<vars, hcm, session, syncs, changes, written, alone>>

-----------------------------------------------------------------------------
(* The environment.                                                          *)

\* An anniversary bonus, time used outside the system, a new year.  A change
\* before hydration is a different HcmBalance.
HcmChange(lt) ==
    /\ balance[lt] # NoRow
    /\ changes < MaxHcmChanges
    /\ changes' = changes + 1
    /\ \E n \in HcmNumbers \ {hcm[lt]} : hcm' = [hcm EXCEPT ![lt] = n]
    /\ alone' = [s \in Syncers |-> FALSE]
    /\ UNCHANGED <<vars, syncRegs, syncs>>

SyncDbSteps == {"balRead", "insert", "saveDrift", "driftAudit",
                "reconRead", "reconSave", "reconAudit"}

\* Mutant: a failed employee counts as synced.
SyncFaultCountsSynced(s) ==
    /\ spc[s] \in SyncDbSteps \cup {"askHcm", "hydrate"}
    /\ faults < MaxFaults
    /\ faults' = faults + 1
    /\ IF job[s].kind = "batch"
       THEN NextEmployee(s, [Batch(s) EXCEPT !.synced = @ + 1])
       ELSE SyncFinish(s) /\ UNCHANGED session
    /\ UNCHANGED <<tables, cache, pc, regs, calls, history,
                   hcm, syncs, changes, written, alone>>

\* A query or an HCM call of this sync fails; what it wrote before stays.
SyncFault(s) ==
    /\ spc[s] \in SyncDbSteps \cup {"askHcm", "hydrate"}
    /\ faults < MaxFaults
    /\ faults' = faults + 1
    /\ EmployeeFailed(s)
    /\ UNCHANGED <<tables, cache, pc, regs, calls, history,
                   hcm, syncs, changes, written, alone>>

\* Sessions live in memory: getSyncStatus knows none after a restart.
SyncCrash ==
    /\ Crash
    /\ spc' = [s \in Syncers |-> "idle"]
    /\ job' = [s \in Syncers |-> NoJob]
    /\ answer' = [s \in Syncers |-> NoRow]
    /\ held' = [s \in Syncers |-> NoRow]
    /\ session' = [i \in SyncIds |-> NoSession]
    /\ written' = [i \in SyncIds |-> NothingWritten]
    /\ UNCHANGED <<hcm, syncs, changes, alone>>

-----------------------------------------------------------------------------
SyncStep(s) ==
    \/ AskHcm(s) \/ SyncLookup(s) \/ SyncBalRead(s)
    \/ SyncHydrate(s) \/ SyncInsert(s) \/ SyncFill(s)
    \/ SaveDrift(s) \/ DriftAudit(s)
    \/ ReconRead(s) \/ ReconSave(s) \/ ReconAudit(s)
    \/ RecordSync(s)

SyncNext ==
    \/ \E s \in Syncers : StartSync(s) \/ SyncStep(s) \/ SyncFault(s)
    \/ \E lt \in LeaveTypes : HcmChange(lt)
    \/ \E p \in Slots :
          /\ StartDecision(p)
          /\ alone' = [s \in Syncers |-> FALSE]
          /\ UNCHANGED <<hcm, syncRegs, syncs, changes>>
    \/ \E p \in Slots :
          /\ StartGet(p) \/ StartCreate(p) \/ Step(p) \/ Fault(p)
          /\ UNCHANGED syncVars
    \/ \E lt \in LeaveTypes : Expire(lt) /\ UNCHANGED syncVars
    \/ SyncCrash

SyncSpec == SyncInit /\ [][SyncNext]_<<vars, syncVars>>

\* A query answers or fails, the HCM client times out, and Node resumes the sync.
SyncFairSpec == SyncSpec /\ \A s \in Syncers : WF_<<vars, syncVars>>(SyncStep(s))

-----------------------------------------------------------------------------
(* Properties.                                                               *)

\* Type invariant: every variable has its shape, and the rows reconciliation
\* writes are rows the handlers may read.
SyncTypeOK ==
    /\ TypeOK
    /\ hcm \in [LeaveTypes -> [available : Nat, used : Nat]]
    /\ spc \in [Syncers -> SyncDbSteps \cup
                           {"idle", "askHcm", "lookup", "hydrate", "fill", "record"}]
    /\ \A s \in Syncers :
          /\ spc[s] # "idle" <=> job[s].todo # <<>>
          /\ spc[s] \notin {"idle", "askHcm", "record"} =>
              answer[s] \in [available : Nat, used : Nat]
          /\ spc[s] \in (SyncDbSteps \cup {"fill"}) \ {"balRead", "insert"} => held[s] \in Rows

\* What a batch reports is what it did, although any employee may fail at any
\* step and batches may overlap: every employee ends as synced or failed and none
\* as both, a synced one had its row written, a drifted one has its
\* balance_history row, and a session is IN_PROGRESS exactly while a batch runs.
BatchAccounted ==
    \A i \in SyncIds :
        LET x == session[i]
        IN  /\ x.progress = x.synced + x.failed
            /\ x.synced <= written[i].rows
            /\ x.drifted <= written[i].drifts
            /\ x.status = "IN_PROGRESS" => \E s \in Syncers :
                   /\ job[s].kind = "batch" /\ job[s].id = i
                   /\ x.progress + Len(job[s].todo) = Len(x.employees)
            /\ x.status = "COMPLETED" => x.progress = Len(x.employees)

\* A batch without failures that nothing but other syncs touched is at its end.
Undisturbed(s) == alone[s] /\ spc[s] = "record" /\ Batch(s).failed = 0

\* A sync without a decision or an HCM change beside it, or beside a sync it
\* overlaps, leaves the HCM's numbers in the rows, whether or not the cached
\* balance it compared was stale and whatever the other syncs overwrite.
SyncConverges ==
    \A s \in Syncers : Undisturbed(s) =>
        \A i \in DOMAIN Batch(s).employees :
            LET lt == Batch(s).employees[i]
            IN  /\ balance[lt].available = hcm[lt].available
                /\ balance[lt].used = hcm[lt].used

\* However reconciliations, deductions, refunds and refreshes overwrite one
\* another, a balance row never adds up to less than the HCM ever granted.
NoDaysLostToSync ==
    \A lt \in LeaveTypes : balance[lt] # NoRow =>
        \E n \in HcmNumbers \cup {HcmBalance[lt]} :
            balance[lt].available + balance[lt].used >= n.available + n.used

\* What getSyncStatus shows of a batch only moves forward, however batches and
\* their failures interleave: progress never falls, COMPLETED stays, until a
\* restart forgets the session.
StatusMovesForward ==
    [][\A i \in SyncIds : session'[i] # NoSession =>
          /\ session[i].progress <= session'[i].progress
          /\ session[i].status = "COMPLETED" => session'[i] = session[i]]_session

\* Every sync comes to its end: the loop goes on after whatever fails in it.
SyncsAnswered == \A s \in Syncers : spc[s] # "idle" ~> spc[s] = "idle"

(* A statement of the code's comments.                                       *)

\* batchSyncBalances "Updates local cache": when a batch ends without failures
\* and undisturbed, a cached balance is the one it wrote.
SyncUpdatesCache ==
    \A s \in Syncers : Undisturbed(s) =>
        \A i \in DOMAIN Batch(s).employees :
            LET lt == Batch(s).employees[i]
            IN  cache[lt] # NoRow => cache[lt].available = balance[lt].available

=============================================================================
