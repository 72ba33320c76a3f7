# Take-Off-System in TLA+

TLA+ models of the time-off service (`src/src`) and of the mock HCM it is
developed against (`src/mock-hcm`), the TLC runs that check them on small
instances, and TLAPS proofs of what holds for every value of the constants.
`PROJECT.json` lists the runs, the lines each definition translates, one mutant
per checked property, the hazards and the theorems.

Paths below are relative to the repository; `requests.service.ts:225` stands for
`src/src/modules/requests/requests.service.ts`, line 225, and so on.

## The system

A NestJS process serves REST calls, keeps its tables in SQLite through TypeORM
and asks a human-capital-management system (HCM) for balances over HTTP. One
Node process runs all handlers: code between two `await`s runs alone, and at
every `await` any other handler may run. That is the concurrency the models are
about. There is no transaction around more than one `save()` anywhere
(`RequestsRepository.runInTransaction` has no caller).

| Part | State it keeps | Operations | Meets other parts at |
|---|---|---|---|
| Request lifecycle (`TimeOffRequestService`) | `requests` table: status, `@VersionColumn` | create, approve (with a retry loop), reject, cancel, queries | balance rows, cache, audit trail |
| Balances (`BalancesService`) | `balances` table: available, used, version; UNIQUE per dimension and year, CHECK not negative | hydrate from the HCM, get, validate, refresh, deduct, refund | the cache; every request handler; the sync |
| Cache (`BalanceCacheService`) | map from employee:location:leaveType:year to the entity and its expiry | get, set, invalidate an employee's location | read by every balance check, by sync as the "local" balance |
| Audit trail (`AuditService`) | `audit_logs`, append-only | `logChange`, queries | one insert after every change, never in the same transaction |
| Circuit breaker | state, failure count, consecutive successes, time of last failure | `execute`, `reset` | read by the health check; `execute` has no caller in `src/src` |
| Retry (`HCMRetryService`) | none beyond its loop | `executeWithRetry` | the health check's pings |
| Health check | last success, last failure, failure reason | `checkHCMHealth`, `getLastHealthStatus` | breaker state read before its first await |
| Sync (`SyncService`, drift detection, conflict resolution) | sessions in memory; writes `balances`, `balance_history`, `audit_logs` | batch sync, real-time sync (no caller), drift detection | the rows and the cache of the request handlers |
| HCM client (`HCMClient`) | none beyond a call in flight | `getBalance`, `pingHealth`; three calls nobody makes | its timeout (5 s) against the mock's delay (6.5 s) |
| Mock HCM | behavior and its counters, balances, submitted requests | get balance, batch, submit, update-balance, set/reset behavior, reset-all | the client |
| Controllers | none | which service call an endpoint makes | every service above |
| DTOs, filters, configuration, route lab | none | routing, wording | not modelled, see below |

What is hard here, and so what the properties aim at: two handlers between one
another's awaits (a double approval, a lost balance update, a cached row older
than the table); the balance written before the request and no transaction
around the two; a crash between them; a retry that must not deduct twice; a
sync that overwrites a row with an answer it got several awaits earlier;
operations of the breaker that end in a state they did not begin in; delayed
calls of the mock that run after a reset; one balance that goes by several
spellings and years, which the cache, the lookup, the UNIQUE constraint and the
reconciliation each compare in their own way; numbers that are checked before
and stored after rounding. `hazards` in `PROJECT.json` lists them line by line.

## The modules

Each module looks at one side of the service and leaves the others' sides out;
what it leaves out is named in its header and under "What the models assume".

| Module | About |
|---|---|
| `TimeOffRequests` | the core: request handlers over the tables and the cache, every `await` a step |
| `LeaveLedger`, `RequestsImplementLedger` | the abstract specification of the core, and the refinement mapping to it |
| `BalanceSync` | the core with synchronization beside it, composed over the same variables |
| `BalanceIdentity` | one balance under several spellings and years; time and the cache's TTL |
| `BalanceDrift` | the numbers of one balance: rounding, and checks made before and after it |
| `CircuitBreaker`, `HcmHealth` | the breaker, and the health check over breaker and retry loop |
| `MockHcm` | the mock server |
| `HcmClient` | the HCM client's timeout and hydration's calls, one per spelling, composed with `MockHcm` |
| `MC*` | the constants of the runs |
| `TimeOffRequestsProofs`, `LedgerProofs`, `RequestsImplementLedgerProofs`, `BalanceSyncProofs`, `BalanceIdentityProofs`, `BalanceDriftProofs`, `HcmHealthProofs`, `HcmClientProofs` | the theorems, see below |

**`TimeOffRequests`.** A slot of `Slots` is an HTTP request being
served; `pc[p]` names the step its handler takes next, and a step is the code
from one `await` to the next, with every assignment in it. `row`, `seen` and
`attempt` are the handler's local variables: the Balance entity it read, the
version of the request entity it read, the retry counter. `reqs`, `balance` and
`audit` are the tables, `cache` is the cache's map. History variables: `taken` and
`refunded` count the deductions and refunds written for a request, `debited` and
`credited` add up the days written off and back on a leave type.

| Steps | Code |
|---|---|
| `DimRead`, `HcmAnswer`, `Insert` | `validateDimensions`, `hydrateBalanceFromHCM` |
| `Lookup`, `BalRead`, `Fill` | `getBalance`; `UseBalance` is what its caller does with the row |
| `CreateSave`, `AuditLog` | `createRequest`'s save, every `logChange` |
| `ReadReq` | the read and the status check of approve, reject and cancel |
| `RefreshRead`, `RefreshSave`, `RefreshFill` | `refreshBalance`, then `validateBalance` in the same turn |
| `DeductRead`, `DeductSave`, `DeductInvalidate` | `updateUsedBalance` |
| `RefundRead`, `RefundSave`, `RefundInvalidate` | `refundBalance` |
| `SaveReq` | `save(request)`; `VersionConflict` and `RetryOrGiveUp` are the catch of `approveRequest` |
| `Expire`, `Fault`, `Crash` | the cache's TTL, a failing query or HCM call, a restart |

**`LeaveLedger`** has requests and balances as a ledger in which a decision and
its days are one step, without handlers, cache or versions.
`RequestsImplementLedger` maps the core to it: a request counts as decided from
the balance write on.

**`BalanceSync`** extends `TimeOffRequests` with the sync calls, step by step
(`AskHcm` to `RecordSync`), and with HCM numbers that change. It shares the
variables `balance` and `cache` with the request handlers, whose actions are all
still there. Several syncs may be in flight; sessions are keyed by sync ID as in
the service's map, and a restart forgets them. A batch is a sequence of leave
types, one per employee entry. `written` is a history variable: the rows a batch
has written so far.

**`BalanceIdentity`** gives up versions and statuses' order (one decision per
request is served at a time) for what a balance is called. The table and the
cache are keyed by spelling and year; `Findable`, `Servable`, `Invalidated`,
`Reconcilable` and the UNIQUE check in `Insert` are the five comparisons the
code makes. Hydration tries the caller's spelling, then the lower-case one
(`TryNext`), and its catch does not tell a refused INSERT from an unknown
employee. A row holds a stamp instead of numbers; `endings` remembers when each
stamp was overwritten, so that the age of what a caller is told can be measured
against the TTL.

**`BalanceDrift`** keeps only amounts, in thousandths of a day. `Fixed` is
`toFixed(2)`. A sync simply takes the HCM's number over; when it does is
`BalanceSync`'s subject.

**`CircuitBreaker`** models `execute` as two actions, `Begin` (up to its await)
and `Succeed` or `Fail`, for several callers at once. **`HcmHealth`** extends it
with health checks that read the breaker, ping, sleep and retry.

**`MockHcm`** models the mock server. A call runs in one turn, except under
TIMEOUT, where it sleeps (`sleeping`) and `Land` runs it later. A batch answers
each dimension of its list on its own. `status` keeps the HTTP status as the
controllers map it, which is not always what the route's documentation lists.

**`HcmClient`** extends `MockHcm` with the operations of the service that wait
on it: a getBalance, a hydration of a lower-case employee ID, which makes one call,
and one of an ID with capitals, which makes up to two. `conn` is the connection an operation waits on: when the client gives up
(`GiveUp`) the server does not notice and the connection stays taken until its
sleep is over (`Wake`). The client's three calls without a caller are there as
what the mock answers them, a refusal (`CallUnserved`).

### What the models assume

- `save()` of one entity is one step. TypeORM first selects the row and then
  updates the columns that differ; the window between the two is left out, and
  since a column that differs is written, the whole entity is.
- Whether `save()` compares the version is the constant `SaveChecksVersion`.
  TRUE is the contract the comments state (`request.entity.ts:127-130`,
  `requests.repository.ts:64-67`, `requests.service.ts:24-29`): the update names
  the version and a mismatch throws. FALSE is an update by primary key. TypeORM
  itself is not part of the repository; its documentation has the version
  check only in reads with an optimistic lock. The runs of the request
  lifecycle use TRUE, so that what they find does not hang on this question.
  `AuditTruthful` and `RetryIsFutile` need it, and so does `Lifecycle` once
  decisions on a leave type overlap; what is proved with the constant left open
  holds either way.
- SQLite enforces UNIQUE and CHECK. In `TimeOffRequests` and `BalanceSync` there
  is one employee, location and year, in one spelling: dimensions differ by leave
  type only, which is also the extent of an invalidation. Days are whole numbers
  greater than zero (`days_requested > 0` is a CHECK of the table). Spellings and
  years are `BalanceIdentity`'s subject, fractions `BalanceDrift`'s.
- In `TimeOffRequests` an expired cache entry goes at any moment before the
  lookup that deletes it, which no lookup can tell apart. In `BalanceIdentity`
  it is deleted at that lookup, by the clock; time passes only while no call is
  in flight, since a call is short beside a TTL of 30 minutes.
- In `TimeOffRequests` the HCM's numbers stay as they are. In `BalanceSync` they
  change once a row exists: a change between a sync's own question and
  hydration's second one is left out.
- In `BalanceDrift` handlers run one at a time, the HCM always answers and
  used_balance is left out. At half a hundredth `toFixed` may go either way: the
  last bits of the doubles decide, so both are explored.
- A failed audit insert of a finished batch is swallowed, so it changes nothing.
  The session status FAILED is unreachable: the loop's catch swallows every
  error before the outer one sees it.
- The breaker's and the mock's counters are capped where more of them make no
  difference (`CountCap`, `FailureCap`; the drift counter is kept modulo 3), and
  time is a number of ticks up to `ResetTimeout` or `MaxTime`.
- In `HcmClient` a tick is 2.5 s: the client's 5 s are 2 ticks, the server's
  6.5 s are 3, rounded up. Ticks pass only while a call sleeps.
- In the mock, a request that was refused may be submitted again; one already
  recorded or asleep has its own UUID and is not.

## The runs

| Run | Question | Bounds, and why they are enough |
|---|---|---|
| `requests_race` | What survives any interleaving of two handlers, with a failure anywhere? | Two requests of 6 and 5 days against 10 available: each fits, both do not. Two handlers and four calls allow create, create and two racing decisions, or create, approve, cancel and a stale read; one fault or crash. A race takes two handlers; a conflict needs one loser. |
| `requests_one_decision` | With one decision at a time per leave type, is the service the ledger? | Three requests over two leave types, five calls, two handlers: creates, reads and the other type's decision interleave with the decision. No faults: a fault between the two writes leaves the ledger, which `doc_rollback` shows. |
| `sync` | Do a sync and the handlers beside it leave sound balances? | Two syncs of any kind in sequence, a batch that meets one balance twice, two calls, one HCM change, one fault or crash. |
| `sync_two` | Do overlapping syncs report what they did, settle on the HCM's numbers and end? | Two syncs at once, batch, real-time or detection, one HCM change, one fault or crash: the second sync can overtake the first between any two of its steps. No handler calls: those are in `sync`, and the theorems hold for both together. |
| `identity` | What does one balance under two names do to the cache, the table and the sync? | Two spellings of which the HCM knows the lower-case one (so that hydration's second try matters), two years, two calls at once, four in all, one fault or crash, a TTL of one tick and two ticks: an entry can be filled late, served at its very end and be found expired. |
| `drift` | How far can rounding and checks before rounding lead? | Two requests; balances with two and three decimals, a hundredth apart, far apart, below zero; requests of 1, 1.995 and 1.996 days, below, at and above a tie. |
| `health` | What do the breaker's fields and the health flags mean, and does everything recover? | Two callers (one begins, the other's late result arrives), two overlapping checks, threshold 2, one retry. `SuccessThreshold` is 1 as in the code. |
| `mock` | Does failure injection do what the tests rely on? | Two clients, one seeded and one unknown dimension, submissions that fit and do not fit, a batch with both, N of 3 and 5 as in the code. |
| `client` | What does the service make of the mock's behaviors? | Two operations and two connections: one operation can be starved by a connection the other abandoned. |

Deadlock checking is off where the bounds on calls make behaviours end; the
drift, health, mock and client runs check it.

The properties of the passing runs:

- `LedgerBacksStatus`: no status runs ahead of the balance. `DaysNeverDestroyed`:
  lost updates can give days back twice and never make days disappear, in the
  table, in the cache or in an entity some handler still holds. `DaysAccountedFor`:
  of racing deductions, refunds and refreshes one may be overwritten, and none
  ever counts twice, however entities read long before are written back.
- `Lifecycle` and `AuditTruthful`: with a version check in `save()`, only
  PENDING to APPROVED to CANCELLED or PENDING to REJECTED, and no audit record
  of a decision that was not taken.
- `RetryIsFutile`: whatever makes `approveRequest` retry also took the request
  out of PENDING, so the retry is always refused and the answer "modified
  concurrently" is unreachable. `CallsAnswered`: the loop ends.
- `DeductionCovered`, `StatusAudited` and `LedgerRefined` are checked as
  long as decisions do not overlap on a leave type. They state how far the
  service may be trusted; the violation runs show the step beyond.
- `NoDaysLostToSync`: no mix of reconciliations, deductions and refunds leaves a
  row below what the HCM granted at some time. `SyncConverges`: an undisturbed
  sync ends with the HCM's numbers although drift was judged on a stale cached
  row and other syncs wrote in between.
- `BatchAccounted`: synced, failed, drifted and progress agree with each other
  and with the rows written, wherever an employee's sync fails.
  `StatusMovesForward`: what `getSyncStatus` shows never goes back but for a
  restart. `SyncsAnswered`: every sync ends.
- `OneRowPerYear`: an employee's balance of one year is stored twice only where
  calls overlapped and the HCM answers to two spellings. Hydration's second
  candidate, refused INSERTs, failures and restarts make no second row.
  `StaleAtMostTtl`: nobody is told, and no request is judged on, numbers
  overwritten longer than a TTL ago, also when an entry was filled with a row
  read before a write.
  `WriterSeesItsWrite`: after calls that did not overlap, the spelling that wrote
  last reads its own write in every year. `RefusalsCurable`: a caller told
  "invalid dimension" though nothing failed only lost a race: there is a row now.
- `RoundingBounded`, `AcceptedFits`, `NeverOverdrawn`: roundings do not add up;
  what approval takes is what acceptance checked, within half a hundredth;
  and the CHECK constraint never has to refuse a validated approval.
- `FieldsAgree`, `CountsStreak`, `TripsOnStreak`, `FailsFast`, `Recovers`: the
  breaker, with operations that end late. `HealthTypeOK`: overlapping checks never
  ping more than the loop allows. `ChecksAnswered`: each of them ends.
  `OutageForgotten`: once the HCM stays up, the health endpoint comes to answer UP
  and nothing else and no failure reason stays on record, although checks begun
  during the outage overwrite what newer ones wrote and a breaker still open
  answers for the HCM.
- `FailsFirstN`: the first N calls after a behavior was set fail and none after
  them, whatever ran before. `RecordsCovered`: no request on record that the
  balance of that moment did not cover.
- `FailuresPaid`: operations that fail under a counting behavior have each used
  up their share of its failures, one per spelling they had to try: PARTIAL_FAILURE's
  three refuse three hydrations of a lower-case ID and one of an ID with capitals.
  `TimeoutsNeverAnswered`:
  an operation that lived under TIMEOUT throughout is never told a balance.

Three runs expect a violation: each states what a comment or the README says and
TLC shows what the code does.

| Run | Statement | What happens |
|---|---|---|
| `doc_version_column` | the version column alone makes approve and reject safe (`requests.repository.ts:82`) | two approvals both deduct before either saves; the loser's deduction stays |
| `doc_rollback` | on a failure the request stays PENDING with a rollback (`README.md:276`) | the request stays PENDING, its days stay written off |
| `doc_sync_cache` | a batch sync updates the cache (`sync.service.ts:52`) | the cache keeps the number from before |

### Fairness

`FairSpec` of `TimeOffRequests` has weak fairness of each handler's own steps: a
pending query or HCM call completes or fails (the HTTP client has a timeout, SQLite
a busy timeout), and Node resumes the handler then. `SyncFairSpec` has the same
for the steps of each sync. `Fault`, `SyncFault`, `Crash` and `Expire` are not
fair, nor are new calls. The breaker's fairness lets the clock tick, each
operation end, and each idle caller try again; `Recovers` needs the callers,
since nothing but a call takes the breaker out of OPEN, and asks for an HCM that
stays up. In `HcmHealth` each ping is answered or times out and each sleep ends,
and whoever watches the health endpoint keeps asking. The last is, like the
breaker's callers, about the environment: `OutageForgotten` needs it, since only a
check clears what a check left, and `ChecksAnswered` does not.
No action has strong fairness.

## The proofs

Every safety property a passing run checks is a theorem. The theorems of a module
are in a proof module of their own or in that of a module it is composed with:
the breaker's in `HcmHealthProofs`, the mock's in `HcmClientProofs`, those of the
version check in `TimeOffRequestsProofs`, those on days and on the ledger in
`LedgerProofs` and `RequestsImplementLedgerProofs`.

The request handlers:

| Theorem | Holds for | Argument |
|---|---|---|
| `RequestsTypeOK` | all constants, both save modes | inductive together with the parts of it that tie `pc` to the kind of call and the held row to the step; a step per action |
| `RequestsLedgerBacksStatus` | all constants, both save modes | strengthened by what each step knows: past the deduction, `taken` is positive; past the refund, `refunded` is; a cancellation past its read has a deduction behind it, because APPROVED does |
| `RequestsDaysAccountedFor` | all constants, both save modes | `AccountInv`: the bounds hold of every row in the table, the cache and a handler's hands, and survive any growth of `debited` and `credited` (lemma `Accrue`), so a row read long ago is still explained when it is written back; a deduction or refund moves the row it writes and the history variable by the same days |
| `RequestsDaysNeverDestroyed` | all constants, both save modes | the sum of a row only grows: deductions keep it, a refund cut at zero raises it, and every cached or held row is a copy of some row of the table (`DaysInv`, stated for any set of granted sums) |
| `RequestsLifecycle`, `RequestsAuditTruthful`, `RequestsRetryIsFutile` | `SaveChecksVersion`, and at least two retries for the last | the version determines the status: a handler at its save that still holds the current version read the status it moves from; an old version means somebody decided |
| `RequestsDeductionCovered`, `RequestsLifecycleOneDecision` | one decision per leave type at a time (`MaxDecisions <= 1`), any faults and crashes, both save modes | `DecisionInv`: from a decision's read of a row to its write the row is the one it holds, since creates and reads only ever insert a missing row; and the request it read is as it read it. So the lifecycle does not even need the version check then |
| `RequestsStatusAudited` | no faults, any racing decisions, both save modes | `LoggedInv`: a status is in the trail, or the handler that is to record it is at its audit insert |
| `RequestsRefineLedger` | `MaxDecisions <= 1`, no faults, both save modes | every step is a step of `LeaveLedger` or a stutter, case by case over the handlers' steps: the balance write is the ledger's Approve or Cancel, the request's save a stutter. Two facts carry it: `DecisionInv`, and `Backed` with `RowsEntitled`, the ledger's own invariant (below) and that what a cached or held row adds up to is the entitlement |
| `RequestsBooksBalance` | the same | the ledger's promise in the table: a row is the HCM's numbers less the days of the requests approved on it, exactly. `Total`, the days of a set of requests, is chosen among the functions that add them up; that there is one is proved by well-founded induction over the finite set `Requests` |

Synchronization beside the handlers:

| Theorem | Holds for | Argument |
|---|---|---|
| `SyncTypeCorrect`, `SyncKeepsDays` | any syncs, handlers, batches, HCM numbers, both save modes | `SyncInv`: `DaysInv` again, now with every number the HCM may take as a grant, and what a sync knows at each step, namely an answer the HCM gave and a whole row between its read and its `setInCache`. The handlers' part is the same lemma as above, since a handler's step of `BalanceSync` is a step of `TimeOffRequests` |
| `SyncCountsBatches`, `SyncMovesForward` | the same | `BatchInv`: every running sync has an ID of its own, so a step touches one session; a batch's session is IN_PROGRESS until its last turn, and between a write and its count the write is one ahead |
| `SyncLeavesHcmNumbers` | the same | `ConvInv`: each employee of a batch without failures agrees with the HCM or is still to do. It is kept only because, while one undisturbed sync runs, no decision is on its way and the answer of *every* sync is what the HCM still says. A sync that begins beside a read does not itself count as undisturbed, and what it writes is current all the same: the invariant must say so, and run `sync_two` alone, which has no handlers, would not have shown it |

One balance under many names:

| Theorem | Holds for | Argument |
|---|---|---|
| `IdentityTypeOK` | any spellings of one employee, years, calls, faults | a step is reduced to its effects (`Effects`: which row it saves, what it caches, what it tells and decides), and each invariant of the module is shown to survive any effects, so the steps are gone through once and not once per invariant |
| `IdentityStaleAtMostTtl` | the same | `FreshInv`: an entry ends at most a TTL after its numbers were current, because an entity in a handler's hands was current within the same tick (`HeldFresh`), also when the row was overwritten between its read and its `setInCache` |
| `IdentityOneRowPerYear` | the same | `AloneInv`: calls that do not overlap are alone, and a hydration that is alone found no row; `KnownInv`: whatever overlaps, the spelling stored is one the HCM answered to, and UNIQUE lets each be stored once a year |
| `IdentityWriterSeesItsWrite` | the same | `AloneInv` again: between a write and its invalidation the writer is still busy |
| `IdentityRefusalsCurable` | the same | `CurableInv`: as long as no row is stored nothing is cached and every call is early in its way, so a refusal for another reason than the HCM's met a row |

The HCM, its client and the numbers:

| Theorem | Holds for | Argument |
|---|---|---|
| `TypeCorrect`, `RoundingNeverAccumulates`, `AcceptedDaysFit`, `RowNeverNegative` of `BalanceDrift` | any amounts, any requests of at least half a day | `DriftInv`: stored days have two decimals; the row is exact, or was rounded once and has two decimals since, and rounding leaves those alone |
| `BreakerTypeOK`, `BreakerFieldsAgree`, `BreakerCountsStreak`, `BreakerTripsOnStreak`, `BreakerFailsFast` | any thresholds, timeout, number of callers | one invariant that ties the count to the state and to the history variables |
| `HealthImplementsBreaker` | any number of checks | every step of a check leaves the breaker's variables alone, so the theorems above carry over |
| `HealthTypeCorrect` | any number of checks, any `HcmMaxRetries` | only an attempt below the bound is retried |
| `MockTypeOK`, `MockFailsFirstN` | any clients, dimensions, submissions, limits | the history variables follow the counter: until a counting behavior lets a call pass, failures and counter are equal |
| `MockRecordsCovered` | the same | a submission is recorded in the turn that checked it, and update-balance and reset-all touch no record's cover |
| `ClientFailuresPaid` | any finite number of clients, any connections, limits and delays | `Paid`: failures told, plus hydrations of an ID with capitals that were refused once and ask again, are at most the failures the mock injected |
| `ClientTimeoutsNeverAnswered` | `HcmTimeout < ServerDelay`, as by default (5 s, 6.5 s) | `Patience`: the time an operation has waited and the time its call still sleeps add up to the server's delay. Hence the lemma `WakeFindsNobody`: when a delayed call ends, whoever made it has given up |

The proofs assume only the named assumptions of the modules, which TLC evaluates
for the runs' constants, and the hypotheses in the second column. The assumptions
say what the constants are (counts are naturals, days positive, the HCM's numbers
not negative, a table finite), and that the values that stand for "nothing" are no
rows, days or names. That all spellings in `BalanceIdentity` have one lower-case
form is its scope: it is about one employee. The hypotheses on `MaxDecisions` and
`MaxFaults` are not weakened by a stronger proof: `doc_version_column` and
`doc_rollback` show what happens without them.

Only model-checked: the liveness properties (`CallsAnswered`, `Recovers`,
`ChecksAnswered`, `OutageForgotten`, `SyncsAnswered`), which rest on fairness and are out of the
prover's reach.

## Seen while modelling, without a run of its own

About requests and balances:

- Two cancellations of one request both refund before either saves; under the
  version check the loser gets an error and its refund stays. It is the
  counterpart of `doc_version_column`.
- The balance's `version` "prevents lost updates" (`balance.entity.ts:99-100`) and
  is compared nowhere: `updateUsedBalance`, `refundBalance` and `refreshBalance`
  each save the entity they read (`balances.service.ts:296-300`, `:350-356`,
  `:398-404`), so once two decisions overlap, a write prepared from an older row
  overwrites a deduction and the days come back. The claim does not hold;
  `DaysAccountedFor` and `DaysNeverDestroyed` say what does.
- With an update by primary key instead of a version check
  (`request.entity.ts:127-130` says there is one), an approve and a reject that
  both read PENDING both succeed, and APPROVED goes to REJECTED.
- A row read before a write can be put into the cache after that write's
  invalidation, and then answers for up to 30 minutes.
- `refreshBalance` does not ask the HCM (`requests.service.ts:202` says it
  does), and an approval is never submitted to it (the data flow in the README
  says it is). A sync therefore brings approved days back.
- `balance_history`, "append-only log of all balance changes"
  (`balance-history.entity.ts:12`), gets no row from a deduction or a refund.
- Pessimistic locking, the fallback to cached data and the 409 answer for
  concurrent approvals, all in the README, are not in the code.

About names:

- Two first uses under 'EMP1' and 'emp1' find no row and, if the HCM answers to
  both as the mock does, insert one each; from then on `getOne()` may answer
  either. The same happens after one failed call for the caller's spelling while
  another call hydrates.
- Two first uses of one dimension hydrate it at once; the second INSERT is refused
  and its caller is told that the dimension is invalid (`balances.service.ts:66-71`).
- `invalidateCache` "to force refresh" (`balances.service.ts:358`) deletes keys in
  the caller's spelling: an entry under another spelling stays.
- `findByDimensions` has no condition on the year (`balances.repository.ts:28-32`):
  every year is answered with the row hydrated first.
- `reconcileBalance` looks the row up literally
  (`conflict-resolution.service.ts:46-52`) after `getBalance` found it in any
  spelling: a batch that spells it otherwise counts it as failed, its drift
  already recorded.

About synchronization:

- Drift is judged between the HCM's number and the cached balance, and then the
  row is overwritten whatever it holds: a row an earlier sync moved may go back by
  days without a record. A drift of one hundredth may be missed (10.01 - 10).
- `reconcileBalance`'s "optimistic lock check" (`conflict-resolution.service.ts:70`)
  is a plain save of an entity whose version the code itself raised.
- `triggerSync` answers 202 "accepted and queued" (`sync.controller.ts:40`) after
  the whole batch, so nobody who has its ID can find it IN_PROGRESS. The
  detect-drift endpoint looks at the first employee of its list only (`:100`).
- `SyncService.detectDrift` is documented to log, update and audit (`:285-287`)
  and compares only. `realTimeSyncBalance`, "called before approval", has no
  caller, and its HCM call no retries (`sync.service.ts:213` says it has).

About the HCM:

- Overlapping health checks write `lastFailedCheck`, `lastSuccessfulCheck` and
  `failureReason` in the order they end: a check begun before the HCM came back and
  given up after a newer one passed puts the failure back on record
  (`health-check.service.ts:73-87`). The next check clears the reason.
- `getLastHealthStatus` answers UP only while `lastFailedCheck` is null, and nothing
  clears it: one failed check makes every later answer DOWN
  (`health-check.service.ts:112`).
- The health check pings `/hcm/admin/health`, which answers whatever the balances
  endpoint does; its comment says "a simple balance query" (`:36`). The body is
  computed and not looked at.
- The retry delays are 500, 750 and 1125 ms where the comment and the README have
  500, 1500 and 5000.
- `CircuitBreakerService.execute` has no caller, so the breaker stays CLOSED in
  the running service; the model is of the component as its tests use it.
- The client posts batches to `/hcm/sync/balances` where the mock has
  `/hcm/balances/sync`, validates at a route the mock does not have, and submits
  without the `requestedDays` it insists on (`hcm-client.ts:100`, `:134`, `:176`).
- The mock answers its temporary failures with 400, which the retry loop takes for
  permanent. Its INVALID_DIMENSION and INSUFFICIENT_BALANCE fail every call, its
  controllers answer 400 or 500 where their routes document 404 and 403, a
  submission never lowers a balance, and update-balance keeps its change when
  reading it back fails.

## Not modelled

DTOs, filters, modules, bootstrap, Swagger and seed data: no state of their own.
Read-only queries (`getRequest`, `getRequestsByEmployee`, audit queries, the mock's
listings): they change nothing. Methods without a caller: `markStale`,
`isCacheStale`, `handleVersionConflict`, `recordDriftEvent`, `hasVersionConflict`,
`classifyDrift`, `invalidateAllEmployeeCache`, `clearAll`, the mock's
`approveRequest` and `rejectRequest`; where such a method changes state, its
component is listed as partly modelled. The growth of the cache and of the session map.
Backoff lengths. The route lab is a page for sending requests by hand.

## Plan

Done: the modules, the runs, and a theorem for each safety property of the runs.
What is left, in this order:

1. The bounded steps behind liveness, which can be proved without fairness: a sync's
   steps lower a measure (employees to do, then steps of a turn), and so do a
   handler's between two retries.
2. A refinement between components, `HcmClient` under the handlers of
   `TimeOffRequests`: that what `HcmAnswer` and `Fault` leave open is all that the
   client and the mock can do.
