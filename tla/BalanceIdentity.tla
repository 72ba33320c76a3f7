---------------------------- MODULE BalanceIdentity ----------------------------
(***************************************************************************)
(* One balance under the names it is asked for: several spellings of the     *)
(* employee and several years.  The cache and reconcileBalance take a name    *)
(* literally, findByDimensions ignores case and year, the UNIQUE constraint   *)
(* knows both, and hydration tries two spellings.                            *)
(*                                                                         *)
(* What a row holds is a stamp, one per write of new numbers.  The versions   *)
(* and statuses that order decisions are the subject of TimeOffRequests: here *)
(* one decision on a request is served at a time.                            *)
(***************************************************************************)
EXTENDS Integers, Sequences

CONSTANTS
    Spellings,          \* spellings of one employee ID: 'emp1', 'EMP1'
    LowerOf,            \* toLowerCase() on them
    Years,              \* years balances are asked for
    ThisYear,           \* new Date().getFullYear()
    HcmKnows,           \* spellings the HCM has a balance under
    Requests,           \* rows of the requests table
    SpellingOf,         \* request -> employee_id as its client spelled it
    Slots,              \* calls that can be in flight at once
    Ttl,                \* ticks a cache entry lives: 30 minutes
    MaxTime,            \* bound: ticks
    MaxCalls,           \* bound: calls a behaviour starts
    MaxFaults,          \* bound: failing queries and HCM calls, and crashes
    Nothing             \* no row, no entry, no entity, no name

Names == Spellings \X Years

ASSUME SpellingsAssumption ==
    /\ LowerOf \in [Spellings -> Spellings]
    /\ \A s, t \in Spellings : LowerOf[s] = LowerOf[t]
    /\ \A s \in Spellings : LowerOf[LowerOf[s]] = LowerOf[s]
    /\ HcmKnows \subseteq Spellings
    /\ SpellingOf \in [Requests -> Spellings]
ASSUME YearsAssumption == ThisYear \in Years
ASSUME TimeAssumption == Ttl \in Nat \ {0} /\ MaxTime \in Nat
ASSUME BoundsAssumption == MaxCalls \in Nat /\ MaxFaults \in Nat
ASSUME NothingAssumption ==
    /\ Nothing \notin Names \cup Spellings
    /\ Nothing \notin Int
    /\ Nothing \notin [row : Names, stamp : Int]

VARIABLES
    table,      \* balances: (employee_id, balance_year) -> stamp
    cache,      \* cache: (employeeId, year) -> [entity, expires]
    status,     \* request -> its status
    pc,         \* slot -> the step its handler is about to take
    call,       \* slot -> [kind, name, req]
    trying,     \* slot -> the spelling hydration asks the HCM for
    entity,     \* slot -> [row, stamp]: the Balance entity it holds
    now,        \* the clock
    calls,      \* calls started so far
    faults,     \* failures and crashes so far
    endings,    \* history: stamp -> when its numbers were overwritten, or Nothing
    told,       \* history: slot -> [answer, row, age] its latest call was told
    writer,     \* history: spelling of the latest deduction or refund
    overlapped  \* history: a call began while another was in flight

db   == <<table, status>>
regs == <<pc, call, trying, entity, told>>
hist == <<endings, writer, overlapped>>
vars == <<db, cache, regs, now, calls, faults, hist>>

Kinds == {"get", "create", "approve", "cancel", "sync"}
NoCall == [kind |-> "none", name |-> Nothing, req |-> Nothing]
ToldNothing == [answer |-> "none", row |-> Nothing, age |-> 0]

Init ==
    /\ table = [n \in Names |-> Nothing]
    /\ cache = [n \in Names |-> Nothing]
    /\ status = [r \in Requests |-> "NONE"]
    /\ pc = [p \in Slots |-> "idle"]
    /\ call = [p \in Slots |-> NoCall]
    /\ trying = [p \in Slots |-> Nothing]
    /\ entity = [p \in Slots |-> Nothing]
    /\ now = 0 /\ calls = 0 /\ faults = 0
    /\ endings = <<>>
    /\ told = [p \in Slots |-> ToldNothing]
    /\ writer = Nothing
    /\ overlapped = FALSE

-----------------------------------------------------------------------------
(* Control of one handler.                                                   *)

Name(p) == call[p].name
Spelling(p) == Name(p)[1]

Goto(p, step) == pc' = [pc EXCEPT ![p] = step]
Hold(p, e) == entity' = [entity EXCEPT ![p] = e]

\* The handler returns or throws.
End(p, t) ==
    /\ Goto(p, "idle")
    /\ call' = [call EXCEPT ![p] = NoCall]
    /\ trying' = [trying EXCEPT ![p] = Nothing]
    /\ Hold(p, Nothing)
    /\ told' = [told EXCEPT ![p] = t]

Finish(p, answer) == End(p, [told[p] EXCEPT !.answer = answer])

Begin(p, c, step) ==
    /\ pc[p] = "idle"
    /\ calls < MaxCalls
    /\ calls' = calls + 1
    /\ Goto(p, step)
    /\ call' = [call EXCEPT ![p] = c]
    /\ told' = [told EXCEPT ![p] = ToldNothing]
    /\ overlapped' = (overlapped \/ \E q \in Slots : pc[q] # "idle")
    /\ UNCHANGED <<db, cache, trying, entity, now, faults, endings, writer>>

\* Whoever reads a balance picks the year, everybody else means this one.
StartGet(p) ==
    \E n \in Names : Begin(p, [kind |-> "get", name |-> n, req |-> Nothing], "lookup")

StartSync(p) ==
    \E s \in Spellings :
        Begin(p, [kind |-> "sync", name |-> <<s, ThisYear>>, req |-> Nothing], "askSync")

StartRequest(p, kind, from, step) ==
    \E r \in Requests :
        /\ status[r] = from
        /\ \A q \in Slots : call[q].req # r
        /\ Begin(p, [kind |-> kind, name |-> <<SpellingOf[r], ThisYear>>, req |-> r], step)

StartCreate(p)  == StartRequest(p, "create", "NONE", "dimRead")
StartApprove(p) == StartRequest(p, "approve", "PENDING", "refreshRead")
StartCancel(p)  == StartRequest(p, "cancel", "APPROVED", "moveRead")

-----------------------------------------------------------------------------
(* The repository.                                                           *)

Stored == {n \in Names : table[n] # Nothing}

\* LOWER(employee_id) = LOWER(:employeeId), no condition on the year.
Findable(s) == {n \in Stored : LowerOf[n[1]] = LowerOf[s]}

Entity(n) == [row |-> n, stamp |-> table[n]]

\* Mutant: nobody looks whether there was a row.
FindByDimensionsUnchecked(p, next, ifNone) ==
    /\ IF Findable(Spelling(p)) = {} THEN Hold(p, Nothing)
       ELSE \E n \in Findable(Spelling(p)) : Hold(p, Entity(n))
    /\ Goto(p, next)
    /\ UNCHANGED <<call, trying, told>>

\* getOne(): any matching row.  None: ifNone, which sets every register.
FindByDimensions(p, next, ifNone) ==
    \/ \E n \in Findable(Spelling(p)) :
          /\ Hold(p, Entity(n))
          /\ Goto(p, next)
          /\ UNCHANGED <<call, trying, told>>
    \/ Findable(Spelling(p)) = {} /\ ifNone

\* A write of numbers nobody wrote before.
NewStamp == Len(endings) + 1

\* A row goes from one stamp to another: the first one's numbers end now, the
\* second one's are current.
Overwritten(old, new) ==
    [i \in 1..(IF new > Len(endings) THEN new ELSE Len(endings)) |->
        IF i = new THEN Nothing ELSE IF i = old THEN now ELSE endings[i]]

Save(n, stamp) ==
    /\ table' = [table EXCEPT ![n] = stamp]
    /\ endings' = Overwritten(table[n], stamp)

-----------------------------------------------------------------------------
(* hydrateBalanceFromHCM.                                                    *)

\* Mutant: only the spelling of the caller is tried.
TryNextNever(p) ==
    Finish(p, IF call[p].kind = "create" THEN "invalidDimension" ELSE "notFound")

\* The catch of its loop: the lower-case spelling comes second, then null.
TryNext(p) ==
    IF trying[p] # LowerOf[trying[p]]
    THEN /\ trying' = [trying EXCEPT ![p] = LowerOf[@]]
         /\ Goto(p, "askHcm")
         /\ UNCHANGED <<call, entity, told>>
    ELSE Finish(p, IF call[p].kind = "create" THEN "invalidDimension" ELSE "notFound")

Hydrate(p) ==
    /\ trying' = [trying EXCEPT ![p] = Spelling(p)]
    /\ Goto(p, "askHcm")
    /\ UNCHANGED <<call, entity, told>>

AskHcm(p) ==
    /\ pc[p] = "askHcm"
    /\ IF trying[p] \in HcmKnows
       THEN Goto(p, "insert") /\ UNCHANGED <<call, trying, entity, told>>
       ELSE TryNext(p)
    /\ UNCHANGED <<db, cache, now, calls, faults, hist>>

\* Mutant: the row is stored under the caller's spelling, not the one that was
\* asked for.
InsertCallersName(p) ==
    /\ pc[p] = "insert"
    /\ \/ /\ table[Name(p)] = Nothing
          /\ Save(Name(p), NewStamp)
          /\ Hold(p, [row |-> Name(p), stamp |-> NewStamp])
          /\ Goto(p, IF call[p].kind = "create" THEN "lookup" ELSE "fill")
          /\ UNCHANGED <<call, trying, told>>
       \/ /\ table[Name(p)] # Nothing
          /\ TryNext(p)
          /\ UNCHANGED <<table, endings>>
    /\ UNCHANGED <<status, cache, now, calls, faults, writer, overlapped>>

\* UNIQUE (employee_id, ..., balance_year) compares literally.  The catch takes
\* its refusal for an HCM that does not know the spelling.
Insert(p) ==
    LET n == <<trying[p], Name(p)[2]>>
    IN  /\ pc[p] = "insert"
        /\ \/ /\ table[n] = Nothing
              /\ Save(n, NewStamp)
              /\ Hold(p, [row |-> n, stamp |-> NewStamp])
              /\ Goto(p, IF call[p].kind = "create" THEN "lookup" ELSE "fill")
              /\ UNCHANGED <<call, trying, told>>
           \/ /\ table[n] # Nothing
              /\ TryNext(p)
              /\ UNCHANGED <<table, endings>>
        /\ UNCHANGED <<status, cache, now, calls, faults, writer, overlapped>>

\* validateDimensions.
DimRead(p) ==
    /\ pc[p] = "dimRead"
    /\ FindByDimensions(p, "lookup", Hydrate(p))
    /\ UNCHANGED <<db, cache, now, calls, faults, hist>>

-----------------------------------------------------------------------------
(* getBalance over the cache.                                                *)

\* Mutant: the entry's end is not looked at.
ServableForever(n) == cache[n] # Nothing

\* isCached: an entry is good up to and including expiresAt.
Servable(n) == cache[n] # Nothing /\ now <= cache[n].expires

\* How long ago a stamp's numbers were overwritten.
Age(stamp) == IF endings[stamp] = Nothing THEN 0 ELSE now - endings[stamp]

\* The balance is returned, judged by validateBalance, or compared and then
\* reconciled by a sync.
Use(p, e) ==
    LET seen == [answer |-> "none", row |-> e.row, age |-> Age(e.stamp)]
    IN  IF call[p].kind = "get" THEN End(p, [seen EXCEPT !.answer = "ok"])
        ELSE /\ told' = [told EXCEPT ![p] = seen]
             /\ Goto(p, IF call[p].kind = "create" THEN "saveRequest" ELSE "reconRead")
             /\ UNCHANGED <<call, trying, entity>>

\* An entry found expired is deleted.
Lookup(p) ==
    /\ pc[p] = "lookup"
    /\ \/ /\ Servable(Name(p))
          /\ Use(p, cache[Name(p)].entity)
          /\ UNCHANGED cache
       \/ /\ ~Servable(Name(p))
          /\ cache' = [cache EXCEPT ![Name(p)] = Nothing]
          /\ Goto(p, "balRead")
          /\ UNCHANGED <<call, trying, entity, told>>
    /\ UNCHANGED <<db, now, calls, faults, hist>>

BalRead(p) ==
    /\ pc[p] = "balRead"
    /\ FindByDimensions(p, "fill", Hydrate(p))
    /\ UNCHANGED <<db, cache, now, calls, faults, hist>>

SetInCache(n, e) == cache' = [cache EXCEPT ![n] = [entity |-> e, expires |-> now + Ttl]]

Fill(p) ==
    /\ pc[p] = "fill"
    /\ SetInCache(Name(p), entity[p])
    /\ Use(p, entity[p])
    /\ UNCHANGED <<db, now, calls, faults, hist>>

\* createRequest after validateBalance, which may also find too few days.
SaveCreated(p) ==
    /\ pc[p] = "saveRequest"
    /\ \/ status' = [status EXCEPT ![call[p].req] = "PENDING"] /\ Finish(p, "ok")
       \/ Finish(p, "insufficient") /\ UNCHANGED status
    /\ UNCHANGED <<table, cache, now, calls, faults, hist>>

-----------------------------------------------------------------------------
(* approveRequest and cancelRequest: the refresh, and the balance's move.     *)

RefreshRead(p) ==
    /\ pc[p] = "refreshRead"
    /\ FindByDimensions(p, "refreshSave", Finish(p, "notFound"))
    /\ UNCHANGED <<db, cache, now, calls, faults, hist>>

\* The entity read goes back as it was.
RefreshSave(p) ==
    /\ pc[p] = "refreshSave"
    /\ Save(entity[p].row, entity[p].stamp)
    /\ Goto(p, "refreshFill")
    /\ UNCHANGED <<status, cache, call, trying, entity, told, now, calls, faults,
                   writer, overlapped>>

\* setInCache and validateBalance, which may find too few days.
RefreshFill(p) ==
    /\ pc[p] = "refreshFill"
    /\ SetInCache(Name(p), entity[p])
    /\ \/ Goto(p, "moveRead") /\ UNCHANGED <<call, trying, entity, told>>
       \/ Finish(p, "insufficient")
    /\ UNCHANGED <<db, now, calls, faults, hist>>

\* updateUsedBalance and refundBalance.
MoveRead(p) ==
    /\ pc[p] = "moveRead"
    /\ FindByDimensions(p, "moveSave", Finish(p, "notFound"))
    /\ UNCHANGED <<db, cache, now, calls, faults, hist>>

MoveSave(p) ==
    /\ pc[p] = "moveSave"
    /\ Save(entity[p].row, NewStamp)
    /\ writer' = Spelling(p)
    /\ Goto(p, "invalidate")
    /\ UNCHANGED <<status, cache, call, trying, entity, told, now, calls, faults, overlapped>>

\* Mutant: only this year's entry goes.
InvalidatedThisYear(s) == {<<s, ThisYear>>}

\* key.startsWith(`${employeeId}:${locationId}:`)
Invalidated(s) == {n \in Names : n[1] = s}

\* invalidateCache with the caller's spelling.
Invalidate(p) ==
    /\ pc[p] = "invalidate"
    /\ cache' = [n \in Names |-> IF n \in Invalidated(Spelling(p)) THEN Nothing ELSE cache[n]]
    /\ Goto(p, "saveDecision")
    /\ UNCHANGED <<db, call, trying, entity, told, now, calls, faults, hist>>

SaveDecision(p) ==
    /\ pc[p] = "saveDecision"
    /\ status' = [status EXCEPT ![call[p].req] =
                     IF call[p].kind = "approve" THEN "APPROVED" ELSE "CANCELLED"]
    /\ Finish(p, "ok")
    /\ UNCHANGED <<table, cache, now, calls, faults, hist>>

-----------------------------------------------------------------------------
(* A batch sync of one employee.                                             *)

AskSync(p) ==
    /\ pc[p] = "askSync"
    /\ IF Spelling(p) \in HcmKnows
       THEN Goto(p, "lookup") /\ UNCHANGED <<call, trying, entity, told>>
       ELSE Finish(p, "notInHcm")
    /\ UNCHANGED <<db, cache, now, calls, faults, hist>>

\* reconcileBalance: findOne where employee_id is the spelling, in any year.
Reconcilable(s) == {n \in Stored : n[1] = s}

ReconRead(p) ==
    /\ pc[p] = "reconRead"
    /\ \/ \E n \in Reconcilable(Spelling(p)) :
             /\ Hold(p, Entity(n))
             /\ Goto(p, "reconSave")
             /\ UNCHANGED <<call, trying, told>>
       \/ Reconcilable(Spelling(p)) = {} /\ Finish(p, "notReconciled")
    /\ UNCHANGED <<db, cache, now, calls, faults, hist>>

ReconSave(p) ==
    /\ pc[p] = "reconSave"
    /\ Save(entity[p].row, NewStamp)
    /\ writer' = Nothing
    /\ Finish(p, "ok")
    /\ UNCHANGED <<status, cache, now, calls, faults, overlapped>>

-----------------------------------------------------------------------------
(* The environment.                                                          *)

AwaitingSteps == {"dimRead", "askHcm", "insert", "balRead", "saveRequest", "refreshRead",
                  "refreshSave", "moveRead", "moveSave", "saveDecision", "askSync",
                  "reconRead", "reconSave"}

\* A query or the HCM call fails: hydration goes on, whoever else asked gives up.
Fault(p) ==
    /\ pc[p] \in AwaitingSteps
    /\ faults < MaxFaults
    /\ faults' = faults + 1
    /\ IF pc[p] \in {"askHcm", "insert"} THEN TryNext(p) ELSE Finish(p, "error")
    /\ UNCHANGED <<db, cache, now, calls, hist>>

\* A restart: the database is all that is left.
Crash ==
    /\ faults < MaxFaults
    /\ faults' = faults + 1
    /\ cache' = [n \in Names |-> Nothing]
    /\ pc' = [p \in Slots |-> "idle"]
    /\ call' = [p \in Slots |-> NoCall]
    /\ trying' = [p \in Slots |-> Nothing]
    /\ entity' = [p \in Slots |-> Nothing]
    /\ told' = [p \in Slots |-> ToldNothing]
    /\ UNCHANGED <<db, now, calls, hist>>

AllIdle == \A p \in Slots : pc[p] = "idle"

\* A call takes no time beside a TTL of 30 minutes.
Tick ==
    /\ AllIdle
    /\ now < MaxTime
    /\ now' = now + 1
    /\ UNCHANGED <<db, cache, regs, calls, faults, hist>>

Start(p) == StartGet(p) \/ StartSync(p) \/ StartCreate(p) \/ StartApprove(p) \/ StartCancel(p)

Step(p) ==
    \/ DimRead(p) \/ AskHcm(p) \/ Insert(p)
    \/ Lookup(p) \/ BalRead(p) \/ Fill(p) \/ SaveCreated(p)
    \/ RefreshRead(p) \/ RefreshSave(p) \/ RefreshFill(p)
    \/ MoveRead(p) \/ MoveSave(p) \/ Invalidate(p) \/ SaveDecision(p)
    \/ AskSync(p) \/ ReconRead(p) \/ ReconSave(p)

Next == Tick \/ Crash \/ \E p \in Slots : Start(p) \/ Step(p) \/ Fault(p)

Spec == Init /\ [][Next]_vars

-----------------------------------------------------------------------------
(* Properties.                                                               *)

Stamps == 1..Len(endings)
Entities == [row : Names, stamp : Stamps]

\* Type invariant: the entity a step uses is there.
TypeOK ==
    /\ table \in [Names -> Stamps \cup {Nothing}]
    /\ \A n \in Names : cache[n] # Nothing =>
          cache[n].entity \in Entities /\ cache[n].expires \in 0..(MaxTime + Ttl)
    /\ status \in [Requests -> {"NONE", "PENDING", "APPROVED", "CANCELLED"}]
    /\ \A p \in Slots :
          /\ pc[p] = "idle" <=> call[p] = NoCall
          /\ pc[p] # "idle" => call[p].kind \in Kinds /\ Name(p) \in Names
          /\ pc[p] \in {"askHcm", "insert"} => trying[p] \in Spellings
          /\ pc[p] \in {"fill", "refreshSave", "refreshFill", "moveSave", "reconSave"} =>
                entity[p] \in Entities
    /\ now \in 0..MaxTime /\ calls \in 0..MaxCalls /\ faults \in 0..MaxFaults
    /\ endings \in Seq(0..MaxTime \cup {Nothing})
    /\ writer \in Spellings \cup {Nothing}
    /\ overlapped \in BOOLEAN

\* The days of one year are not granted twice.  An employee has two rows in a
\* year only where calls overlapped, each finding none, and the HCM answers to two
\* of the spellings: hydration's second candidate, a refused INSERT, failures and
\* restarts make no second row.
OneRowPerYear ==
    \A m, n \in Stored :
        m[2] = n[2] /\ m # n => overlapped /\ \E s, t \in HcmKnows : s # t

\* No getBalance is answered, and no request judged, with numbers that were
\* overwritten more than a TTL ago, under whichever name they were cached and
\* however late the entry was filled.
StaleAtMostTtl == \A p \in Slots : told[p].age <= Ttl

\* As long as calls do not overlap, the spelling that moved the balance last sees
\* its own write, in whatever year it asks, unless a sync has written since.
WriterSeesItsWrite ==
    AllIdle /\ ~overlapped /\ writer # Nothing =>
        \A n \in Names : n[1] = writer /\ Servable(n) =>
            endings[cache[n].entity.stamp] = Nothing

\* The HCM has the employee under whatever hydration tries.
KnownToHcm == \A s \in Spellings : s \in HcmKnows \/ LowerOf[s] \in HcmKnows

\* A call that was refused although the HCM knows the employee and nothing failed,
\* its INSERT having lost against another one, only has to be made again: there
\* is a row now.
RefusalsCurable ==
    KnownToHcm /\ faults = 0 => \A p \in Slots :
        told[p].answer \in {"invalidDimension", "notFound"} => Stored # {}

=============================================================================
