------------------------- MODULE BalanceIdentityProofs -------------------------
(***************************************************************************)
(* Theorems about one balance under several names, for any spellings of one  *)
(* employee, years, requests, calls in flight, TTL and bounds.                *)
(*                                                                         *)
(* A turn of a slot is first reduced to its effects: what becomes of the      *)
(* slot's registers, of the rows, of the cache and of the histories.  The     *)
(* invariants are then proved of the effects, not action by action.           *)
(***************************************************************************)
EXTENDS BalanceIdentity, TLAPS

-----------------------------------------------------------------------------
(* The shape of the state.                                                   *)

Steps == AwaitingSteps \cup {"idle", "lookup", "fill", "refreshFill", "invalidate"}

\* The steps that use the entity the slot holds, and the ones of hydration.
Holding == {"fill", "refreshSave", "refreshFill", "moveSave", "reconSave"}
Hydrating == {"askHcm", "insert"}

Calls == [kind : Kinds, name : Names, req : Requests \cup {Nothing}]
Answers == {"none", "ok", "notFound", "invalidDimension", "insufficient", "notInHcm",
            "notReconciled", "error"}
Tellings == [answer : Answers, row : Names \cup {Nothing}, age : Int]
Entries == [entity : Entities, expires : 0..(MaxTime + Ttl)]

\* The tables, the counters and the histories.
DataTyped ==
    /\ table \in [Names -> Stamps \cup {Nothing}]
    /\ status \in [Requests -> {"NONE", "PENDING", "APPROVED", "CANCELLED"}]
    /\ now \in 0..MaxTime /\ calls \in 0..MaxCalls /\ faults \in 0..MaxFaults
    /\ endings \in Seq(0..MaxTime \cup {Nothing})
    /\ writer \in Spellings \cup {Nothing}
    /\ overlapped \in BOOLEAN

\* The registers and the cache.
RegsTyped ==
    /\ pc \in [Slots -> Steps]
    /\ call \in [Slots -> Calls \cup {NoCall}]
    /\ trying \in [Slots -> Spellings \cup {Nothing}]
    /\ entity \in [Slots -> Entities \cup {Nothing}]
    /\ told \in [Slots -> Tellings]
    /\ cache \in [Names -> Entries \cup {Nothing}]

\* A slot has the registers its step uses, and none when it is idle.
Proper(p) ==
    /\ pc[p] = "idle" <=> call[p] = NoCall
    /\ pc[p] = "idle" => entity[p] = Nothing
    /\ pc[p] \in Hydrating => trying[p] \in Spellings
    /\ pc[p] \in Holding => entity[p] # Nothing

TypedInv == DataTyped /\ RegsTyped /\ \A p \in Slots : Proper(p)

-----------------------------------------------------------------------------
(* The operators.                                                            *)

\* What a save does to the row, to the stamp it had and to the one it gets.
LEMMA SaveEffect ==
    ASSUME DataTyped, NEW n \in Names, NEW stamp \in 1..(Len(endings) + 1), Save(n, stamp)
    PROVE  /\ endings' \in Seq(0..MaxTime \cup {Nothing})
           /\ Len(endings) <= Len(endings') /\ stamp <= Len(endings')
           /\ table'[n] = stamp /\ \A m \in Names : m # n => table'[m] = table[m]
           /\ table' \in [Names -> Stamps' \cup {Nothing}]
           /\ endings'[stamp] = Nothing
           /\ table[n] # Nothing /\ table[n] # stamp => endings'[table[n]] = now
           /\ \A i \in Stamps : i # stamp /\ i # table[n] => endings'[i] = endings[i]
<1> DEFINE k == IF stamp > Len(endings) THEN stamp ELSE Len(endings)
           T == 0..MaxTime \cup {Nothing}
<1>1. /\ endings \in Seq(T) /\ Len(endings) \in Nat /\ now \in T
      /\ table \in [Names -> Stamps \cup {Nothing}]
  BY DEF DataTyped
<1>2. k \in Nat /\ k >= Len(endings) /\ stamp \in 1..k
  BY <1>1
<1>3. endings' = [i \in 1..k |-> IF i = stamp THEN Nothing
                                 ELSE IF i = table[n] THEN now ELSE endings[i]]
  BY DEF Save, Overwritten
<1>4. \A i \in 1..k : i # stamp => i \in Stamps
  BY <1>1 DEF Stamps
<1>5. \A i \in Stamps : endings[i] \in T
  BY <1>1 DEF Stamps
<1> HIDE DEF k, T
<1>6. \A i \in 1..k : (IF i = stamp THEN Nothing
                       ELSE IF i = table[n] THEN now ELSE endings[i]) \in T
  BY <1>1, <1>4, <1>5 DEF T
<1>7. endings' \in Seq(T) /\ Len(endings') = k
  BY <1>2, <1>3, <1>6
<1>8. Stamps' = 1..k
  BY <1>7 DEF Stamps
<1>9. table' = [table EXCEPT ![n] = stamp]
  BY DEF Save
<1>10. Stamps \subseteq Stamps' /\ stamp \in Stamps'
  BY <1>1, <1>2, <1>8 DEF Stamps
<1>11. /\ table'[n] = stamp /\ \A m \in Names : m # n => table'[m] = table[m]
       /\ table' \in [Names -> Stamps' \cup {Nothing}]
  BY <1>1, <1>9, <1>10
<1>12. endings'[stamp] = Nothing
  BY <1>2, <1>3
<1>13. ASSUME table[n] # Nothing, table[n] # stamp
       PROVE  endings'[table[n]] = now
  <2>1. table[n] \in 1..k
    BY <1>1, <1>8, <1>10, <1>13
  <2> QED  BY <1>3, <1>13, <2>1
<1>14. ASSUME NEW i \in Stamps, i # stamp, i # table[n]
       PROVE  endings'[i] = endings[i]
  BY <1>3, <1>8, <1>10, <1>14
<1>15. Len(endings) <= Len(endings') /\ stamp <= Len(endings')
  BY <1>2, <1>7
<1> QED  BY <1>7, <1>11, <1>12, <1>13, <1>14, <1>15 DEF T

\* No stamp is ever taken back.
LEMMA StampsGrow ==
    ASSUME DataTyped, endings' \in Seq(0..MaxTime \cup {Nothing}), Len(endings) <= Len(endings')
    PROVE  Stamps \subseteq Stamps' /\ Entities \subseteq Entities' /\ Entries \subseteq Entries'
<1>1. Len(endings) \in Nat /\ Len(endings') \in Nat
  BY DEF DataTyped
<1>2. Stamps \subseteq Stamps'
  BY <1>1 DEF Stamps
<1>3. Entities \subseteq Entities'
  BY <1>2 DEF Entities
<1> QED  BY <1>2, <1>3 DEF Entries

\* A call in flight has a spelling and a year.
LEMMA BusyNames ==
    ASSUME RegsTyped, NEW p \in Slots, Proper(p), pc[p] # "idle"
    PROVE  /\ call[p] \in Calls /\ Name(p) \in Names
           /\ Spelling(p) \in Spellings /\ Name(p)[2] \in Years
<1>1. call[p] \in Calls
  BY DEF RegsTyped, Proper
<1>2. Name(p) \in Names
  BY <1>1 DEF Calls, Name
<1> QED  BY <1>1, <1>2 DEF Names, Spelling

\* An entity read from a stored row.
LEMMA EntityTyped ==
    ASSUME DataTyped, NEW n \in Stored
    PROVE  Entity(n) \in Entities /\ Entity(n).row = n /\ Entity(n).stamp = table[n]
<1>1. n \in Names /\ table[n] \in Stamps
  BY DEF Stored, DataTyped
<1> QED  BY <1>1 DEF Entity, Entities

\* An entity is something.
LEMMA EntitiesAreSomething ==
    ASSUME DataTyped, NEW e \in Entities
    PROVE  e # Nothing /\ e.row \in Names /\ e.stamp \in Stamps /\ e.stamp \in Nat
<1>1. \A i \in Stamps : i \in Nat /\ i \in Int
  BY DEF Stamps, DataTyped
<1>2. e = [row |-> e.row, stamp |-> e.stamp] /\ e.row \in Names /\ e.stamp \in Stamps
  BY DEF Entities
<1>3. [row |-> e.row, stamp |-> e.stamp] \in [row : Names, stamp : Int]
  BY <1>1, <1>2
<1> QED  BY <1>1, <1>2, <1>3, NothingAssumption

\* An age is a number of ticks.
LEMMA AgeTyped ==
    ASSUME DataTyped, NEW stamp \in Stamps
    PROVE  Age(stamp) \in Int
<1>1. endings[stamp] \in 0..MaxTime \cup {Nothing}
  BY DEF DataTyped, Stamps
<1> QED  BY <1>1 DEF Age, DataTyped

-----------------------------------------------------------------------------
(* The registers after a turn.                                               *)

\* The turn of a slot leaves it proper, and the others as they were.
Turn(p) ==
    /\ pc' \in [Slots -> Steps]
    /\ call' \in [Slots -> Calls \cup {NoCall}]
    /\ trying' \in [Slots -> Spellings \cup {Nothing}]
    /\ entity' \in [Slots -> Entities' \cup {Nothing}]
    /\ told' \in [Slots -> Tellings]
    /\ Proper(p)'
    /\ \A q \in Slots : q # p => /\ pc'[q] = pc[q] /\ call'[q] = call[q]
                                 /\ trying'[q] = trying[q] /\ entity'[q] = entity[q]
                                 /\ told'[q] = told[q]

\* The handler returns or throws.
LEMMA EndTurns ==
    ASSUME RegsTyped, Entities \subseteq Entities', NEW p \in Slots, NEW t \in Tellings,
           End(p, t)
    PROVE  Turn(p) /\ pc'[p] = "idle" /\ entity'[p] = Nothing /\ told'[p] = t
<1>1. "idle" \in Steps /\ "idle" \notin Hydrating /\ "idle" \notin Holding
  BY DEF Steps, Hydrating, Holding
<1>2. /\ pc' = [pc EXCEPT ![p] = "idle"] /\ call' = [call EXCEPT ![p] = NoCall]
      /\ trying' = [trying EXCEPT ![p] = Nothing] /\ entity' = [entity EXCEPT ![p] = Nothing]
      /\ told' = [told EXCEPT ![p] = t]
  BY DEF End, Goto, Hold
<1>3. /\ pc'[p] = "idle" /\ call'[p] = NoCall /\ entity'[p] = Nothing /\ told'[p] = t
      /\ \A q \in Slots : q # p => /\ pc'[q] = pc[q] /\ call'[q] = call[q]
                                   /\ trying'[q] = trying[q] /\ entity'[q] = entity[q]
                                   /\ told'[q] = told[q]
  BY <1>2 DEF RegsTyped
<1>4. Proper(p)'
  BY <1>1, <1>3 DEF Proper
<1>5. /\ pc' \in [Slots -> Steps] /\ call' \in [Slots -> Calls \cup {NoCall}]
      /\ trying' \in [Slots -> Spellings \cup {Nothing}]
      /\ entity' \in [Slots -> Entities' \cup {Nothing}] /\ told' \in [Slots -> Tellings]
  BY <1>1, <1>2 DEF RegsTyped
<1> QED  BY <1>3, <1>4, <1>5 DEF Turn

\* It does so with what it knows of the balance.
LEMMA FinishTurns ==
    ASSUME RegsTyped, Entities \subseteq Entities', NEW p \in Slots, NEW a \in Answers,
           Finish(p, a)
    PROVE  /\ Turn(p) /\ pc'[p] = "idle" /\ entity'[p] = Nothing
           /\ told'[p].answer = a /\ told'[p].age = told[p].age
<1>1. told[p] \in Tellings
  BY DEF RegsTyped
<1>2. /\ [told[p] EXCEPT !.answer = a] \in Tellings
      /\ [told[p] EXCEPT !.answer = a].answer = a
      /\ [told[p] EXCEPT !.answer = a].age = told[p].age
  BY <1>1 DEF Tellings
<1> QED  BY <1>2, EndTurns DEF Finish

\* The handler goes on: to a step whose registers it has.
LEMMA GoingOnTurns ==
    ASSUME RegsTyped, Entities \subseteq Entities', NEW p \in Slots, Proper(p), pc[p] # "idle",
           NEW step \in Steps \ {"idle"}, Goto(p, step), UNCHANGED call,
           trying' \in [Slots -> Spellings \cup {Nothing}],
           entity' \in [Slots -> Entities' \cup {Nothing}],
           told' \in [Slots -> Tellings],
           \A q \in Slots : q # p => /\ trying'[q] = trying[q] /\ entity'[q] = entity[q]
                                     /\ told'[q] = told[q],
           step \in Hydrating => trying'[p] \in Spellings,
           step \in Holding => entity'[p] # Nothing
    PROVE  Turn(p) /\ pc'[p] = step /\ call'[p] = call[p]
<1>1. /\ pc'[p] = step /\ \A q \in Slots : q # p => pc'[q] = pc[q]
      /\ pc' \in [Slots -> Steps]
  BY DEF Goto, RegsTyped
<1>2. Proper(p)'
  BY <1>1 DEF Proper
<1> QED  BY <1>1, <1>2 DEF Turn, RegsTyped

\* Nothing but the step changes.
LEMMA StepTurns ==
    ASSUME RegsTyped, Entities \subseteq Entities', NEW p \in Slots, Proper(p), pc[p] # "idle",
           NEW step \in Steps \ {"idle"}, Goto(p, step), UNCHANGED <<call, trying, entity, told>>,
           step \in Hydrating => trying[p] \in Spellings,
           step \in Holding => entity[p] # Nothing
    PROVE  Turn(p) /\ pc'[p] = step /\ call'[p] = call[p]
<1>1. /\ trying' \in [Slots -> Spellings \cup {Nothing}]
      /\ entity' \in [Slots -> Entities' \cup {Nothing}]
      /\ told' \in [Slots -> Tellings]
  BY DEF RegsTyped
<1> QED  BY <1>1, GoingOnTurns

\* hydrateBalanceFromHCM begins with the caller's spelling.
LEMMA HydrateTurns ==
    ASSUME RegsTyped, Entities \subseteq Entities', NEW p \in Slots, Proper(p), pc[p] # "idle",
           Hydrate(p)
    PROVE  Turn(p) /\ pc'[p] = "askHcm" /\ entity'[p] = entity[p] /\ told'[p] = told[p]
<1>1. Spelling(p) \in Spellings
  BY BusyNames
<1>2. "askHcm" \in Steps \ {"idle"} /\ "askHcm" \notin Holding
  BY DEF Steps, AwaitingSteps, Holding
<1>3. trying' = [trying EXCEPT ![p] = Spelling(p)] /\ Goto(p, "askHcm")
      /\ UNCHANGED <<call, entity, told>>
  BY DEF Hydrate
<1>4. /\ trying' \in [Slots -> Spellings \cup {Nothing}] /\ trying'[p] \in Spellings
      /\ entity' \in [Slots -> Entities' \cup {Nothing}]
      /\ told' \in [Slots -> Tellings]
      /\ \A q \in Slots : q # p => trying'[q] = trying[q]
  BY <1>1, <1>3 DEF RegsTyped
<1>5. Turn(p) /\ pc'[p] = "askHcm"
  BY <1>2, <1>3, <1>4, GoingOnTurns
<1> QED  BY <1>3, <1>5

\* Its second candidate, or its end.
LEMMA TryNextTurns ==
    ASSUME RegsTyped, Entities \subseteq Entities', NEW p \in Slots, Proper(p), pc[p] \in Hydrating,
           TryNext(p)
    PROVE  /\ Turn(p)
           /\ pc'[p] \in {"askHcm", "idle"} /\ entity'[p] \in {entity[p], Nothing}
           /\ told'[p].age = told[p].age
           /\ told'[p].answer = told[p].answer \/ trying[p] = LowerOf[trying[p]]
<1>1. pc[p] # "idle" /\ trying[p] \in Spellings /\ LowerOf[trying[p]] \in Spellings
  BY SpellingsAssumption DEF Hydrating, Proper
<1>2. CASE trying[p] # LowerOf[trying[p]]
  <2>1. "askHcm" \in Steps \ {"idle"} /\ "askHcm" \notin Holding
    BY DEF Steps, AwaitingSteps, Holding
  <2>2. /\ trying' = [trying EXCEPT ![p] = LowerOf[@]] /\ Goto(p, "askHcm")
        /\ UNCHANGED <<call, entity, told>>
    BY <1>2 DEF TryNext
  <2>3. /\ trying' \in [Slots -> Spellings \cup {Nothing}] /\ trying'[p] \in Spellings
        /\ entity' \in [Slots -> Entities' \cup {Nothing}]
        /\ told' \in [Slots -> Tellings]
        /\ \A q \in Slots : q # p => trying'[q] = trying[q]
    BY <1>1, <2>2 DEF RegsTyped
  <2>4. Turn(p) /\ pc'[p] = "askHcm"
    BY <1>1, <2>1, <2>2, <2>3, GoingOnTurns
  <2> QED  BY <2>2, <2>4
<1>3. CASE trying[p] = LowerOf[trying[p]]
  <2> DEFINE a == IF call[p].kind = "create" THEN "invalidDimension" ELSE "notFound"
  <2>1. Finish(p, a)
    BY <1>3 DEF TryNext
  <2>2. a \in Answers
    BY DEF Answers
  <2> HIDE DEF a
  <2> QED  BY <1>3, <2>1, <2>2, FinishTurns
<1> QED  BY <1>2, <1>3

\* An entity found in the table.
LEMMA FoundTurns ==
    ASSUME DataTyped, RegsTyped, Entities \subseteq Entities', NEW p \in Slots, Proper(p),
           pc[p] # "idle", NEW n \in Stored, NEW step \in Steps \ ({"idle"} \cup Hydrating),
           Hold(p, Entity(n)), Goto(p, step), UNCHANGED <<call, trying, told>>
    PROVE  Turn(p) /\ pc'[p] = step /\ entity'[p] = Entity(n) /\ told'[p] = told[p]
<1>1. Entity(n) \in Entities /\ Entity(n) # Nothing
  BY EntityTyped, EntitiesAreSomething
<1> HIDE DEF Entity
<1>2. entity' = [entity EXCEPT ![p] = Entity(n)]
  BY DEF Hold
<1>3. /\ entity' \in [Slots -> Entities' \cup {Nothing}] /\ entity'[p] = Entity(n)
      /\ \A q \in Slots : q # p => entity'[q] = entity[q]
      /\ trying' \in [Slots -> Spellings \cup {Nothing}] /\ told' \in [Slots -> Tellings]
  BY <1>1, <1>2 DEF RegsTyped
<1>4. Turn(p) /\ pc'[p] = step
  BY <1>1, <1>3, GoingOnTurns
<1> QED  BY <1>3, <1>4

\* The balance is used.
LEMMA UseTurns ==
    ASSUME DataTyped, RegsTyped, Entities \subseteq Entities', NEW p \in Slots, Proper(p),
           pc[p] # "idle", NEW e \in Entities, Use(p, e)
    PROVE  /\ Turn(p) /\ pc'[p] \in {"idle", "saveRequest", "reconRead"}
           /\ entity'[p] \in {Nothing, entity[p]}
           /\ told'[p].age = Age(e.stamp) /\ told'[p].answer \in {"none", "ok"}
<1> DEFINE seen == [answer |-> "none", row |-> e.row, age |-> Age(e.stamp)]
           shown == [seen EXCEPT !.answer = "ok"]
<1>1. e.row \in Names /\ Age(e.stamp) \in Int
  BY EntitiesAreSomething, AgeTyped
<1> HIDE DEF Age
<1>2. seen \in Tellings /\ seen.age = Age(e.stamp) /\ seen.answer = "none"
  BY <1>1 DEF Tellings, Answers
<1>3. shown \in Tellings /\ shown.age = Age(e.stamp) /\ shown.answer = "ok"
  BY <1>1 DEF Tellings, Answers
<1>4. CASE call[p].kind = "get"
  <2>1. End(p, shown)
    BY <1>4 DEF Use
  <2> HIDE DEF shown
  <2> QED  BY <1>3, <2>1, EndTurns
<1>5. CASE call[p].kind # "get"
  <2> DEFINE step == IF call[p].kind = "create" THEN "saveRequest" ELSE "reconRead"
  <2>1. /\ told' = [told EXCEPT ![p] = seen] /\ Goto(p, step)
        /\ UNCHANGED <<call, trying, entity>>
    BY <1>5 DEF Use
  <2> HIDE DEF seen
  <2>2. step \in Steps \ {"idle"} /\ step \notin Hydrating /\ step \notin Holding
        /\ step \in {"saveRequest", "reconRead"}
    BY DEF Steps, AwaitingSteps, Hydrating, Holding
  <2> HIDE DEF step
  <2>3. /\ told' \in [Slots -> Tellings] /\ told'[p] = seen
        /\ \A q \in Slots : q # p => told'[q] = told[q]
        /\ trying' \in [Slots -> Spellings \cup {Nothing}]
        /\ entity' \in [Slots -> Entities' \cup {Nothing}]
    BY <1>2, <2>1 DEF RegsTyped
  <2>4. Turn(p) /\ pc'[p] = step
    BY <2>1, <2>2, <2>3, GoingOnTurns
  <2> QED  BY <1>2, <2>1, <2>2, <2>3, <2>4
<1> QED  BY <1>4, <1>5

-----------------------------------------------------------------------------
(* The effects of a turn.                                                    *)

Early == {"idle", "dimRead", "lookup", "balRead", "askHcm", "insert", "askSync"}
Refusals == {"invalidDimension", "notFound"}

\* No row is written; the slot drops its entity, keeps it or reads another one.
Reads(p) ==
    /\ UNCHANGED <<table, endings, writer>>
    /\ \/ entity'[p] = Nothing
       \/ entity'[p] = entity[p] /\ (pc'[p] \in Holding => pc[p] \in Holding)
       \/ \E n \in Stored : entity'[p] = Entity(n)
    /\ pc'[p] \in Hydrating =>
          pc[p] \in Hydrating \/ (pc[p] # "idle" /\ Findable(Spelling(p)) = {})

\* A row is hydrated,
Inserts(p) ==
    /\ pc[p] = "insert" /\ pc'[p] \notin Hydrating
    /\ \E n \in Names : /\ n[1] = trying[p] /\ table[n] = Nothing /\ Save(n, NewStamp)
                        /\ entity'[p] = [row |-> n, stamp |-> NewStamp]
    /\ UNCHANGED writer

\* or saved as it was read,
PutsBack(p) ==
    /\ pc[p] = "refreshSave" /\ pc'[p] = "refreshFill"
    /\ Save(entity[p].row, entity[p].stamp)
    /\ UNCHANGED <<entity, writer>>

\* or given numbers nobody wrote before.
Renumbers(p) ==
    /\ pc[p] \in {"moveSave", "reconSave"} /\ pc'[p] \in {"invalidate", "idle"}
    /\ Save(entity[p].row, NewStamp)
    /\ entity'[p] \in {entity[p], Nothing}
    /\ \/ writer' = Nothing
       \/ /\ writer' = Spelling(p) /\ writer' \in Spellings
          /\ pc'[p] = "invalidate" /\ Spelling(p)' = writer'

Writes(p) == Reads(p) \/ Inserts(p) \/ PutsBack(p) \/ Renumbers(p)

\* The cache is filled with the entity the slot holds.
Caches(p) ==
    /\ cache' \in [Names -> Entries' \cup {Nothing}]
    /\ \A n \in Names :
          \/ cache'[n] \in {cache[n], Nothing}
          \/ pc[p] \in Holding /\ cache'[n] = [entity |-> entity[p], expires |-> now + Ttl]
    /\ pc[p] = "invalidate" => \A n \in Names : n[1] = Spelling(p) => cache'[n] = Nothing

\* What a call is told comes from its entity or from the cache; what refuses it.
Tells(p) ==
    /\ \/ told'[p].age \in {told[p].age, 0}
       \/ pc[p] \in Holding /\ told'[p].age = Age(entity[p].stamp)
       \/ \E n \in Names : Servable(n) /\ told'[p].age = Age(cache[n].entity.stamp)
    /\ told'[p].answer \in Refusals =>
          \/ told'[p].answer = told[p].answer
          \/ faults < faults'
          \/ ~KnownToHcm
          \/ Stored # {}
          \/ pc[p] \notin Early

\* What it takes to get past the early steps.
Decides(p) ==
    /\ status' \in [Requests -> {"NONE", "PENDING", "APPROVED", "CANCELLED"}]
    /\ status' = status \/ pc[p] \notin Early
    /\ pc'[p] \notin Early => \/ pc[p] \notin Early
                              \/ Stored # {} \/ Inserts(p)
                              \/ \E n \in Names : cache[n] # Nothing
                              \/ \E r \in Requests : status[r] # "NONE"

Counts(p) ==
    /\ now' = now /\ calls' \in 0..MaxCalls
    /\ faults' \in 0..MaxFaults /\ faults <= faults'
    /\ overlapped' = (overlapped \/ (pc[p] = "idle" /\ \E q \in Slots : pc[q] # "idle"))

Effects(p) == Turn(p) /\ Writes(p) /\ Caches(p) /\ Tells(p) /\ Decides(p) /\ Counts(p)

\* Nothing but registers changes, except that something may fail.
Quiet ==
    /\ UNCHANGED <<table, status, cache, now, calls, endings, writer, overlapped>>
    /\ faults' \in 0..MaxFaults /\ faults <= faults'

\* A step that changes registers only is quiet.
LEMMA QuietTurns ==
    ASSUME TypedInv, UNCHANGED <<db, cache, now, calls, faults, hist>>
    PROVE  Quiet /\ Entities \subseteq Entities'
<1>1. UNCHANGED <<table, status, cache, now, calls, faults, endings, writer, overlapped>>
  BY DEF db, hist
<1> QED  BY <1>1 DEF Quiet, TypedInv, DataTyped, Stamps, Entities

\* The effects of such a turn.
LEMMA QuietEffects ==
    ASSUME TypedInv, NEW p \in Slots, pc[p] # "idle", Turn(p), pc[p] # "invalidate", Quiet,
           \/ entity'[p] = Nothing
           \/ entity'[p] = entity[p] /\ (pc'[p] \in Holding => pc[p] \in Holding)
           \/ \E n \in Stored : entity'[p] = Entity(n),
           pc'[p] \in Hydrating => pc[p] \in Hydrating \/ Findable(Spelling(p)) = {},
           Tells(p),
           pc'[p] \notin Early => \/ pc[p] \notin Early \/ Stored # {}
                                  \/ \E n \in Names : cache[n] # Nothing
    PROVE  Effects(p)
<1>1. UNCHANGED <<table, status, cache, now, calls, endings, writer, overlapped>>
      /\ faults' \in 0..MaxFaults /\ faults <= faults'
  BY DEF Quiet
<1>2. Reads(p)
  BY <1>1 DEF Reads
<1>3. Caches(p)
  <2>1. Entries' = Entries
    BY <1>1 DEF Entries, Entities, Stamps
  <2> QED  BY <1>1, <2>1 DEF Caches, TypedInv, RegsTyped
<1>4. Decides(p)
  BY <1>1 DEF Decides, TypedInv, DataTyped
<1>5. Counts(p)
  BY <1>1 DEF Counts, TypedInv, DataTyped
<1> QED  BY <1>2, <1>3, <1>4, <1>5 DEF Effects, Writes

\* Nothing is read, and nothing was told before.
LEMMA TellsNothing ==
    ASSUME NEW p \in Slots, told'[p] = told[p]
    PROVE  Tells(p)
BY DEF Tells

\* Where no row is written, no entity appears.
LEMMA SameStamps ==
    ASSUME UNCHANGED endings
    PROVE  Stamps' = Stamps /\ Entities' = Entities /\ Entries' = Entries
BY DEF Stamps, Entities, Entries

\* Which steps are which.
LEMMA StepNames ==
    /\ {"dimRead", "balRead", "askSync"} \subseteq Early \cap AwaitingSteps
    /\ Hydrating \subseteq Early \cap AwaitingSteps
    /\ {"saveRequest", "refreshRead", "refreshSave", "refreshFill", "moveRead", "moveSave",
        "invalidate", "saveDecision", "reconRead", "reconSave", "fill"} \cap Early = {}
    /\ "idle" \in Early /\ "lookup" \in Early
    /\ Early \cap Holding = {} /\ Hydrating \cap Holding = {}
    /\ "invalidate" \notin Holding \cup Hydrating
    /\ AwaitingSteps \subseteq Steps \ {"idle"}
    /\ {"lookup", "fill", "refreshFill", "invalidate"} \subseteq Steps \ {"idle"}
BY DEF Early, AwaitingSteps, Hydrating, Holding, Steps

-----------------------------------------------------------------------------
(* The effects of what the steps have in common.                             *)

\* A row is found.
LEMMA FoundEffects ==
    ASSUME TypedInv, NEW p \in Slots, pc[p] \notin {"idle", "invalidate"}, Quiet,
           Entities \subseteq Entities', NEW n \in Stored,
           NEW step \in Steps \ ({"idle"} \cup Hydrating),
           Hold(p, Entity(n)), Goto(p, step), UNCHANGED <<call, trying, told>>
    PROVE  Effects(p)
<1>1. Turn(p) /\ pc'[p] = step /\ entity'[p] = Entity(n) /\ told'[p] = told[p]
  BY FoundTurns DEF TypedInv
<1> QED  BY <1>1, TellsNothing, QuietEffects

\* No row is found, and hydration begins.
LEMMA HydrateEffects ==
    ASSUME TypedInv, NEW p \in Slots, pc[p] \in {"dimRead", "balRead"}, Quiet,
           Entities \subseteq Entities', Findable(Spelling(p)) = {}, Hydrate(p)
    PROVE  Effects(p)
<1>1. Turn(p) /\ pc'[p] = "askHcm" /\ entity'[p] = entity[p] /\ told'[p] = told[p]
  BY HydrateTurns DEF TypedInv
<1>2. "askHcm" \in Early /\ "askHcm" \notin Holding
  BY DEF Early, Holding
<1> QED  BY <1>1, <1>2, TellsNothing, QuietEffects

\* The call is over; only a late step, or a failure, refuses it.
LEMMA FinishEffects ==
    ASSUME TypedInv, NEW p \in Slots, pc[p] \notin {"idle", "invalidate"}, Quiet,
           Entities \subseteq Entities', NEW a \in Answers, Finish(p, a),
           a \in Refusals => pc[p] \notin Early
    PROVE  Effects(p)
<1>1. /\ Turn(p) /\ pc'[p] = "idle" /\ entity'[p] = Nothing
      /\ told'[p].answer = a /\ told'[p].age = told[p].age
  BY FinishTurns DEF TypedInv
<1>2. "idle" \in Early /\ "idle" \notin Hydrating
  BY DEF Early, Hydrating
<1>3. Tells(p)
  BY <1>1 DEF Tells
<1> QED  BY <1>1, <1>2, <1>3, QuietEffects

\* Hydration goes on or gives up: the HCM does not know the candidate, the row
\* is there already, or something failed.
LEMMA TryNextEffects ==
    ASSUME TypedInv, NEW p \in Slots, pc[p] \in Hydrating, Quiet,
           Entities \subseteq Entities', TryNext(p),
           faults < faults' \/ trying[p] \notin HcmKnows \/ Stored # {}
    PROVE  Effects(p)
<1>1. /\ Turn(p)
      /\ pc'[p] \in {"askHcm", "idle"} /\ entity'[p] \in {entity[p], Nothing}
      /\ told'[p].age = told[p].age
      /\ told'[p].answer = told[p].answer \/ trying[p] = LowerOf[trying[p]]
  BY TryNextTurns DEF TypedInv
<1>2. pc'[p] \in Early /\ pc'[p] \notin Holding /\ pc[p] \notin {"idle", "invalidate"}
  BY <1>1 DEF Early, Holding, Hydrating
<1>3. trying[p] \in Spellings
  BY DEF TypedInv, Proper
<1>4. trying[p] = LowerOf[trying[p]] /\ trying[p] \notin HcmKnows => ~KnownToHcm
  BY <1>3 DEF KnownToHcm
<1>5. Tells(p)
  BY <1>1, <1>4 DEF Tells
<1> QED  BY <1>1, <1>2, <1>5, QuietEffects

\* Nothing but the step, or the entry looked up, changes.
LEMMA StepEffects ==
    ASSUME TypedInv, NEW p \in Slots, pc[p] \notin {"idle", "invalidate"}, Quiet,
           Entities \subseteq Entities', NEW step \in Steps \ ({"idle"} \cup Holding),
           Goto(p, step), UNCHANGED <<call, trying, entity, told>>,
           step \in Hydrating => pc[p] \in Hydrating, step \in Early
    PROVE  Effects(p)
<1>1. step \in Hydrating => trying[p] \in Spellings
  BY DEF TypedInv, Proper
<1>2. Turn(p) /\ pc'[p] = step
  BY <1>1, StepTurns DEF TypedInv
<1>3. told'[p] = told[p] /\ entity'[p] = entity[p]
  OBVIOUS
<1> QED  BY <1>2, <1>3, TellsNothing, QuietEffects

-----------------------------------------------------------------------------
(* The effects of each step that writes nothing.                             *)

\* The steps that only read, one query each.
LEMMA ReadingSteps ==
    ASSUME TypedInv, NEW p \in Slots,
           \/ DimRead(p) \/ BalRead(p)
           \/ RefreshRead(p) \/ MoveRead(p) \/ ReconRead(p)
    PROVE  Effects(p)
<1>1. UNCHANGED <<db, cache, now, calls, faults, hist>>
  BY DEF DimRead, BalRead, RefreshRead, MoveRead, ReconRead
<1>2. Quiet /\ Entities \subseteq Entities'
  BY <1>1, QuietTurns
<1>3. \A s \in Spellings : Findable(s) \subseteq Stored /\ Reconcilable(s) \subseteq Stored
  BY DEF Findable, Reconcilable
<1>4. {"lookup", "fill", "refreshSave", "moveSave", "reconSave"}
         \subseteq Steps \ ({"idle"} \cup Hydrating)
  BY DEF Steps, AwaitingSteps, Hydrating
<1>5. "notFound" \in Answers /\ "notReconciled" \in Answers /\ "notReconciled" \notin Refusals
  BY DEF Answers, Refusals
<1>6. pc[p] \in {"dimRead", "balRead", "refreshRead", "moveRead", "reconRead"}
  BY DEF DimRead, BalRead, RefreshRead, MoveRead, ReconRead
<1>7. Spelling(p) \in Spellings
  BY <1>6, BusyNames DEF TypedInv
<1>8. \A n \in Findable(Spelling(p)) \cup Reconcilable(Spelling(p)) : n \in Stored
  BY DEF Findable, Reconcilable
<1>9. CASE DimRead(p)
  BY <1>2, <1>4, <1>8, <1>9, FoundEffects, HydrateEffects DEF DimRead, FindByDimensions
<1>10. CASE BalRead(p)
  BY <1>2, <1>4, <1>8, <1>10, FoundEffects, HydrateEffects DEF BalRead, FindByDimensions
<1>11. pc[p] \in {"refreshRead", "moveRead", "reconRead"} => pc[p] \notin Early
  BY DEF Early
<1>12. CASE RefreshRead(p)
  BY <1>2, <1>4, <1>5, <1>8, <1>11, <1>12, FoundEffects, FinishEffects
     DEF RefreshRead, FindByDimensions
<1>13. CASE MoveRead(p)
  BY <1>2, <1>4, <1>5, <1>8, <1>11, <1>13, FoundEffects, FinishEffects
     DEF MoveRead, FindByDimensions
<1>14. CASE ReconRead(p)
  BY <1>2, <1>4, <1>5, <1>8, <1>14, FoundEffects, FinishEffects DEF ReconRead
<1> QED  BY <1>9, <1>10, <1>12, <1>13, <1>14

\* The HCM answers.
LEMMA AskingSteps ==
    ASSUME TypedInv, NEW p \in Slots, AskHcm(p) \/ AskSync(p)
    PROVE  Effects(p)
<1>1. UNCHANGED <<db, cache, now, calls, faults, hist>>
  BY DEF AskHcm, AskSync
<1>2. Quiet /\ Entities \subseteq Entities'
  BY <1>1, QuietTurns
<1>3. {"insert", "lookup"} \subseteq Steps \ ({"idle"} \cup Holding)
      /\ {"insert", "lookup"} \subseteq Early /\ "lookup" \notin Hydrating
  BY DEF Steps, AwaitingSteps, Holding, Early, Hydrating
<1>4. "notInHcm" \in Answers /\ "notInHcm" \notin Refusals
  BY DEF Answers, Refusals
<1>5. CASE AskHcm(p)
  <2>1. pc[p] = "askHcm" /\ pc[p] \in Hydrating
    BY <1>5 DEF AskHcm, Hydrating
  <2>2. CASE trying[p] \in HcmKnows
    BY <1>2, <1>3, <1>5, <2>1, <2>2, StepEffects DEF AskHcm
  <2>3. CASE trying[p] \notin HcmKnows
    BY <1>2, <1>5, <2>1, <2>3, TryNextEffects DEF AskHcm
  <2> QED  BY <2>2, <2>3
<1>6. CASE AskSync(p)
  BY <1>2, <1>3, <1>4, <1>6, StepEffects, FinishEffects DEF AskSync
<1> QED  BY <1>5, <1>6

\* The cache is looked at.
LEMMA LookupEffects ==
    ASSUME TypedInv, NEW p \in Slots, Lookup(p)
    PROVE  Effects(p)
<1>1. /\ pc[p] = "lookup" /\ pc[p] \notin {"idle", "invalidate"} /\ pc[p] \in Early
      /\ UNCHANGED <<db, now, calls, faults, hist>>
  BY DEF Lookup, Early
<1>2. Entities \subseteq Entities' /\ Entries' = Entries
  BY <1>1, SameStamps DEF hist
<1>3. Name(p) \in Names /\ Proper(p)
  BY <1>1, BusyNames DEF TypedInv
<1>4. ASSUME Servable(Name(p)), Use(p, cache[Name(p)].entity), UNCHANGED cache
      PROVE  Effects(p)
  <2>1. cache[Name(p)] # Nothing /\ cache[Name(p)].entity \in Entities
    BY <1>3, <1>4 DEF Servable, TypedInv, RegsTyped, Entries
  <2> DEFINE e == cache[Name(p)].entity
  <2> HIDE DEF e
  <2>2. e \in Entities /\ Use(p, e)
    BY <1>4, <2>1 DEF e
  <2>3. /\ Turn(p) /\ pc'[p] \in {"idle", "saveRequest", "reconRead"}
        /\ entity'[p] \in {Nothing, entity[p]}
        /\ told'[p].age = Age(e.stamp) /\ told'[p].answer \in {"none", "ok"}
    BY <1>1, <1>2, <1>3, <2>2, UseTurns DEF TypedInv
  <2>4. pc'[p] \notin Holding /\ pc'[p] \notin Hydrating
    BY <2>3 DEF Holding, Hydrating
  <2>5. Tells(p)
    <3>1. told'[p].answer \notin Refusals
      BY <2>3 DEF Refusals
    <3>2. told'[p].age = Age(cache[Name(p)].entity.stamp)
      BY <2>3 DEF e
    <3> QED  BY <1>3, <1>4, <3>1, <3>2 DEF Tells
  <2>6. Quiet
    BY <1>1, <1>4, QuietTurns
  <2> QED  BY <1>1, <1>3, <2>1, <2>3, <2>4, <2>5, <2>6, QuietEffects
<1>5. ASSUME cache' = [cache EXCEPT ![Name(p)] = Nothing],
             Goto(p, "balRead"), UNCHANGED <<call, trying, entity, told>>
      PROVE  Effects(p)
  <2>1. "balRead" \in Steps \ {"idle"} /\ "balRead" \notin Hydrating \cup Holding
        /\ "balRead" \in Early
    BY DEF Steps, AwaitingSteps, Hydrating, Holding, Early
  <2>2. Turn(p) /\ pc'[p] = "balRead"
    BY <1>1, <1>2, <1>3, <1>5, <2>1, StepTurns DEF TypedInv
  <2>3. UNCHANGED <<table, status, now, calls, faults, endings, writer, overlapped>>
    BY <1>1 DEF db, hist
  <2>4. Reads(p)
    BY <1>5, <2>1, <2>2, <2>3 DEF Reads
  <2>5. Caches(p)
    BY <1>1, <1>2, <1>5 DEF Caches, TypedInv, RegsTyped
  <2>6. Tells(p) /\ Decides(p)
    BY <1>5, <2>1, <2>2, <2>3, TellsNothing DEF Decides, TypedInv, DataTyped
  <2>7. Counts(p)
    BY <1>1, <2>3 DEF Counts, TypedInv, DataTyped
  <2> QED  BY <2>2, <2>4, <2>5, <2>6, <2>7 DEF Effects, Writes
<1> QED  BY <1>4, <1>5 DEF Lookup

-----------------------------------------------------------------------------
(* The effects of each step that writes.                                     *)

\* A new stamp is one above all others.
LEMMA NewStampIs ==
    ASSUME DataTyped
    PROVE  NewStamp \in 1..(Len(endings) + 1) /\ NewStamp \notin Stamps /\ NewStamp # Nothing
BY NothingAssumption DEF DataTyped, NewStamp, Stamps

\* hydrateBalanceFromHCM saves what the HCM answered.
LEMMA InsertEffects ==
    ASSUME TypedInv, NEW p \in Slots, Insert(p)
    PROVE  Effects(p)
<1> DEFINE n == <<trying[p], Name(p)[2]>>
<1>1. /\ pc[p] = "insert" /\ pc[p] # "idle" /\ pc[p] # "invalidate"
      /\ pc[p] \in Hydrating /\ pc[p] \in Early
      /\ UNCHANGED <<status, cache, now, calls, faults, writer, overlapped>>
  BY DEF Insert, Hydrating, Early
<1>2. Proper(p) /\ trying[p] \in Spellings /\ Name(p)[2] \in Years
  BY <1>1, BusyNames DEF TypedInv, Proper
<1>3. n \in Names
  BY <1>2 DEF Names
<1>4. \/ /\ table[n] = Nothing
         /\ Save(n, NewStamp)
         /\ Hold(p, [row |-> n, stamp |-> NewStamp])
         /\ Goto(p, IF call[p].kind = "create" THEN "lookup" ELSE "fill")
         /\ UNCHANGED <<call, trying, told>>
      \/ /\ table[n] # Nothing
         /\ TryNext(p)
         /\ UNCHANGED <<table, endings>>
  BY DEF Insert
<1> HIDE DEF n
<1>5. CASE /\ table[n] = Nothing
           /\ Save(n, NewStamp)
           /\ Hold(p, [row |-> n, stamp |-> NewStamp])
           /\ Goto(p, IF call[p].kind = "create" THEN "lookup" ELSE "fill")
           /\ UNCHANGED <<call, trying, told>>
  <2> DEFINE e == [row |-> n, stamp |-> NewStamp]
             step == IF call[p].kind = "create" THEN "lookup" ELSE "fill"
  <2>1. NewStamp \in 1..(Len(endings) + 1)
    BY NewStampIs DEF TypedInv
  <2>2. /\ endings' \in Seq(0..MaxTime \cup {Nothing})
        /\ Len(endings) <= Len(endings') /\ NewStamp <= Len(endings')
    BY <1>3, <1>5, <2>1, SaveEffect DEF TypedInv
  <2>3. Entities \subseteq Entities' /\ Entries \subseteq Entries'
    BY <2>2, StampsGrow DEF TypedInv
  <2>4. NewStamp \in Stamps'
    BY <2>1, <2>2 DEF Stamps, TypedInv, DataTyped
  <2>5. e \in Entities'
    BY <1>3, <2>4 DEF Entities
  <2>6. e # Nothing
    <3>1. e \in [row : Names, stamp : Int]
      BY <1>3, <2>1
    <3> QED  BY <3>1, NothingAssumption
  <2>7. entity' = [entity EXCEPT ![p] = e]
    BY <1>5 DEF Hold
  <2>8. step \in Steps \ {"idle"} /\ step \notin Hydrating /\ Goto(p, step)
    BY <1>5 DEF Steps, Hydrating
  <2> HIDE DEF e, step
  <2>9. /\ entity' \in [Slots -> Entities' \cup {Nothing}] /\ entity'[p] = e
        /\ \A q \in Slots : q # p => entity'[q] = entity[q]
        /\ trying' \in [Slots -> Spellings \cup {Nothing}] /\ told' \in [Slots -> Tellings]
    BY <1>5, <2>3, <2>5, <2>7 DEF TypedInv, RegsTyped
  <2>10. Turn(p) /\ pc'[p] = step
    BY <1>1, <1>2, <1>5, <2>3, <2>6, <2>8, <2>9, GoingOnTurns DEF TypedInv
  <2>11. Inserts(p)
    <3>1. entity'[p] = [row |-> n, stamp |-> NewStamp] /\ n[1] = trying[p]
      BY <2>9 DEF e, n
    <3> QED  BY <1>1, <1>3, <1>5, <2>8, <2>10, <3>1 DEF Inserts
  <2>12. Caches(p)
    BY <1>1, <2>3 DEF Caches, TypedInv, RegsTyped
  <2>13. Tells(p) /\ Decides(p)
    BY <1>1, <1>5, <2>11, TellsNothing DEF Decides, TypedInv, DataTyped
  <2>14. Counts(p)
    BY <1>1 DEF Counts, TypedInv, DataTyped
  <2> QED  BY <2>10, <2>11, <2>12, <2>13, <2>14 DEF Effects, Writes
<1>6. CASE table[n] # Nothing /\ TryNext(p) /\ UNCHANGED <<table, endings>>
  <2>1. Stored # {}
    BY <1>3, <1>6 DEF Stored
  <2>2. Quiet /\ Entities \subseteq Entities'
    BY <1>1, <1>6, SameStamps DEF Quiet, TypedInv, DataTyped
  <2> QED  BY <1>1, <1>6, <2>1, <2>2, TryNextEffects
<1> QED  BY <1>4, <1>5, <1>6

\* The entity held goes into the cache under the name asked for.
LEMMA FillCaches ==
    ASSUME TypedInv, NEW p \in Slots, pc[p] \in {"fill", "refreshFill"}, UNCHANGED endings,
           SetInCache(Name(p), entity[p])
    PROVE  Caches(p) /\ entity[p] \in Entities
<1>1. pc[p] \in Holding /\ pc[p] # "invalidate" /\ pc[p] # "idle"
  BY DEF Holding
<1>2. entity[p] \in Entities /\ Name(p) \in Names
  BY <1>1, BusyNames DEF TypedInv, RegsTyped, Proper
<1> DEFINE entry == [entity |-> entity[p], expires |-> now + Ttl]
<1>3. now + Ttl \in 0..(MaxTime + Ttl)
  BY TimeAssumption DEF TypedInv, DataTyped
<1>4. entry \in Entries' /\ Entries' = Entries
  BY <1>2, <1>3, SameStamps DEF Entries
<1>5. cache' = [cache EXCEPT ![Name(p)] = entry]
  BY DEF SetInCache
<1> HIDE DEF entry
<1>6. /\ cache' \in [Names -> Entries' \cup {Nothing}]
      /\ cache'[Name(p)] = entry /\ \A n \in Names : n # Name(p) => cache'[n] = cache[n]
  BY <1>2, <1>4, <1>5 DEF TypedInv, RegsTyped
<1> QED  BY <1>1, <1>2, <1>6 DEF Caches, entry

\* What a read fetched is cached and told.
LEMMA FillEffects ==
    ASSUME TypedInv, NEW p \in Slots, Fill(p)
    PROVE  Effects(p)
<1>1. /\ pc[p] = "fill" /\ pc[p] \in Holding /\ pc[p] \notin Early /\ pc[p] # "invalidate"
      /\ SetInCache(Name(p), entity[p]) /\ Use(p, entity[p])
      /\ UNCHANGED <<db, now, calls, faults, hist>>
  BY DEF Fill, Holding, Early
<1>2. UNCHANGED <<table, status, now, calls, faults, endings, writer, overlapped>>
  BY <1>1 DEF db, hist
<1>3. Entities \subseteq Entities'
  BY <1>2, SameStamps
<1>4. Caches(p) /\ entity[p] \in Entities
  BY <1>1, <1>2, FillCaches
<1>5. /\ Turn(p) /\ pc'[p] \in {"idle", "saveRequest", "reconRead"}
      /\ entity'[p] \in {Nothing, entity[p]}
      /\ told'[p].age = Age(entity[p].stamp) /\ told'[p].answer \in {"none", "ok"}
  BY <1>1, <1>3, <1>4, UseTurns DEF TypedInv
<1>6. pc'[p] \notin Holding /\ pc'[p] \notin Hydrating
  BY <1>5 DEF Holding, Hydrating
<1>7. Reads(p)
  BY <1>2, <1>5, <1>6 DEF Reads
<1>8. Tells(p)
  BY <1>1, <1>5 DEF Tells
<1>9. Decides(p) /\ Counts(p)
  BY <1>1, <1>2 DEF Decides, Counts, TypedInv, DataTyped
<1> QED  BY <1>4, <1>5, <1>7, <1>8, <1>9 DEF Effects, Writes

\* What a refresh saved is cached, and the approval judged on it.
LEMMA RefreshFillEffects ==
    ASSUME TypedInv, NEW p \in Slots, RefreshFill(p)
    PROVE  Effects(p)
<1>1. /\ pc[p] = "refreshFill" /\ pc[p] \in Holding /\ pc[p] \notin Early
      /\ pc[p] # "invalidate" /\ pc[p] # "idle" /\ Proper(p)
      /\ SetInCache(Name(p), entity[p])
      /\ UNCHANGED <<db, now, calls, faults, hist>>
  BY DEF RefreshFill, Holding, Early, TypedInv
<1>2. UNCHANGED <<table, status, now, calls, faults, endings, writer, overlapped>>
  BY <1>1 DEF db, hist
<1>3. Entities \subseteq Entities'
  BY <1>2, SameStamps
<1>4. Caches(p)
  BY <1>1, <1>2, FillCaches
<1>5. Decides(p) /\ Counts(p)
  BY <1>1, <1>2 DEF Decides, Counts, TypedInv, DataTyped
<1>6. CASE Goto(p, "moveRead") /\ UNCHANGED <<call, trying, entity, told>>
  <2>1. "moveRead" \in Steps \ {"idle"} /\ "moveRead" \notin Hydrating \cup Holding
    BY DEF Steps, AwaitingSteps, Hydrating, Holding
  <2>2. Turn(p) /\ pc'[p] = "moveRead"
    BY <1>1, <1>3, <1>6, <2>1, StepTurns DEF TypedInv
  <2>3. Reads(p) /\ Tells(p)
    BY <1>2, <1>6, <2>1, <2>2, TellsNothing DEF Reads
  <2> QED  BY <1>4, <1>5, <2>2, <2>3 DEF Effects, Writes
<1>7. CASE Finish(p, "insufficient")
  <2>1. "insufficient" \in Answers /\ "insufficient" \notin Refusals /\ "idle" \notin Hydrating
    BY DEF Answers, Refusals, Hydrating
  <2>2. /\ Turn(p) /\ pc'[p] = "idle" /\ entity'[p] = Nothing
        /\ told'[p].answer = "insufficient" /\ told'[p].age = told[p].age
    BY <1>3, <1>7, <2>1, FinishTurns DEF TypedInv
  <2>3. Reads(p) /\ Tells(p)
    BY <1>2, <2>1, <2>2 DEF Reads, Tells
  <2> QED  BY <1>4, <1>5, <2>2, <2>3 DEF Effects, Writes
<1> QED  BY <1>6, <1>7 DEF RefreshFill

\* The decisions on requests are saved.
LEMMA StatusEffects ==
    ASSUME TypedInv, NEW p \in Slots, SaveCreated(p) \/ SaveDecision(p)
    PROVE  Effects(p)
<1>1. /\ pc[p] \in {"saveRequest", "saveDecision"}
      /\ UNCHANGED <<table, cache, now, calls, faults, hist>>
  BY DEF SaveCreated, SaveDecision
<1>2. pc[p] \notin Early /\ pc[p] # "invalidate" /\ pc[p] # "idle" /\ Proper(p)
  BY <1>1 DEF Early, TypedInv
<1>3. UNCHANGED <<table, endings, writer, overlapped, cache, now, calls, faults>>
  BY <1>1 DEF hist
<1>4. Entities \subseteq Entities' /\ Entries' = Entries
  BY <1>3, SameStamps
<1>5. \E a \in {"ok", "insufficient"} : Finish(p, a)
  BY DEF SaveCreated, SaveDecision
<1>6. status' \in [Requests -> {"NONE", "PENDING", "APPROVED", "CANCELLED"}]
  BY DEF SaveCreated, SaveDecision, TypedInv, DataTyped
<1>7. PICK a \in {"ok", "insufficient"} : Finish(p, a)
  BY <1>5
<1>8. a \in Answers /\ a \notin Refusals /\ "idle" \notin Hydrating
  BY DEF Answers, Refusals, Hydrating
<1>9. /\ Turn(p) /\ pc'[p] = "idle" /\ entity'[p] = Nothing
      /\ told'[p].answer = a /\ told'[p].age = told[p].age
  BY <1>4, <1>7, <1>8, FinishTurns DEF TypedInv
<1>10. Reads(p) /\ Tells(p)
  BY <1>3, <1>8, <1>9 DEF Reads, Tells
<1>11. Caches(p)
  BY <1>2, <1>3, <1>4 DEF Caches, TypedInv, RegsTyped
<1>12. Decides(p) /\ Counts(p)
  BY <1>2, <1>3, <1>6 DEF Decides, Counts, TypedInv, DataTyped
<1> QED  BY <1>9, <1>10, <1>11, <1>12 DEF Effects, Writes

\* The cache is cleared of the caller's spelling.
LEMMA InvalidateEffects ==
    ASSUME TypedInv, NEW p \in Slots, Invalidate(p)
    PROVE  Effects(p)
<1>1. /\ pc[p] = "invalidate" /\ pc[p] \notin Early /\ pc[p] # "idle" /\ Proper(p)
      /\ cache' = [n \in Names |-> IF n \in Invalidated(Spelling(p)) THEN Nothing ELSE cache[n]]
      /\ Goto(p, "saveDecision")
      /\ UNCHANGED <<db, call, trying, entity, told, now, calls, faults, hist>>
  BY DEF Invalidate, Early, TypedInv
<1>2. UNCHANGED <<table, status, now, calls, faults, endings, writer, overlapped>>
      /\ UNCHANGED <<call, trying, entity, told>>
  BY <1>1 DEF db, hist
<1>3. Entities \subseteq Entities' /\ Entries' = Entries
  BY <1>2, SameStamps
<1>4. "saveDecision" \in Steps \ {"idle"} /\ "saveDecision" \notin Hydrating \cup Holding
  BY DEF Steps, AwaitingSteps, Hydrating, Holding
<1>5. Turn(p) /\ pc'[p] = "saveDecision"
  BY <1>1, <1>2, <1>3, <1>4, StepTurns DEF TypedInv
<1>6. Reads(p) /\ Tells(p)
  BY <1>2, <1>4, <1>5, TellsNothing DEF Reads
<1>7. \A n \in Names : n[1] = Spelling(p) => n \in Invalidated(Spelling(p))
  BY DEF Invalidated
<1>8. \A n \in Names : cache'[n] \in {cache[n], Nothing}
  BY <1>1
<1>9. cache' \in [Names -> Entries' \cup {Nothing}]
  BY <1>1, <1>3 DEF TypedInv, RegsTyped
<1>10. \A n \in Names : n[1] = Spelling(p) => cache'[n] = Nothing
  BY <1>1, <1>7
<1>11. Caches(p)
  BY <1>8, <1>9, <1>10 DEF Caches
<1>12. Decides(p) /\ Counts(p)
  BY <1>1, <1>2 DEF Decides, Counts, TypedInv, DataTyped
<1> QED  BY <1>5, <1>6, <1>11, <1>12 DEF Effects, Writes

\* What the three saves of a held entity have in common.
LEMMA SavingHeld ==
    ASSUME TypedInv, NEW p \in Slots, pc[p] \in {"refreshSave", "moveSave", "reconSave"},
           NEW stamp, stamp = NewStamp \/ stamp = entity[p].stamp, Save(entity[p].row, stamp)
    PROVE  /\ entity[p] \in Entities /\ entity[p].row \in Names
           /\ stamp \in 1..(Len(endings) + 1)
           /\ Entities \subseteq Entities' /\ Entries \subseteq Entries'
<1>1. pc[p] \in Holding
  BY DEF Holding
<1>2. entity[p] \in Entities
  BY <1>1 DEF TypedInv, RegsTyped, Proper
<1>3. entity[p].row \in Names /\ entity[p].stamp \in Stamps
  BY <1>2 DEF Entities
<1>4. stamp \in 1..(Len(endings) + 1)
  <2>1. \A i \in Stamps : i \in 1..(Len(endings) + 1)
    BY DEF Stamps, TypedInv, DataTyped
  <2> QED  BY <1>3, <2>1, NewStampIs DEF TypedInv
<1>5. endings' \in Seq(0..MaxTime \cup {Nothing}) /\ Len(endings) <= Len(endings')
  BY <1>3, <1>4, SaveEffect DEF TypedInv
<1>6. Entities \subseteq Entities' /\ Entries \subseteq Entries'
  BY <1>5, StampsGrow DEF TypedInv
<1> QED  BY <1>2, <1>3, <1>4, <1>6

\* The refresh saves the entity as it was read.
LEMMA RefreshSaveEffects ==
    ASSUME TypedInv, NEW p \in Slots, RefreshSave(p)
    PROVE  Effects(p)
<1>1. /\ pc[p] = "refreshSave" /\ pc[p] \notin Early /\ pc[p] \notin {"idle", "invalidate"}
      /\ pc[p] \in Holding /\ Proper(p)
      /\ Save(entity[p].row, entity[p].stamp) /\ Goto(p, "refreshFill")
      /\ UNCHANGED <<status, cache, call, trying, entity, told, now, calls, faults,
                     writer, overlapped>>
  BY DEF RefreshSave, Early, Holding, TypedInv
<1>2. Entities \subseteq Entities' /\ Entries \subseteq Entries' /\ entity[p] # Nothing
  BY <1>1, SavingHeld DEF Proper
<1>3. "refreshFill" \in Steps \ {"idle"} /\ "refreshFill" \notin Hydrating
  BY DEF Steps, Hydrating
<1>4. Turn(p) /\ pc'[p] = "refreshFill"
  BY <1>1, <1>2, <1>3, StepTurns DEF TypedInv
<1>5. PutsBack(p)
  BY <1>1, <1>4 DEF PutsBack
<1>6. Caches(p)
  BY <1>1, <1>2 DEF Caches, TypedInv, RegsTyped
<1>7. Tells(p)
  BY <1>1, TellsNothing
<1>8. Decides(p) /\ Counts(p)
  BY <1>1 DEF Decides, Counts, TypedInv, DataTyped
<1> QED  BY <1>4, <1>5, <1>6, <1>7, <1>8 DEF Effects, Writes

\* A deduction or a refund moves the balance.
LEMMA MoveSaveEffects ==
    ASSUME TypedInv, NEW p \in Slots, MoveSave(p)
    PROVE  Effects(p)
<1>1. /\ pc[p] = "moveSave" /\ pc[p] \notin Early /\ pc[p] \notin {"idle", "invalidate"}
      /\ Proper(p)
      /\ Save(entity[p].row, NewStamp) /\ Goto(p, "invalidate") /\ writer' = Spelling(p)
      /\ UNCHANGED <<status, cache, call, trying, entity, told, now, calls, faults, overlapped>>
  BY DEF MoveSave, Early, TypedInv
<1>2. Entities \subseteq Entities' /\ Entries \subseteq Entries'
  BY <1>1, SavingHeld
<1>3. "invalidate" \in Steps \ {"idle"} /\ "invalidate" \notin Hydrating \cup Holding
  BY DEF Steps, Hydrating, Holding
<1>4. Turn(p) /\ pc'[p] = "invalidate" /\ call'[p] = call[p]
  BY <1>1, <1>2, <1>3, StepTurns DEF TypedInv
<1>5. Spelling(p) \in Spellings /\ Spelling(p)' = Spelling(p)
  BY <1>1, <1>4, BusyNames DEF TypedInv, Spelling, Name
<1>6. Renumbers(p)
  BY <1>1, <1>4, <1>5 DEF Renumbers
<1>7. Caches(p)
  BY <1>1, <1>2 DEF Caches, TypedInv, RegsTyped
<1>8. Tells(p)
  BY <1>1, TellsNothing
<1>9. Decides(p) /\ Counts(p)
  BY <1>1 DEF Decides, Counts, TypedInv, DataTyped
<1> QED  BY <1>4, <1>6, <1>7, <1>8, <1>9 DEF Effects, Writes

\* A sync takes over the HCM's numbers.
LEMMA ReconSaveEffects ==
    ASSUME TypedInv, NEW p \in Slots, ReconSave(p)
    PROVE  Effects(p)
<1>1. /\ pc[p] = "reconSave" /\ pc[p] \notin Early /\ pc[p] \notin {"idle", "invalidate"}
      /\ Save(entity[p].row, NewStamp) /\ Finish(p, "ok") /\ writer' = Nothing
      /\ UNCHANGED <<status, cache, now, calls, faults, overlapped>>
  BY DEF ReconSave, Early
<1>2. Entities \subseteq Entities' /\ Entries \subseteq Entries'
  BY <1>1, SavingHeld
<1>3. "ok" \in Answers /\ "ok" \notin Refusals
  BY DEF Answers, Refusals
<1>4. /\ Turn(p) /\ pc'[p] = "idle" /\ entity'[p] = Nothing
      /\ told'[p].answer = "ok" /\ told'[p].age = told[p].age
  BY <1>1, <1>2, <1>3, FinishTurns DEF TypedInv
<1>5. Renumbers(p)
  BY <1>1, <1>4 DEF Renumbers
<1>6. Caches(p)
  BY <1>1, <1>2 DEF Caches, TypedInv, RegsTyped
<1>7. Tells(p)
  BY <1>3, <1>4 DEF Tells
<1>8. Decides(p) /\ Counts(p)
  BY <1>1 DEF Decides, Counts, TypedInv, DataTyped
<1> QED  BY <1>4, <1>5, <1>6, <1>7, <1>8 DEF Effects, Writes

\* Something fails: hydration goes on, whoever else asked gives up.
LEMMA FaultEffects ==
    ASSUME TypedInv, NEW p \in Slots, Fault(p)
    PROVE  Effects(p)
<1>1. /\ pc[p] \in AwaitingSteps /\ faults < MaxFaults /\ faults' = faults + 1
      /\ UNCHANGED <<db, cache, now, calls, hist>>
  BY DEF Fault
<1>2. pc[p] \notin {"idle", "invalidate"}
  BY <1>1 DEF AwaitingSteps
<1>3. UNCHANGED <<table, status, cache, now, calls, endings, writer, overlapped>>
  BY <1>1 DEF db, hist
<1>4. faults \in Nat /\ MaxFaults \in Nat
  BY BoundsAssumption DEF TypedInv, DataTyped
<1>5. Quiet /\ faults < faults'
  BY <1>1, <1>3, <1>4 DEF Quiet
<1>6. Entities \subseteq Entities'
  BY <1>3, SameStamps
<1>7. CASE pc[p] \in Hydrating
  <2>1. TryNext(p)
    BY <1>7 DEF Fault, Hydrating
  <2> QED  BY <1>5, <1>6, <1>7, <2>1, TryNextEffects
<1>8. CASE pc[p] \notin Hydrating
  <2>1. Finish(p, "error")
    BY <1>8 DEF Fault, Hydrating
  <2>2. "error" \in Answers /\ "error" \notin Refusals
    BY DEF Answers, Refusals
  <2> QED  BY <1>2, <1>5, <1>6, <2>1, <2>2, FinishEffects
<1> QED  BY <1>7, <1>8

-----------------------------------------------------------------------------
(* The effects of a new call.                                                *)

\* A new call holds no entity; if it skips its checks, its request exists.
LEMMA BeginEffects ==
    ASSUME TypedInv, NEW p \in Slots, NEW c \in Calls, NEW step \in Steps \ {"idle"},
           step \notin Holding \cup Hydrating, Begin(p, c, step),
           step \in Early \/ \E r \in Requests : status[r] # "NONE"
    PROVE  Effects(p)
<1>1. /\ pc[p] = "idle" /\ pc[p] \in Early /\ calls < MaxCalls /\ calls' = calls + 1
      /\ pc' = [pc EXCEPT ![p] = step] /\ call' = [call EXCEPT ![p] = c]
      /\ told' = [told EXCEPT ![p] = ToldNothing]
      /\ overlapped' = (overlapped \/ \E q \in Slots : pc[q] # "idle")
      /\ UNCHANGED <<db, cache, trying, entity, now, faults, endings, writer>>
  BY DEF Begin, Goto, Early
<1>2. UNCHANGED <<table, status, cache, trying, entity, now, faults, endings, writer>>
  BY <1>1 DEF db
<1>3. Entities' = Entities /\ Entries' = Entries
  BY <1>2, SameStamps
<1>4. ToldNothing \in Tellings /\ ToldNothing.age = 0 /\ ToldNothing.answer = "none"
  BY DEF ToldNothing, Tellings, Answers
<1>5. c # NoCall
  <2>1. c.kind \in Kinds
    BY DEF Calls
  <2> QED  BY <2>1 DEF NoCall, Kinds
<1> HIDE DEF ToldNothing, NoCall
<1>6. /\ pc' \in [Slots -> Steps] /\ call' \in [Slots -> Calls \cup {NoCall}]
      /\ told' \in [Slots -> Tellings]
      /\ pc'[p] = step /\ call'[p] = c /\ told'[p] = ToldNothing
      /\ \A q \in Slots : q # p => /\ pc'[q] = pc[q] /\ call'[q] = call[q]
                                   /\ told'[q] = told[q]
  BY <1>1, <1>4 DEF TypedInv, RegsTyped
<1>7. Proper(p)'
  BY <1>5, <1>6 DEF Proper
<1>8. Turn(p)
  BY <1>2, <1>3, <1>6, <1>7 DEF Turn, TypedInv, RegsTyped
<1>9. Reads(p)
  BY <1>2, <1>6 DEF Reads
<1>10. Caches(p)
  BY <1>1, <1>2, <1>3 DEF Caches, TypedInv, RegsTyped
<1>11. Tells(p)
  BY <1>4, <1>6 DEF Tells, Refusals
<1>12. Decides(p)
  BY <1>2, <1>6 DEF Decides, TypedInv, DataTyped
<1>13. Counts(p)
  <2>1. calls' \in 0..MaxCalls
    BY <1>1, BoundsAssumption DEF TypedInv, DataTyped
  <2>2. overlapped' = (overlapped \/ (pc[p] = "idle" /\ \E q \in Slots : pc[q] # "idle"))
    BY <1>1
  <2> QED  BY <1>2, <2>1, <2>2 DEF Counts, TypedInv, DataTyped
<1> QED  BY <1>8, <1>9, <1>10, <1>11, <1>12, <1>13 DEF Effects, Writes

\* Every kind of call begins at a step that needs nothing yet.
LEMMA StartEffects ==
    ASSUME TypedInv, NEW p \in Slots, Start(p)
    PROVE  Effects(p)
<1>1. {"lookup", "askSync", "dimRead", "refreshRead", "moveRead"}
         \subseteq Steps \ ({"idle"} \cup Holding \cup Hydrating)
      /\ {"lookup", "askSync", "dimRead"} \subseteq Early
  BY DEF Steps, AwaitingSteps, Holding, Hydrating, Early
<1>2. \A s \in Spellings : <<s, ThisYear>> \in Names
  BY YearsAssumption DEF Names
<1>3. CASE StartGet(p)
  <2>1. PICK n \in Names : Begin(p, [kind |-> "get", name |-> n, req |-> Nothing], "lookup")
    BY <1>3 DEF StartGet
  <2>2. [kind |-> "get", name |-> n, req |-> Nothing] \in Calls
    BY DEF Calls, Kinds
  <2> QED  BY <1>1, <2>1, <2>2, BeginEffects
<1>4. CASE StartSync(p)
  <2>1. PICK s \in Spellings :
           Begin(p, [kind |-> "sync", name |-> <<s, ThisYear>>, req |-> Nothing], "askSync")
    BY <1>4 DEF StartSync
  <2>2. [kind |-> "sync", name |-> <<s, ThisYear>>, req |-> Nothing] \in Calls
    BY <1>2 DEF Calls, Kinds
  <2> QED  BY <1>1, <2>1, <2>2, BeginEffects
<1>5. ASSUME NEW kind \in {"create", "approve", "cancel"}, NEW from,
             NEW step \in {"dimRead", "refreshRead", "moveRead"},
             StartRequest(p, kind, from, step), from # "NONE" \/ step = "dimRead"
      PROVE  Effects(p)
  <2>1. PICK r \in Requests :
           /\ status[r] = from
           /\ Begin(p, [kind |-> kind, name |-> <<SpellingOf[r], ThisYear>>, req |-> r], step)
    BY <1>5 DEF StartRequest
  <2>2. <<SpellingOf[r], ThisYear>> \in Names
    BY <1>2, SpellingsAssumption
  <2>3. [kind |-> kind, name |-> <<SpellingOf[r], ThisYear>>, req |-> r] \in Calls
    BY <2>2 DEF Calls, Kinds
  <2>4. step \in Early \/ \E x \in Requests : status[x] # "NONE"
    BY <1>1, <1>5, <2>1
  <2> QED  BY <1>1, <2>1, <2>3, <2>4, BeginEffects
<1>6. CASE StartCreate(p)
  BY <1>5, <1>6 DEF StartCreate
<1>7. CASE StartApprove(p)
  BY <1>5, <1>7 DEF StartApprove
<1>8. CASE StartCancel(p)
  BY <1>5, <1>8 DEF StartCancel
<1> QED  BY <1>3, <1>4, <1>6, <1>7, <1>8 DEF Start

\* Whatever a slot does has the effects of a turn.
LEMMA TurnsHaveEffects ==
    ASSUME TypedInv, NEW p \in Slots, Start(p) \/ Step(p) \/ Fault(p)
    PROVE  Effects(p)
<1>1. CASE Start(p)
  BY <1>1, StartEffects
<1>2. CASE Fault(p)
  BY <1>2, FaultEffects
<1>3. CASE Step(p)
  BY <1>3, ReadingSteps, AskingSteps, LookupEffects, InsertEffects, FillEffects,
     RefreshFillEffects, StatusEffects, InvalidateEffects, RefreshSaveEffects,
     MoveSaveEffects, ReconSaveEffects DEF Step
<1> QED  BY <1>1, <1>2, <1>3

-----------------------------------------------------------------------------
(* Type correctness.                                                         *)

\* What any turn may do to the rows and to the endings of their numbers.
LEMMA WritesTyped ==
    ASSUME TypedInv, NEW p \in Slots, Writes(p)
    PROVE  /\ table' \in [Names -> Stamps' \cup {Nothing}]
           /\ endings' \in Seq(0..MaxTime \cup {Nothing})
           /\ Len(endings) <= Len(endings')
           /\ writer' \in Spellings \cup {Nothing}
           /\ Stored \subseteq Stored' /\ (Inserts(p) => Stored' # {})
           /\ \A i \in Stamps : endings'[i] = endings[i] \/ endings'[i] \in {Nothing, now}
<1> USE DEF TypedInv
<1>1. ASSUME NEW n \in Names, NEW stamp \in 1..(Len(endings) + 1), Save(n, stamp)
      PROVE  /\ table' \in [Names -> Stamps' \cup {Nothing}]
             /\ endings' \in Seq(0..MaxTime \cup {Nothing})
             /\ Len(endings) <= Len(endings')
             /\ Stored \subseteq Stored' /\ Stored' # {}
             /\ \A i \in Stamps : endings'[i] = endings[i] \/ endings'[i] \in {Nothing, now}
  <2>1. stamp # Nothing
    BY NothingAssumption
  <2>2. table'[n] = stamp /\ \A m \in Names : m # n => table'[m] = table[m]
    BY <1>1, SaveEffect
  <2>3. Stored \subseteq Stored' /\ Stored' # {}
    BY <2>1, <2>2 DEF Stored
  <2>4. \A i \in Stamps : endings'[i] = endings[i] \/ endings'[i] \in {Nothing, now}
    <3> SUFFICES ASSUME NEW i \in Stamps
                 PROVE  endings'[i] = endings[i] \/ endings'[i] \in {Nothing, now}
      OBVIOUS
    <3>1. i # Nothing
      BY NothingAssumption DEF Stamps
    <3>2. CASE i = stamp
      BY <1>1, <3>2, SaveEffect
    <3>3. CASE i # stamp /\ i = table[n]
      BY <1>1, <3>1, <3>3, SaveEffect
    <3>4. CASE i # stamp /\ i # table[n]
      BY <1>1, <3>4, SaveEffect
    <3> QED  BY <3>2, <3>3, <3>4
  <2> QED  BY <1>1, <2>3, <2>4, SaveEffect
<1>2. writer \in Spellings \cup {Nothing}
  BY DEF DataTyped
<1>3. CASE Reads(p)
  <2>1. Stamps' = Stamps /\ Stored' = Stored
    BY <1>3, SameStamps DEF Reads, Stored
  <2>2. ~Inserts(p) \/ Stored' # {}
    <3> SUFFICES ASSUME Inserts(p) PROVE Stored' # {}
      OBVIOUS
    <3>1. PICK n \in Names : Save(n, NewStamp)
      BY DEF Inserts
    <3> QED  BY <1>1, <3>1, NewStampIs
  <2>3. Len(endings) <= Len(endings')
    BY <1>3 DEF Reads, DataTyped
  <2> QED  BY <1>2, <1>3, <2>1, <2>2, <2>3 DEF Reads, DataTyped
<1>4. CASE Inserts(p)
  <2>1. PICK n \in Names : Save(n, NewStamp)
    BY <1>4 DEF Inserts
  <2>2. writer' = writer
    BY <1>4 DEF Inserts
  <2> QED  BY <1>1, <1>2, <2>1, <2>2, NewStampIs
<1>5. CASE PutsBack(p)
  <2>1. pc[p] = "refreshSave" /\ Save(entity[p].row, entity[p].stamp) /\ writer' = writer
        /\ ~Inserts(p)
    BY <1>5 DEF PutsBack, Inserts
  <2>2. entity[p].row \in Names /\ entity[p].stamp \in 1..(Len(endings) + 1)
    BY <2>1, SavingHeld
  <2> QED  BY <1>1, <1>2, <2>1, <2>2
<1>6. CASE Renumbers(p)
  <2>1. pc[p] \in {"moveSave", "reconSave"} /\ Save(entity[p].row, NewStamp)
        /\ writer' \in Spellings \cup {Nothing} /\ ~Inserts(p)
    BY <1>6 DEF Renumbers, Inserts
  <2>2. entity[p].row \in Names
    BY <2>1, SavingHeld
  <2> QED  BY <1>1, <2>1, <2>2, NewStampIs
<1> QED  BY <1>3, <1>4, <1>5, <1>6 DEF Writes

\* The effects of a step keep the types.
LEMMA EffectsTyped ==
    ASSUME TypedInv, NEW p \in Slots, Effects(p)
    PROVE  TypedInv'
<1>1. DataTyped'
  BY WritesTyped DEF Effects, Decides, Counts, TypedInv, DataTyped
<1>2. RegsTyped'
  BY DEF Effects, Turn, Caches, RegsTyped
<1>3. \A q \in Slots : Proper(q)'
  <2> SUFFICES ASSUME NEW q \in Slots PROVE Proper(q)'
    OBVIOUS
  <2>1. CASE q = p
    BY <2>1 DEF Effects, Turn
  <2>2. CASE q # p
    BY <2>2 DEF Effects, Turn, TypedInv, Proper
  <2> QED  BY <2>1, <2>2
<1> QED  BY <1>1, <1>2, <1>3 DEF TypedInv

\* Nothing is stored, cached or on its way at first.
LEMMA InitTyped == Init => TypedInv
<1> SUFFICES ASSUME Init PROVE TypedInv
  OBVIOUS
<1>1. DataTyped
  <2>1. now \in 0..MaxTime /\ calls \in 0..MaxCalls /\ faults \in 0..MaxFaults
    BY TimeAssumption, BoundsAssumption DEF Init
  <2>2. endings \in Seq(0..MaxTime \cup {Nothing})
    BY DEF Init
  <2>3. table \in [Names -> Stamps \cup {Nothing}]
        /\ status \in [Requests -> {"NONE", "PENDING", "APPROVED", "CANCELLED"}]
    BY DEF Init
  <2>4. writer \in Spellings \cup {Nothing} /\ overlapped \in BOOLEAN
    BY DEF Init
  <2> QED  BY <2>1, <2>2, <2>3, <2>4 DEF DataTyped
<1>2. "idle" \in Steps /\ ToldNothing \in Tellings
  BY DEF Steps, ToldNothing, Tellings, Answers
<1>3. RegsTyped
  BY <1>2 DEF Init, RegsTyped
<1>4. \A p \in Slots : Proper(p)
  BY DEF Init, Proper, Hydrating, Holding
<1> QED  BY <1>1, <1>3, <1>4 DEF TypedInv

\* A crash empties everything but the database.
LEMMA CrashTyped ==
    ASSUME TypedInv, Crash
    PROVE  /\ TypedInv' /\ UNCHANGED <<table, status, now, endings, writer, overlapped>>
           /\ faults < faults'
<1>1. UNCHANGED <<table, status, now, calls, endings, writer, overlapped>>
  BY DEF Crash, db, hist
<1>2. faults < faults' /\ faults' \in 0..MaxFaults
  BY BoundsAssumption DEF Crash, TypedInv, DataTyped
<1>3. DataTyped'
  BY <1>1, <1>2, SameStamps DEF TypedInv, DataTyped
<1>4. "idle" \in Steps /\ ToldNothing \in Tellings
  BY DEF Steps, ToldNothing, Tellings, Answers
<1>5. RegsTyped'
  BY <1>4 DEF Crash, RegsTyped
<1>6. \A p \in Slots : Proper(p)'
  BY DEF Crash, Proper, Hydrating, Holding
<1> QED  BY <1>1, <1>2, <1>3, <1>5, <1>6 DEF TypedInv

\* Time passes, or nothing happens.
LEMMA IdleTyped ==
    ASSUME TypedInv, now' \in 0..MaxTime,
           UNCHANGED <<db, cache, regs, calls, faults, hist>>
    PROVE  /\ TypedInv'
           /\ UNCHANGED <<table, status, cache, pc, call, trying, entity, told, calls, faults,
                          endings, writer, overlapped>>
<1>1. UNCHANGED <<table, status, cache, pc, call, trying, entity, told, calls, faults,
                  endings, writer, overlapped>>
  BY DEF db, regs, hist
<1>2. Entries' = Entries /\ Entities' = Entities /\ Stamps' = Stamps
  BY <1>1, SameStamps
<1>3. DataTyped'
  BY <1>1, <1>2 DEF TypedInv, DataTyped
<1>4. RegsTyped'
  BY <1>1, <1>2 DEF TypedInv, RegsTyped
<1>5. \A p \in Slots : Proper(p)'
  BY <1>1 DEF TypedInv, Proper
<1> QED  BY <1>1, <1>3, <1>4, <1>5 DEF TypedInv

\* A step is a turn of a slot, a crash, a tick or a stutter.
LEMMA NextIs ==
    ASSUME TypedInv, [Next]_vars
    PROVE  \/ \E p \in Slots : Effects(p)
           \/ Crash
           \/ AllIdle /\ now' = now + 1 /\ now' \in 0..MaxTime
                 /\ UNCHANGED <<db, cache, regs, calls, faults, hist>>
           \/ now' = now /\ now' \in 0..MaxTime
                 /\ UNCHANGED <<db, cache, regs, calls, faults, hist>>
<1>1. CASE \E p \in Slots : Start(p) \/ Step(p) \/ Fault(p)
  BY <1>1, TurnsHaveEffects
<1>2. CASE Tick
  <2>1. now' \in 0..MaxTime
    BY <1>2, TimeAssumption DEF Tick, TypedInv, DataTyped
  <2> QED  BY <1>2, <2>1 DEF Tick
<1>3. CASE UNCHANGED vars
  BY <1>3 DEF vars, TypedInv, DataTyped
<1> QED  BY <1>1, <1>2, <1>3 DEF Next

\* Every step keeps the types.
LEMMA NextTyped == TypedInv /\ [Next]_vars => TypedInv'
BY NextIs, EffectsTyped, CrashTyped, IdleTyped

\* TypeOK: whatever interleaves, fails or crashes, each handler finds the entity,
\* the name and the candidate its next step uses, and every stamp is one that was
\* written.
THEOREM IdentityTypeOK == Spec => []TypeOK
<1>1. TypedInv => TypeOK
  <2> SUFFICES ASSUME TypedInv PROVE TypeOK
    OBVIOUS
  <2>1. \A n \in Names : cache[n] # Nothing =>
           cache[n].entity \in Entities /\ cache[n].expires \in 0..(MaxTime + Ttl)
    BY DEF TypedInv, RegsTyped, Entries
  <2>2. \A p \in Slots : pc[p] # "idle" => call[p].kind \in Kinds /\ Name(p) \in Names
    BY BusyNames DEF TypedInv, Calls
  <2>3. \A p \in Slots : pc[p] \in Holding => entity[p] \in Entities
    BY DEF TypedInv, RegsTyped, Proper
  <2> QED  BY <2>1, <2>2, <2>3 DEF TypedInv, DataTyped, Proper, TypeOK, Holding, Hydrating
<1> QED  BY <1>1, InitTyped, NextTyped, PTL DEF Spec

-----------------------------------------------------------------------------
(* Rows and stamps.                                                          *)

\* A held entity's row stays in the table.
HeldStored == \A p \in Slots : entity[p] # Nothing => entity[p].row \in Stored

\* Numbers belong to one row: no stamp is found in two rows, or in a row and in
\* an entity of another one.
OwnedBy(owner) ==
    /\ \A n \in Stored : owner[table[n]] = n
    /\ \A p \in Slots : entity[p] # Nothing => owner[entity[p].stamp] = entity[p].row
Owned == \E owner \in [Stamps -> Names] : OwnedBy(owner)

\* The numbers in the table are current; those in the hands of a call were when
\* it began, and no time has passed.
CurrentRows == \A n \in Stored : endings[table[n]] = Nothing
HeldFresh == \A p \in Slots :
                 entity[p] # Nothing => endings[entity[p].stamp] \in {Nothing, now}

RowsInv == HeldStored /\ Owned /\ CurrentRows /\ HeldFresh

\* A save gives a row a stamp that nobody has, or that is already its own.
LEMMA SavedRows ==
    ASSUME TypedInv, RowsInv, now' = now,
           NEW owner \in [Stamps -> Names], OwnedBy(owner),
           NEW n \in Names, NEW stamp \in 1..(Len(endings) + 1), Save(n, stamp),
           stamp \in Stamps => owner[stamp] = n,
           \A q \in Slots : entity'[q] \in {entity[q], Nothing}
                            \/ (entity'[q] # Nothing /\ entity'[q].row = n
                                /\ entity'[q].stamp = stamp),
           Entities \subseteq Entities', Stamps \subseteq Stamps'
    PROVE  RowsInv'
<1> USE DEF TypedInv
<1>1. /\ table'[n] = stamp /\ \A m \in Names : m # n => table'[m] = table[m]
      /\ endings'[stamp] = Nothing /\ stamp # Nothing
      /\ table[n] # Nothing /\ table[n] # stamp => endings'[table[n]] = now
      /\ \A i \in Stamps : i # stamp /\ i # table[n] => endings'[i] = endings[i]
  BY SaveEffect, NothingAssumption
<1>2. Stored \subseteq Stored' /\ n \in Stored'
      /\ \A m \in Stored' : m # n => m \in Stored /\ table'[m] = table[m]
  BY <1>1 DEF Stored
<1>3. \A m \in Stored : m \in Names /\ table[m] \in Stamps /\ owner[table[m]] = m
  BY DEF Stored, DataTyped, OwnedBy
<1>4. \A q \in Slots : entity[q] # Nothing =>
         entity[q].stamp \in Stamps /\ owner[entity[q].stamp] = entity[q].row
  BY EntitiesAreSomething DEF RegsTyped, OwnedBy
<1>5. HeldStored'
  BY <1>2 DEF RowsInv, HeldStored
<1>6. Owned'
  <2> DEFINE to == [i \in Stamps' |-> IF i = stamp \/ i \notin Stamps THEN n ELSE owner[i]]
  <2>1. to \in [Stamps' -> Names]
    OBVIOUS
  <2>2. stamp \in Stamps'
    <3>1. /\ endings' \in Seq(0..MaxTime \cup {Nothing}) /\ stamp <= Len(endings')
      BY SaveEffect
    <3> QED  BY <3>1 DEF Stamps, DataTyped
  <2>3. to[stamp] = n /\ \A i \in Stamps : to[i] = IF i = stamp THEN n ELSE owner[i]
    BY <2>2
  <2> HIDE DEF to
  <2>4. ASSUME NEW m \in Stored' PROVE to[table'[m]] = m
    BY <1>1, <1>2, <1>3, <2>3, <2>4
  <2>5. ASSUME NEW q \in Slots, entity'[q] # Nothing
        PROVE  to[entity'[q].stamp] = entity'[q].row
    BY <1>4, <2>3, <2>5
  <2> QED  BY <2>1, <2>4, <2>5 DEF Owned, OwnedBy
<1>7. CurrentRows'
  <2> SUFFICES ASSUME NEW m \in Stored' PROVE endings'[table'[m]] = Nothing
    BY DEF CurrentRows
  <2>1. CASE table'[m] = stamp
    BY <1>1, <2>1
  <2>2. CASE table'[m] # stamp
    <3>1. m # n /\ m \in Stored /\ table'[m] = table[m] /\ table[m] # stamp
      BY <1>1, <1>2, <2>2
    <3>2. table[m] \in Stamps /\ table[m] # Nothing
      BY <1>3, <3>1 DEF Stored
    <3>3. table[m] # table[n]
      <4> SUFFICES ASSUME table[m] = table[n] PROVE FALSE
        OBVIOUS
      <4>1. n \in Stored
        BY <3>2 DEF Stored
      <4> QED  BY <1>3, <3>1, <4>1
    <3>4. endings[table[m]] = Nothing
      BY <3>1 DEF RowsInv, CurrentRows
    <3> QED  BY <1>1, <3>1, <3>2, <3>3, <3>4
  <2> QED  BY <2>1, <2>2
<1>8. HeldFresh'
  <2> SUFFICES ASSUME NEW q \in Slots, entity'[q] # Nothing
               PROVE  endings'[entity'[q].stamp] \in {Nothing, now}
    BY DEF HeldFresh
  <2>1. CASE entity'[q].stamp = stamp
    BY <1>1, <2>1
  <2>2. CASE entity'[q].stamp # stamp
    <3>1. entity'[q] = entity[q] /\ entity[q] # Nothing /\ entity[q].stamp \in Stamps
          /\ endings[entity[q].stamp] \in {Nothing, now}
      BY <1>4, <2>2 DEF RowsInv, HeldFresh
    <3>2. entity[q].stamp # Nothing
      BY <3>1, NothingAssumption DEF Stamps
    <3> QED  BY <1>1, <2>2, <3>1, <3>2
  <2> QED  BY <2>1, <2>2
<1> QED  BY <1>5, <1>6, <1>7, <1>8 DEF RowsInv

\* Whatever a slot does, the rows keep their numbers apart.
LEMMA EffectsRows ==
    ASSUME TypedInv, RowsInv, NEW p \in Slots, Effects(p)
    PROVE  RowsInv'
<1> USE DEF TypedInv
<1>1. /\ Writes(p) /\ now' = now
      /\ \A q \in Slots : q # p => entity'[q] = entity[q]
  BY DEF Effects, Turn, Counts
<1>2. PICK owner \in [Stamps -> Names] : OwnedBy(owner)
  BY DEF RowsInv, Owned
<1>3. Stamps \subseteq Stamps' /\ Entities \subseteq Entities'
  BY <1>1, WritesTyped, StampsGrow
<1>4. CASE Reads(p)
  <2>1. UNCHANGED <<table, endings>> /\ Stamps' = Stamps /\ Stored' = Stored
    BY <1>4, SameStamps DEF Reads, Stored
  <2>2. \/ entity'[p] = Nothing \/ entity'[p] = entity[p]
        \/ \E n \in Stored : /\ entity'[p].row = n /\ entity'[p].stamp = table[n]
                             /\ entity'[p] = Entity(n)
    BY <1>4, EntityTyped DEF Reads
  <2>3. HeldStored'
    BY <1>1, <2>1, <2>2 DEF RowsInv, HeldStored
  <2>4. OwnedBy(owner)'
    BY <1>1, <1>2, <2>1, <2>2 DEF OwnedBy
  <2>5. CurrentRows' /\ HeldFresh'
    BY <1>1, <2>1, <2>2 DEF RowsInv, CurrentRows, HeldFresh
  <2> QED  BY <2>1, <2>3, <2>4, <2>5 DEF RowsInv, Owned
<1>5. CASE Inserts(p)
  <2>1. PICK n \in Names : /\ Save(n, NewStamp)
                           /\ entity'[p] = [row |-> n, stamp |-> NewStamp]
    BY <1>5 DEF Inserts
  <2>2. NewStamp \in 1..(Len(endings) + 1) /\ NewStamp \notin Stamps
    BY NewStampIs
  <2>3. \A q \in Slots : entity'[q] \in {entity[q], Nothing}
                         \/ (entity'[q] # Nothing /\ entity'[q].row = n
                             /\ entity'[q].stamp = NewStamp)
    <3>1. [row |-> n, stamp |-> NewStamp] \in [row : Names, stamp : Int]
      BY <2>2
    <3> QED  BY <1>1, <2>1, <3>1, NothingAssumption
  <2> QED  BY <1>1, <1>2, <1>3, <2>1, <2>2, <2>3, SavedRows
<1>6. CASE PutsBack(p)
  <2>1. pc[p] = "refreshSave" /\ Save(entity[p].row, entity[p].stamp) /\ UNCHANGED entity
    BY <1>6 DEF PutsBack
  <2>2. entity[p] # Nothing
    BY <2>1 DEF Proper, Holding
  <2>3. entity[p].row \in Names /\ entity[p].stamp \in 1..(Len(endings) + 1)
    BY <2>1, SavingHeld
  <2>4. owner[entity[p].stamp] = entity[p].row
    BY <1>2, <2>2 DEF OwnedBy
  <2> QED  BY <1>1, <1>2, <1>3, <2>1, <2>3, <2>4, SavedRows
<1>7. CASE Renumbers(p)
  <2>1. pc[p] \in {"moveSave", "reconSave"} /\ Save(entity[p].row, NewStamp)
        /\ entity'[p] \in {entity[p], Nothing}
    BY <1>7 DEF Renumbers
  <2>2. entity[p].row \in Names
    BY <2>1, SavingHeld
  <2>3. NewStamp \in 1..(Len(endings) + 1) /\ NewStamp \notin Stamps
    BY NewStampIs
  <2> QED  BY <1>1, <1>2, <1>3, <2>1, <2>2, <2>3, SavedRows
<1> QED  BY <1>1, <1>4, <1>5, <1>6, <1>7 DEF Writes

\* A tick finds no call holding an entity.
LEMMA NextRows == TypedInv /\ RowsInv /\ [Next]_vars => RowsInv'
<1> SUFFICES ASSUME TypedInv, RowsInv, [Next]_vars PROVE RowsInv'
  OBVIOUS
<1>1. ASSUME UNCHANGED <<table, endings>>,
             \/ \A p \in Slots : entity'[p] = Nothing
             \/ entity' = entity /\ now' = now
      PROVE  RowsInv'
  <2>1. Stored' = Stored /\ Stamps' = Stamps
    BY <1>1, SameStamps DEF Stored
  <2> QED  BY <1>1, <2>1
           DEF RowsInv, HeldStored, Owned, OwnedBy, CurrentRows, HeldFresh
<1>2. CASE \E p \in Slots : Effects(p)
  BY <1>2, EffectsRows
<1>3. CASE Crash
  BY <1>1, <1>3, CrashTyped DEF Crash
<1>4. CASE AllIdle /\ UNCHANGED <<db, cache, regs, calls, faults, hist>>
  <2>1. UNCHANGED <<table, endings, entity>>
    BY <1>4 DEF db, regs, hist
  <2>2. \A p \in Slots : entity[p] = Nothing
    BY <1>4 DEF AllIdle, TypedInv, Proper
  <2> QED  BY <1>1, <2>1, <2>2
<1>5. CASE now' = now /\ UNCHANGED <<db, cache, regs, calls, faults, hist>>
  <2>1. UNCHANGED <<table, endings, entity>>
    BY <1>5 DEF db, regs, hist
  <2> QED  BY <1>1, <1>5, <2>1
<1> QED  BY <1>2, <1>3, <1>4, <1>5, NextIs

\* Before anything is stored.
LEMMA InitRows == Init => RowsInv
<1> SUFFICES ASSUME Init PROVE RowsInv
  OBVIOUS
<1>1. Stored = {} /\ Stamps = {} /\ \A p \in Slots : entity[p] = Nothing
  BY DEF Init, Stored, Stamps
<1> DEFINE none == [i \in Stamps |-> CHOOSE n \in Names : TRUE]
<1>2. none \in [Stamps -> Names]
  BY <1>1
<1> HIDE DEF none
<1>3. OwnedBy(none)
  BY <1>1 DEF OwnedBy
<1> QED  BY <1>1, <1>2, <1>3 DEF RowsInv, HeldStored, Owned, CurrentRows, HeldFresh

-----------------------------------------------------------------------------
(* The cache.                                                                *)

\* An entry ends a TTL after it was filled at the latest, and a TTL after its
\* numbers were overwritten: whoever fills it late still fills it in the tick
\* that read them.
CachedFresh == \A n \in Names : cache[n] # Nothing =>
    /\ cache[n].expires <= now + Ttl
    /\ \/ endings[cache[n].entity.stamp] = Nothing
       \/ cache[n].expires <= endings[cache[n].entity.stamp] + Ttl

FreshInv == CachedFresh /\ StaleAtMostTtl

\* What an entry is made of.
LEMMA EntryTyped ==
    ASSUME TypedInv, NEW n \in Names, cache[n] # Nothing
    PROVE  /\ cache[n].entity \in Entities /\ cache[n].expires \in Int
           /\ cache[n].entity.stamp \in Stamps
<1>1. cache[n] \in Entries
  BY DEF TypedInv, RegsTyped
<1>2. cache[n].entity \in Entities /\ cache[n].expires \in Int
  BY <1>1, TimeAssumption DEF Entries
<1> QED  BY <1>2, EntitiesAreSomething DEF TypedInv

\* Whatever a slot does, no entry outlives its numbers by more than a TTL.
LEMMA EffectsFresh ==
    ASSUME TypedInv, RowsInv, FreshInv, NEW p \in Slots, Effects(p)
    PROVE  FreshInv'
<1>1. /\ Writes(p) /\ Caches(p) /\ Tells(p) /\ now' = now
      /\ \A q \in Slots : q # p => told'[q] = told[q]
  BY DEF Effects, Turn, Counts
<1>2. now \in Int /\ Ttl \in Nat /\ Nothing \notin Int
  BY TimeAssumption, NothingAssumption DEF TypedInv, DataTyped
<1>3. \A i \in Stamps : /\ endings[i] \in Int \cup {Nothing}
                        /\ endings'[i] = endings[i] \/ endings'[i] \in {Nothing, now}
  BY <1>1, WritesTyped DEF TypedInv, DataTyped, Stamps
<1>4. CachedFresh'
  <2> SUFFICES ASSUME NEW n \in Names, cache'[n] # Nothing
               PROVE  /\ cache'[n].expires <= now + Ttl
                      /\ \/ endings'[cache'[n].entity.stamp] = Nothing
                         \/ cache'[n].expires <= endings'[cache'[n].entity.stamp] + Ttl
    BY <1>1 DEF CachedFresh
  <2>1. CASE cache'[n] = cache[n]
    <3>1. cache[n].expires \in Int /\ cache[n].entity.stamp \in Stamps
      BY <2>1, EntryTyped
    <3>2. /\ cache[n].expires <= now + Ttl
          /\ \/ endings[cache[n].entity.stamp] = Nothing
             \/ cache[n].expires <= endings[cache[n].entity.stamp] + Ttl
      BY <2>1 DEF FreshInv, CachedFresh
    <3> QED  BY <1>2, <1>3, <2>1, <3>1, <3>2
  <2>2. CASE pc[p] \in Holding /\ cache'[n] = [entity |-> entity[p], expires |-> now + Ttl]
    <3>1. entity[p] # Nothing /\ entity[p].stamp \in Stamps
      BY <2>2, EntitiesAreSomething DEF TypedInv, RegsTyped, Proper
    <3>2. endings[entity[p].stamp] \in {Nothing, now}
      BY <3>1 DEF RowsInv, HeldFresh
    <3> QED  BY <1>2, <1>3, <2>2, <3>1, <3>2
  <2> QED  BY <1>1, <2>1, <2>2 DEF Caches
<1>5. StaleAtMostTtl'
  <2> SUFFICES ASSUME NEW q \in Slots PROVE told'[q].age <= Ttl
    BY DEF StaleAtMostTtl
  <2>1. \A r \in Slots : told[r].age <= Ttl
    BY DEF FreshInv, StaleAtMostTtl
  <2>2. CASE q # p
    BY <1>1, <2>1, <2>2
  <2>3. CASE q = p /\ told'[p].age \in {told[p].age, 0}
    BY <1>2, <2>1, <2>3
  <2>4. CASE q = p /\ pc[p] \in Holding /\ told'[p].age = Age(entity[p].stamp)
    <3>1. endings[entity[p].stamp] \in {Nothing, now}
      BY <2>4 DEF TypedInv, Proper, RowsInv, HeldFresh
    <3> QED  BY <1>2, <2>4, <3>1 DEF Age
  <2>5. ASSUME q = p, NEW n \in Names, Servable(n),
               told'[p].age = Age(cache[n].entity.stamp)
        PROVE  told'[p].age <= Ttl
    <3>1. cache[n] # Nothing /\ now <= cache[n].expires
      BY <2>5 DEF Servable
    <3>2. cache[n].expires \in Int /\ cache[n].entity.stamp \in Stamps
      BY <3>1, EntryTyped
    <3>3. \/ endings[cache[n].entity.stamp] = Nothing
          \/ cache[n].expires <= endings[cache[n].entity.stamp] + Ttl
      BY <3>1 DEF FreshInv, CachedFresh
    <3> QED  BY <1>2, <1>3, <2>5, <3>1, <3>2, <3>3 DEF Age
  <2> QED  BY <1>1, <2>2, <2>3, <2>4, <2>5 DEF Tells
<1> QED  BY <1>4, <1>5 DEF FreshInv

\* A crash and a tick only shorten what an entry has left.
LEMMA NextFresh == TypedInv /\ RowsInv /\ FreshInv /\ [Next]_vars => FreshInv'
<1> SUFFICES ASSUME TypedInv, RowsInv, FreshInv, [Next]_vars PROVE FreshInv'
  OBVIOUS
<1>1. now \in Int /\ Ttl \in Nat
  BY TimeAssumption DEF TypedInv, DataTyped
<1>2. CASE \E p \in Slots : Effects(p)
  BY <1>2, EffectsFresh
<1>3. CASE Crash
  BY <1>1, <1>3 DEF Crash, FreshInv, CachedFresh, StaleAtMostTtl, ToldNothing
<1>4. CASE now' \in {now, now + 1} /\ UNCHANGED <<db, cache, regs, calls, faults, hist>>
  <2>1. UNCHANGED <<cache, endings, told>>
    BY <1>4 DEF regs, hist
  <2>2. \A n \in Names : cache[n] # Nothing => cache[n].expires \in Int
    BY EntryTyped
  <2> QED  BY <1>1, <1>4, <2>1, <2>2 DEF FreshInv, CachedFresh, StaleAtMostTtl
<1> QED  BY <1>2, <1>3, <1>4, NextIs

\* StaleAtMostTtl: however calls, failures and crashes interleave, no answer and
\* no judgement rests on numbers overwritten more than a TTL ago.  What it takes:
\* an entity in a handler's hands was current in this tick, so an entry made of it
\* ends a TTL after its numbers did.
THEOREM IdentityStaleAtMostTtl == Spec => []StaleAtMostTtl
<1>1. Init => FreshInv
  BY TimeAssumption DEF Init, FreshInv, CachedFresh, StaleAtMostTtl, ToldNothing
<1>2. FreshInv => StaleAtMostTtl
  BY DEF FreshInv
<1> QED  BY <1>1, <1>2, InitTyped, NextTyped, InitRows, NextRows, NextFresh, PTL DEF Spec

-----------------------------------------------------------------------------
(* Calls that do not overlap.                                                *)

\* The spelling that moved the balance last has nothing overwritten in the cache,
\* or its handler is about to empty it.
WriterSees ==
    writer # Nothing =>
        \/ \E p \in Slots : pc[p] = "invalidate" /\ Spelling(p) = writer
        \/ \A n \in Names : n[1] = writer /\ cache[n] # Nothing =>
              endings[cache[n].entity.stamp] = Nothing

\* One call at a time: one row at most, none while hydration runs, and the entity
\* a step uses is what the table holds.
AloneInv == ~overlapped =>
    /\ \A p, q \in Slots : pc[p] # "idle" /\ pc[q] # "idle" => p = q
    /\ \A m, n \in Stored : m = n
    /\ \A p \in Slots : pc[p] \in Hydrating => Stored = {}
    /\ \A p \in Slots : pc[p] \in Holding => entity[p].stamp = table[entity[p].row]
    /\ WriterSees

\* All spellings name one employee: whichever is asked for, any row is found.
LEMMA NoneFindable ==
    ASSUME NEW s \in Spellings, Findable(s) = {}
    PROVE  Stored = {}
<1>1. \A n \in Stored : n[1] \in Spellings
  BY DEF Stored, Names
<1> QED  BY <1>1, SpellingsAssumption DEF Findable

\* If a turn does not overlap with another call, nobody else is busy.
LEMMA OthersIdle ==
    ASSUME TypedInv, AloneInv, NEW p \in Slots, Effects(p), ~overlapped'
    PROVE  ~overlapped /\ \A q \in Slots : q # p => pc[q] = "idle" /\ pc'[q] = "idle"
<1>1. overlapped' = (overlapped \/ (pc[p] = "idle" /\ \E q \in Slots : pc[q] # "idle"))
      /\ \A q \in Slots : q # p => pc'[q] = pc[q]
  BY DEF Effects, Counts, Turn
<1>2. ~overlapped /\ ~(pc[p] = "idle" /\ \E q \in Slots : pc[q] # "idle")
  BY <1>1
<1> QED  BY <1>1, <1>2 DEF AloneInv

\* Only new numbers end the current ones.
LEMMA CurrentStays ==
    ASSUME TypedInv, RowsInv, AloneInv, NEW p \in Slots, ~overlapped,
           Reads(p) \/ Inserts(p) \/ PutsBack(p),
           NEW i \in Stamps, endings[i] = Nothing
    PROVE  endings'[i] = Nothing
<1> USE DEF TypedInv
<1>0. i # Nothing
  BY NothingAssumption DEF Stamps
<1>1. CASE Reads(p)
  BY <1>1 DEF Reads
<1>2. CASE Inserts(p)
  <2>1. PICK n \in Names : table[n] = Nothing /\ Save(n, NewStamp)
    BY <1>2 DEF Inserts
  <2> QED  BY <1>0, <2>1, NewStampIs, SaveEffect
<1>3. CASE PutsBack(p)
  <2>1. pc[p] = "refreshSave" /\ Save(entity[p].row, entity[p].stamp)
    BY <1>3 DEF PutsBack
  <2>2. entity[p].row \in Names /\ entity[p].stamp \in 1..(Len(endings) + 1)
    BY <2>1, SavingHeld
  <2>3. entity[p].stamp = table[entity[p].row]
    BY <2>1 DEF AloneInv, Holding
  <2>4. CASE i = entity[p].stamp
    BY <2>1, <2>2, <2>4, SaveEffect
  <2>5. CASE i # entity[p].stamp
    BY <2>1, <2>2, <2>3, <2>5, SaveEffect
  <2> QED  BY <2>4, <2>5
<1> QED  BY <1>1, <1>2, <1>3

\* The rows after a turn that does not overlap.
LEMMA AloneRows ==
    ASSUME TypedInv, RowsInv, AloneInv, NEW p \in Slots, Effects(p), ~overlapped
    PROVE  /\ \A m, n \in Stored' : m = n
           /\ pc'[p] \in Hydrating => Stored' = {}
           /\ pc'[p] \in Holding => entity'[p].stamp = table'[entity'[p].row]
<1> USE DEF TypedInv
<1>1. Writes(p) /\ Proper(p)'
  BY DEF Effects, Turn
<1>2. \A m, n \in Stored : m = n
  BY DEF AloneInv
<1>3. CASE Reads(p)
  <2>1. UNCHANGED table /\ Stored' = Stored
    BY <1>3 DEF Reads, Stored
  <2>2. pc'[p] \in Hydrating => Stored = {}
    <3> SUFFICES ASSUME pc'[p] \in Hydrating PROVE Stored = {}
      OBVIOUS
    <3>1. CASE pc[p] \in Hydrating
      BY <3>1 DEF AloneInv
    <3>2. CASE pc[p] # "idle" /\ Findable(Spelling(p)) = {}
      BY <3>2, BusyNames, NoneFindable
    <3> QED  BY <1>3, <3>1, <3>2 DEF Reads
  <2>3. ASSUME pc'[p] \in Holding PROVE entity'[p].stamp = table[entity'[p].row]
    <3>1. entity'[p] # Nothing
      BY <1>1, <2>3 DEF Proper
    <3>2. CASE entity'[p] = entity[p] /\ pc[p] \in Holding
      BY <3>2 DEF AloneInv
    <3>3. CASE \E n \in Stored : entity'[p] = Entity(n)
      BY <3>3, EntityTyped
    <3> QED  BY <1>3, <2>3, <3>1, <3>2, <3>3 DEF Reads
  <2> QED  BY <1>2, <2>1, <2>2, <2>3
<1>4. CASE Inserts(p)
  <2>1. PICK n \in Names : /\ Save(n, NewStamp)
                           /\ entity'[p] = [row |-> n, stamp |-> NewStamp]
    BY <1>4 DEF Inserts
  <2>2. table'[n] = NewStamp /\ \A m \in Names : m # n => table'[m] = table[m]
    BY <2>1, NewStampIs, SaveEffect
  <2>3. Stored = {}
    BY <1>4 DEF Inserts, Hydrating, AloneInv
  <2>4. \A m \in Stored' : m = n
    BY <2>2, <2>3 DEF Stored
  <2>5. pc'[p] \notin Hydrating
    BY <1>4 DEF Inserts
  <2> QED  BY <2>1, <2>2, <2>4, <2>5
<1>5. CASE PutsBack(p) \/ Renumbers(p)
  <2>1. PICK stamp \in 1..(Len(endings) + 1) : Save(entity[p].row, stamp)
    BY <1>5, SavingHeld, NewStampIs DEF PutsBack, Renumbers
  <2>2. pc[p] \in {"refreshSave", "moveSave", "reconSave"} /\ pc[p] \in Holding
    BY <1>5 DEF PutsBack, Renumbers, Holding
  <2>3. entity[p].row \in Names /\ entity[p].row \in Stored
    <3>1. entity[p] # Nothing
      BY <2>2 DEF Proper
    <3> QED  BY <3>1 DEF RowsInv, HeldStored, Stored
  <2>4. /\ table'[entity[p].row] = stamp
        /\ \A m \in Names : m # entity[p].row => table'[m] = table[m]
    BY <2>1, <2>3, SaveEffect
  <2>5. \A m \in Stored' : m \in Stored
    BY <2>3, <2>4 DEF Stored
  <2>6. pc'[p] \notin Hydrating
    BY <1>5 DEF PutsBack, Renumbers, Hydrating
  <2>7. ASSUME pc'[p] \in Holding PROVE entity'[p].stamp = table'[entity'[p].row]
    <3>1. ~Renumbers(p)
      BY <2>7 DEF Renumbers, Holding
    <3>2. Save(entity[p].row, entity[p].stamp) /\ entity' = entity
      BY <1>5, <3>1 DEF PutsBack
    <3>3. entity[p].stamp \in 1..(Len(endings) + 1)
      BY <1>5, <3>1, SavingHeld DEF PutsBack
    <3> QED  BY <2>3, <3>2, <3>3, SaveEffect
  <2> QED  BY <1>2, <2>5, <2>6, <2>7
<1> QED  BY <1>1, <1>3, <1>4, <1>5 DEF Writes

\* The writer after it: an entry is made of what the table holds.
LEMMA AloneWriter ==
    ASSUME TypedInv, RowsInv, AloneInv, NEW p \in Slots, Effects(p), ~overlapped,
           \A q \in Slots : q # p => pc[q] = "idle"
    PROVE  WriterSees'
<1> USE DEF TypedInv
<1>1. Writes(p) /\ Caches(p)
  BY DEF Effects
<1>2. CASE Renumbers(p)
  BY <1>2 DEF Renumbers, WriterSees
<1>3. CASE Reads(p) \/ Inserts(p) \/ PutsBack(p)
  <2>1. writer' = writer
    BY <1>3 DEF Reads, Inserts, PutsBack
  <2> SUFFICES ASSUME writer # Nothing, NEW n \in Names, n[1] = writer, cache'[n] # Nothing
               PROVE  endings'[cache'[n].entity.stamp] = Nothing
    BY <2>1 DEF WriterSees
  <2>2. ASSUME NEW q \in Slots, pc[q] = "invalidate", Spelling(q) = writer
        PROVE  FALSE
    BY <1>1, <2>2 DEF Caches
  <2>3. CASE cache'[n] = cache[n]
    <3>1. cache[n].entity.stamp \in Stamps
      BY <2>3, EntryTyped
    <3>2. endings[cache[n].entity.stamp] = Nothing
      BY <2>2, <2>3 DEF AloneInv, WriterSees
    <3> QED  BY <1>3, <2>3, <3>1, <3>2, CurrentStays
  <2>4. CASE pc[p] \in Holding /\ cache'[n] = [entity |-> entity[p], expires |-> now + Ttl]
    <3>1. entity[p] # Nothing /\ entity[p].stamp \in Stamps
      BY <2>4, EntitiesAreSomething DEF RegsTyped, Proper
    <3>2. entity[p].stamp = table[entity[p].row] /\ entity[p].row \in Stored
      BY <2>4, <3>1 DEF AloneInv, RowsInv, HeldStored
    <3>3. endings[entity[p].stamp] = Nothing
      BY <3>2 DEF RowsInv, CurrentRows
    <3> QED  BY <1>3, <2>4, <3>1, <3>3, CurrentStays
  <2> QED  BY <1>1, <2>3, <2>4 DEF Caches
<1> QED  BY <1>1, <1>2, <1>3 DEF Writes

\* One call at a time keeps it so.
LEMMA NextAlone == TypedInv /\ RowsInv /\ AloneInv /\ [Next]_vars => AloneInv'
<1> SUFFICES ASSUME TypedInv, RowsInv, AloneInv, [Next]_vars PROVE AloneInv'
  OBVIOUS
<1>1. ASSUME NEW p \in Slots, Effects(p) PROVE AloneInv'
  <2> SUFFICES ASSUME ~overlapped' PROVE AloneInv'
    BY DEF AloneInv
  <2>1. ~overlapped /\ \A q \in Slots : q # p => pc[q] = "idle" /\ pc'[q] = "idle"
    BY <1>1, OthersIdle
  <2>2. /\ \A m, n \in Stored' : m = n
        /\ pc'[p] \in Hydrating => Stored' = {}
        /\ pc'[p] \in Holding => entity'[p].stamp = table'[entity'[p].row]
    BY <1>1, <2>1, AloneRows
  <2>3. WriterSees'
    BY <1>1, <2>1, AloneWriter
  <2>4. "idle" \notin Hydrating /\ "idle" \notin Holding
    BY DEF Hydrating, Holding
  <2>5. /\ \A q, r \in Slots : pc'[q] # "idle" /\ pc'[r] # "idle" => q = r
        /\ \A q \in Slots : pc'[q] \in Hydrating => Stored' = {}
        /\ \A q \in Slots : pc'[q] \in Holding => entity'[q].stamp = table'[entity'[q].row]
    BY <2>1, <2>2, <2>4
  <2> QED  BY <2>2, <2>3, <2>5 DEF AloneInv
<1>2. CASE Crash
  <2>1. UNCHANGED <<table, endings, writer, overlapped>> /\ Stored' = Stored
    BY <1>2, CrashTyped DEF Stored
  <2>2. (\A p \in Slots : pc'[p] = "idle") /\ \A n \in Names : cache'[n] = Nothing
    BY <1>2 DEF Crash
  <2>3. WriterSees'
    BY <2>2 DEF WriterSees
  <2> QED  BY <2>1, <2>2, <2>3 DEF AloneInv, Hydrating, Holding
<1>3. CASE UNCHANGED <<db, cache, regs, calls, faults, hist>>
  <2>1. UNCHANGED <<table, cache, pc, call, entity, endings, writer, overlapped>>
        /\ Stored' = Stored
    BY <1>3 DEF db, regs, hist, Stored
  <2>2. WriterSees' = WriterSees
    BY <2>1 DEF WriterSees, Spelling, Name
  <2> QED  BY <2>1, <2>2 DEF AloneInv
<1> QED  BY <1>1, <1>2, <1>3, NextIs

\* Nobody has called yet.
LEMMA InitAlone == Init => AloneInv
BY DEF Init, AloneInv, Stored, Hydrating, Holding, WriterSees

\* What is stored, or about to be, is under a spelling the HCM answered to.
Answered == \A p \in Slots : pc[p] = "insert" => trying[p] \in HcmKnows
KnownInv == Answered /\ \A n \in Stored : n[1] \in HcmKnows

\* The only way to the INSERT is the HCM's answer.
LEMMA InsertAnswered ==
    ASSUME TypedInv, NEW p \in Slots, Start(p) \/ Step(p) \/ Fault(p), pc'[p] = "insert"
    PROVE  trying'[p] \in HcmKnows
<1>1. ASSUME NEW step, Goto(p, step) PROVE pc'[p] = step
  BY <1>1 DEF Goto, TypedInv, RegsTyped
<1>2. ~Hydrate(p) /\ ~TryNext(p) /\ \A t : ~End(p, t)
  BY <1>1 DEF Hydrate, TryNext, Finish, End
<1>3. \A a : ~Finish(p, a)
  BY <1>2 DEF Finish
<1>4. ~Start(p)
  <2>1. \A c : /\ ~Begin(p, c, "lookup") /\ ~Begin(p, c, "askSync") /\ ~Begin(p, c, "dimRead")
               /\ ~Begin(p, c, "refreshRead") /\ ~Begin(p, c, "moveRead")
    BY <1>1 DEF Begin
  <2> QED  BY <2>1 DEF Start, StartGet, StartSync, StartCreate, StartApprove, StartCancel,
                       StartRequest
<1>5. ~Fault(p)
  BY <1>2, <1>3 DEF Fault
<1>6. ~DimRead(p) /\ ~BalRead(p) /\ ~RefreshRead(p) /\ ~MoveRead(p)
  BY <1>1, <1>2, <1>3 DEF DimRead, BalRead, RefreshRead, MoveRead, FindByDimensions
<1>7. \A e : ~Use(p, e)
  BY <1>1, <1>2 DEF Use
<1>8. ~Lookup(p) /\ ~Fill(p)
  BY <1>1, <1>7 DEF Lookup, Fill
<1>9. ~SaveCreated(p) /\ ~SaveDecision(p) /\ ~AskSync(p) /\ ~ReconRead(p) /\ ~ReconSave(p)
  BY <1>1, <1>3 DEF SaveCreated, SaveDecision, AskSync, ReconRead, ReconSave
<1>10. ~RefreshSave(p) /\ ~RefreshFill(p) /\ ~MoveSave(p) /\ ~Invalidate(p)
  BY <1>1, <1>3 DEF RefreshSave, RefreshFill, MoveSave, Invalidate
<1>11. ~Insert(p)
  BY <1>1, <1>2 DEF Insert
<1>12. AskHcm(p)
  BY <1>4, <1>5, <1>6, <1>8, <1>9, <1>10, <1>11 DEF Step
<1> QED  BY <1>2, <1>12 DEF AskHcm

\* A save gives a stamp to a row there was, or to the one hydrated.
LEMMA KnownRows ==
    ASSUME TypedInv, RowsInv, KnownInv, NEW p \in Slots, Effects(p)
    PROVE  \A n \in Stored' : n[1] \in HcmKnows
<1> USE DEF TypedInv
<1>1. Writes(p)
  BY DEF Effects
<1>2. CASE Reads(p)
  BY <1>2 DEF Reads, KnownInv, Stored
<1>3. CASE Inserts(p)
  <2>1. PICK n \in Names : n[1] = trying[p] /\ Save(n, NewStamp)
    BY <1>3 DEF Inserts
  <2>2. \A m \in Names : m # n => table'[m] = table[m]
    BY <2>1, NewStampIs, SaveEffect
  <2>3. trying[p] \in HcmKnows
    BY <1>3 DEF Inserts, KnownInv, Answered
  <2> QED  BY <2>1, <2>2, <2>3 DEF KnownInv, Stored
<1>4. CASE PutsBack(p) \/ Renumbers(p)
  <2>1. PICK stamp \in 1..(Len(endings) + 1) : Save(entity[p].row, stamp)
    BY <1>4, SavingHeld, NewStampIs DEF PutsBack, Renumbers
  <2>2. pc[p] \in Holding
    BY <1>4 DEF PutsBack, Renumbers, Holding
  <2>3. entity[p].row \in Stored /\ entity[p].row \in Names
    BY <2>2 DEF Proper, RowsInv, HeldStored, Stored
  <2>4. \A m \in Names : m # entity[p].row => table'[m] = table[m]
    BY <2>1, <2>3, SaveEffect
  <2> QED  BY <2>3, <2>4 DEF KnownInv, Stored
<1> QED  BY <1>1, <1>2, <1>3, <1>4 DEF Writes

\* Only known spellings are ever stored.
LEMMA NextKnown == TypedInv /\ RowsInv /\ KnownInv /\ [Next]_vars => KnownInv'
<1> SUFFICES ASSUME TypedInv, RowsInv, KnownInv, [Next]_vars PROVE KnownInv'
  OBVIOUS
<1>1. ASSUME NEW p \in Slots, Start(p) \/ Step(p) \/ Fault(p) PROVE KnownInv'
  <2>1. Effects(p)
    BY <1>1, TurnsHaveEffects
  <2>2. pc'[p] = "insert" => trying'[p] \in HcmKnows
    BY <1>1, InsertAnswered
  <2>3. \A q \in Slots : q # p => pc'[q] = pc[q] /\ trying'[q] = trying[q]
    BY <2>1 DEF Effects, Turn
  <2>4. \A n \in Stored' : n[1] \in HcmKnows
    BY <2>1, KnownRows
  <2> QED  BY <2>2, <2>3, <2>4 DEF KnownInv, Answered
<1>2. CASE Crash
  <2>1. Stored' = Stored /\ \A p \in Slots : pc'[p] = "idle"
    BY <1>2, CrashTyped DEF Crash, Stored
  <2> QED  BY <2>1 DEF KnownInv, Answered
<1>3. CASE Tick \/ UNCHANGED vars
  <2>1. UNCHANGED <<table, pc, trying>>
    BY <1>3 DEF Tick, vars, db, regs
  <2> QED  BY <2>1 DEF KnownInv, Answered, Stored
<1> QED  BY <1>1, <1>2, <1>3 DEF Next

\* Nothing is stored yet.
LEMMA InitKnown == Init => KnownInv
BY DEF Init, KnownInv, Answered, Stored

\* OneRowPerYear: two rows of an employee in one year take overlapping calls and
\* an HCM that answers to two spellings.  Without overlap hydration runs only
\* while there is no row at all (AloneInv); with it, the spelling stored is one
\* the HCM answered to, and UNIQUE lets each be stored once a year (KnownInv).
THEOREM IdentityOneRowPerYear == Spec => []OneRowPerYear
<1>1. AloneInv /\ KnownInv => OneRowPerYear
  <2> SUFFICES ASSUME AloneInv, KnownInv, NEW m \in Stored, NEW n \in Stored,
                      m[2] = n[2], m # n
               PROVE  overlapped /\ \E s, t \in HcmKnows : s # t
    BY DEF OneRowPerYear
  <2>1. overlapped
    BY DEF AloneInv
  <2>2. m[1] # n[1]
    BY DEF Stored, Names
  <2> QED  BY <2>1, <2>2 DEF KnownInv
<1> QED  BY <1>1, InitTyped, NextTyped, InitRows, NextRows, InitAlone, NextAlone,
            InitKnown, NextKnown, PTL DEF Spec

\* WriterSeesItsWrite: between calls that did not overlap, whatever the spelling
\* that moved the balance last finds in the cache, in any year, is current.
THEOREM IdentityWriterSeesItsWrite == Spec => []WriterSeesItsWrite
<1>1. AloneInv => WriterSeesItsWrite
  BY DEF AloneInv, WriterSees, WriterSeesItsWrite, AllIdle, Servable
<1> QED  BY <1>1, InitTyped, NextTyped, InitRows, NextRows, InitAlone, NextAlone, PTL
         DEF Spec

-----------------------------------------------------------------------------
(* Refusals.                                                                 *)

\* Until a row is stored nothing is cached or requested, and no call is past
\* hydration.
Unseen == Stored = {} =>
    /\ \A n \in Names : cache[n] = Nothing
    /\ \A r \in Requests : status[r] = "NONE"
    /\ \A p \in Slots : pc[p] \in Early

CurableInv == Unseen /\ RefusalsCurable

\* Whoever is refused met a row, or was past hydration, where one is stored.
LEMMA EffectsCurable ==
    ASSUME TypedInv, CurableInv, NEW p \in Slots, Effects(p)
    PROVE  CurableInv'
<1>1. /\ Writes(p) /\ Caches(p) /\ Tells(p) /\ Decides(p)
      /\ faults \in 0..MaxFaults /\ faults' \in 0..MaxFaults /\ faults <= faults'
      /\ \A q \in Slots : q # p => pc'[q] = pc[q] /\ told'[q] = told[q]
  BY DEF Effects, Turn, Counts, TypedInv, DataTyped
<1>2. Stored \subseteq Stored' /\ (Inserts(p) => Stored' # {})
  BY <1>1, WritesTyped
<1>3. Unseen'
  <2> SUFFICES ASSUME Stored' = {}
               PROVE  /\ \A n \in Names : cache'[n] = Nothing
                      /\ \A r \in Requests : status'[r] = "NONE"
                      /\ \A q \in Slots : pc'[q] \in Early
    BY DEF Unseen
  <2>1. /\ Stored = {} /\ ~Inserts(p)
        /\ \A n \in Names : cache[n] = Nothing
        /\ \A r \in Requests : status[r] = "NONE"
        /\ \A q \in Slots : pc[q] \in Early
    BY <1>2 DEF CurableInv, Unseen
  <2>2. pc[p] \notin Holding
    BY <2>1, StepNames
  <2>3. \A n \in Names : cache'[n] = Nothing
    BY <1>1, <2>1, <2>2 DEF Caches
  <2>4. status' = status /\ pc'[p] \in Early
    BY <1>1, <2>1 DEF Decides
  <2> QED  BY <1>1, <2>1, <2>3, <2>4
<1>4. RefusalsCurable'
  <2> SUFFICES ASSUME KnownToHcm, faults' = 0, NEW q \in Slots, told'[q].answer \in Refusals
               PROVE  Stored' # {}
    BY DEF RefusalsCurable, KnownToHcm, Refusals
  <2>1. faults = 0 /\ ~(faults < faults')
    BY <1>1
  <2>2. \A r \in Slots : told[r].answer \in Refusals => Stored # {}
    BY <2>1 DEF CurableInv, RefusalsCurable, Refusals
  <2>3. pc[p] \notin Early => Stored # {}
    BY DEF CurableInv, Unseen
  <2> QED  BY <1>1, <1>2, <2>1, <2>2, <2>3 DEF Tells
<1> QED  BY <1>3, <1>4 DEF CurableInv

\* A crash is a failure, and loses no row.
LEMMA NextCurable == TypedInv /\ CurableInv /\ [Next]_vars => CurableInv'
<1> SUFFICES ASSUME TypedInv, CurableInv, [Next]_vars PROVE CurableInv'
  OBVIOUS
<1>1. CASE \E p \in Slots : Effects(p)
  BY <1>1, EffectsCurable
<1>2. CASE Crash
  <2>1. UNCHANGED <<table, status>> /\ Stored' = Stored /\ faults < faults'
    BY <1>2, CrashTyped DEF Stored
  <2>2. faults' # 0
    BY <2>1 DEF TypedInv, DataTyped
  <2>3. (\A p \in Slots : pc'[p] = "idle") /\ \A n \in Names : cache'[n] = Nothing
    BY <1>2 DEF Crash
  <2>4. Unseen'
    BY <2>1, <2>3 DEF CurableInv, Unseen, Early
  <2> QED  BY <2>2, <2>4 DEF CurableInv, RefusalsCurable
<1>3. CASE UNCHANGED <<db, cache, regs, calls, faults, hist>>
  <2>1. UNCHANGED <<table, status, cache, pc, told, faults>> /\ Stored' = Stored
    BY <1>3 DEF db, regs, hist, Stored
  <2> QED  BY <2>1 DEF CurableInv, Unseen, RefusalsCurable, KnownToHcm
<1> QED  BY <1>1, <1>2, <1>3, NextIs

\* RefusalsCurable: a call refused although the HCM knows the employee and nothing
\* failed finds a row when it is made again, whichever calls it raced with.
THEOREM IdentityRefusalsCurable == Spec => []RefusalsCurable
<1>1. Init => CurableInv
  BY DEF Init, CurableInv, Unseen, RefusalsCurable, ToldNothing, Early
<1>2. CurableInv => RefusalsCurable
  BY DEF CurableInv
<1> QED  BY <1>1, <1>2, InitTyped, NextTyped, NextCurable, PTL DEF Spec

=============================================================================
