--------------------------- MODULE BalanceDriftProofs ---------------------------
(***************************************************************************)
(* BalanceDrift's invariants, for any amounts the HCM may hold, any numbers   *)
(* of days asked for and any number of requests.                            *)
(***************************************************************************)
EXTENDS BalanceDrift, TLAPS

\* Stored days have two decimals.
DaysRounded == \A r \in Requests : days[r] % 10 = 0

\* The row either still is the exact amount, or it has been rounded once and has
\* had two decimals ever since.
RoundedOnce ==
    row # Absent =>
       \/ row = base + net
       \/ row % 10 = 0 /\ Abs(row - (base + net)) <= 5

\* Nothing is cached, requested or moved before there is a row.
RowFirst ==
    row = Absent =>
       cache = Absent /\ net = 0 /\ \A r \in Requests : status[r] = "none"

DriftInv ==
    /\ TypeOK
    /\ NeverOverdrawn
    /\ AcceptedFits
    /\ DaysRounded
    /\ RoundedOnce
    /\ RowFirst

-----------------------------------------------------------------------------
(* Rounding.                                                                 *)

\* toFixed(2) gives a number of hundredths within half a hundredth.
LEMMA FixedClose ==
    ASSUME NEW n \in Int, NEW m \in Fixed(n)
    PROVE  m \in Int /\ m % 10 = 0 /\ Abs(m - n) <= 5
BY DEF Fixed, Abs

\* It leaves a number of hundredths alone.
LEMMA FixedExact ==
    ASSUME NEW n \in Int, n % 10 = 0, NEW m \in Fixed(n)
    PROVE  m = n
BY DEF Fixed, Abs

\* It does not go beyond a number of hundredths.
LEMMA FixedMonotone ==
    ASSUME NEW n \in Int, NEW b \in Int, b % 10 = 0, NEW m \in Fixed(n)
    PROVE  /\ n <= b => m <= b
           /\ b <= n => b <= m
BY DEF Fixed, Abs

\* A balance that was found is a natural number, and it is the row's when
\* nothing is cached.
LEMMA LocalFound ==
    ASSUME DriftInv, Found
    PROVE  /\ Local \in Nat
           /\ Hydrated \in Nat
           /\ row = Absent => Hydrated = hcm /\ Local = hcm
           /\ row # Absent => Hydrated = row
<1>1. CASE cache # Absent
  BY <1>1, AmountsAssumption DEF DriftInv, TypeOK, NeverOverdrawn, RowFirst, Local, Hydrated
<1>2. CASE cache = Absent /\ row # Absent
  BY <1>2, AmountsAssumption DEF DriftInv, TypeOK, NeverOverdrawn, Local, Hydrated
<1>3. CASE cache = Absent /\ row = Absent
  <2>1. Local = IF hcm >= 0 THEN hcm ELSE Absent
    BY <1>3 DEF Local
  <2>2. QED
    BY <1>3, <2>1 DEF DriftInv, TypeOK, Found, Hydrated
<1>4. QED
  BY <1>1, <1>2, <1>3

-----------------------------------------------------------------------------
(* Initial state and steps.                                                  *)

\* No row, no request.
LEMMA InitDriftInv == Init => DriftInv
BY AmountsAssumption
   DEF Init, DriftInv, TypeOK, Statuses, NeverOverdrawn, AcceptedFits, DaysRounded,
       RoundedOnce, RowFirst

\* Looking a balance up may hydrate the row, which then is the HCM's number.
LEMMA LookupKeeps ==
    ASSUME DriftInv, Found, row' = Hydrated, cache' = Local,
           base' = IF row = Absent THEN hcm ELSE base, net' = net
    PROVE  /\ row' \in Nat /\ row' # Absent
           /\ cache' \in Nat
           /\ base' \in Int
           /\ RoundedOnce'
<1>1. row' \in Nat /\ cache' \in Nat /\ row' # Absent
  BY LocalFound, AmountsAssumption
<1>2. base' \in Int
  BY DEF DriftInv, TypeOK
<1>3. CASE row = Absent
  <2>1. row' = hcm /\ base' = hcm /\ net' = 0
    BY <1>3, LocalFound DEF DriftInv, RowFirst
  <2>2. QED
    BY <1>1, <1>2, <2>1 DEF DriftInv, TypeOK, RoundedOnce
<1>4. CASE row # Absent
  BY <1>1, <1>2, <1>4, LocalFound DEF DriftInv, RoundedOnce, Abs
<1>5. QED
  BY <1>1, <1>2, <1>3, <1>4

\* A decision moves the row by a number of hundredths.
LEMMA MoveKeeps ==
    ASSUME DriftInv, NEW r \in Requests, NEW st \in Statuses, NEW n \in Int,
           row # Absent, n % 10 = 0, row + n >= 0, st # "none", status[r] # "none",
           Move(r, st, n)
    PROVE  DriftInv'
<1> USE DEF DriftInv
<1>1. row \in Int /\ base \in Int /\ net \in Int /\ base + net \in Int
  BY DEF TypeOK
<1>2. row + n \in Int /\ row' \in Fixed(row + n)
  BY <1>1 DEF Move
<1>3. row' \in Int /\ row' % 10 = 0 /\ Abs(row' - (row + n)) <= 5 /\ row' # Absent
  BY <1>2, FixedClose, AmountsAssumption
<1>4. row' >= 0
  <2>1. 0 <= row + n /\ 0 % 10 = 0
    BY <1>2
  <2>2. QED
    BY <1>2, <2>1, FixedMonotone
<1>5. base' = base /\ net' = net + n
  BY DEF Move
<1>6. RoundedOnce'
  <2>1. CASE row = base + net
    <3>1. base' + net' = row + n
      BY <1>1, <1>5, <2>1
    <3>2. QED
      BY <1>3, <3>1 DEF RoundedOnce
  <2>2. CASE row % 10 = 0 /\ Abs(row - (base + net)) <= 5
    <3>1. (row + n) % 10 = 0
      BY <1>1, <2>2
    <3>2. row' = row + n
      BY <1>2, <3>1, FixedExact
    <3>3. row' - (base' + net') = row - (base + net)
      BY <1>1, <1>5, <3>2
    <3>4. QED
      BY <1>3, <2>2, <3>3 DEF RoundedOnce, Abs
  <2>3. QED
    BY <2>1, <2>2 DEF RoundedOnce
<1>7. TypeOK'
  BY <1>1, <1>3 DEF Move, TypeOK
<1>8. AcceptedFits' /\ DaysRounded'
  BY DEF Move, TypeOK, AcceptedFits, DaysRounded
<1>9. NeverOverdrawn' /\ RowFirst'
  BY <1>3, <1>4 DEF NeverOverdrawn, RowFirst
<1>10. QED
  BY <1>6, <1>7, <1>8, <1>9

\* Every step keeps the invariant.
LEMMA NextDriftInv == DriftInv /\ [Next]_vars => DriftInv'
<1> SUFFICES ASSUME DriftInv, [Next]_vars PROVE DriftInv'
  OBVIOUS
<1>1. CASE GetBalance
  <2>1. /\ Found /\ row' = Hydrated /\ cache' = Local
        /\ base' = IF row = Absent THEN hcm ELSE base
        /\ net' = net
        /\ UNCHANGED <<hcm, status, days, shown>>
    BY <1>1 DEF GetBalance
  <2>2. row' \in Nat /\ row' # Absent /\ cache' \in Nat /\ base' \in Int /\ RoundedOnce'
    BY <2>1, LookupKeeps
  <2>3. QED
    BY <2>1, <2>2 DEF DriftInv, TypeOK, NeverOverdrawn, AcceptedFits, DaysRounded, RowFirst
<1>2. CASE Expire
  BY <1>2 DEF Expire, history, DriftInv, TypeOK, NeverOverdrawn, AcceptedFits,
              DaysRounded, RoundedOnce, RowFirst
<1>3. CASE Sync
  <2>1. Found /\ Local \in Nat /\ Hydrated \in Nat /\ row' \in Nat /\ row' # Absent
    <3>1. Found
      BY <1>3 DEF Sync
    <3>2. QED
      BY <1>3, <3>1, LocalFound, AmountsAssumption DEF Sync, DriftInv, TypeOK
  <2>2. TypeOK'
    BY <1>3, <2>1 DEF Sync, DriftInv, TypeOK
  <2>3. RoundedOnce'
    <3>1. CASE hcm >= 0
      <4>1. row' = hcm /\ base' = hcm /\ net' = 0
        BY <1>3, <3>1 DEF Sync
      <4>2. QED
        BY <4>1 DEF DriftInv, TypeOK, RoundedOnce
    <3>2. CASE ~(hcm >= 0)
      <4>1. row # Absent
        BY <2>1, <3>2, LocalFound DEF DriftInv, TypeOK
      <4>2. row' = row /\ base' = base /\ net' = net
        BY <1>3, <2>1, <3>2, <4>1, LocalFound DEF Sync
      <4>3. QED
        BY <4>2 DEF DriftInv, RoundedOnce, Abs
    <3>3. QED
      BY <3>1, <3>2
  <2>4. NeverOverdrawn' /\ RowFirst'
    BY <2>1 DEF NeverOverdrawn, RowFirst
  <2>5. AcceptedFits' /\ DaysRounded'
    BY <1>3 DEF Sync, DriftInv, AcceptedFits, DaysRounded
  <2>6. QED
    BY <2>2, <2>3, <2>4, <2>5 DEF DriftInv
<1>4. CASE \E n \in Amounts : HcmMoves(n)
  BY <1>4, AmountsAssumption
     DEF HcmMoves, stored, history, DriftInv, TypeOK, NeverOverdrawn, AcceptedFits,
         DaysRounded, RoundedOnce, RowFirst
<1>5. ASSUME NEW r \in Requests, NEW d \in Asks, Create(r, d) PROVE DriftInv'
  <2>1. /\ Found /\ row' = Hydrated /\ cache' = Local
        /\ base' = IF row = Absent THEN hcm ELSE base
        /\ net' = net
        /\ UNCHANGED hcm
    BY <1>5 DEF Create
  <2>2. row' \in Nat /\ row' # Absent /\ cache' \in Nat /\ base' \in Int /\ RoundedOnce'
    BY <2>1, LookupKeeps
  <2>3. PICK f \in Fixed(d) : days' = [days EXCEPT ![r] = f]
    BY <1>5 DEF Create
  <2>4. d \in Int /\ d >= 500 /\ d <= Local /\ Local \in Nat
    BY <1>5, <2>1, LocalFound, AsksAssumption DEF Create
  <2>5. f \in Nat /\ f % 10 = 0 /\ f <= d + 5
    BY <2>3, <2>4, FixedClose DEF Abs
  <2>6. f <= Local + 5 /\ (Local % 10 = 0 => f <= Local)
    BY <2>3, <2>4, <2>5, FixedMonotone
  <2>7. /\ status' = [status EXCEPT ![r] = "PENDING"]
        /\ shown' = [shown EXCEPT ![r] = Local]
    BY <1>5 DEF Create
  <2>8. TypeOK'
    BY <2>1, <2>2, <2>3, <2>4, <2>5, <2>7 DEF DriftInv, TypeOK, Statuses
  <2>9. AcceptedFits' /\ DaysRounded'
    BY <2>3, <2>5, <2>6, <2>7 DEF DriftInv, TypeOK, AcceptedFits, DaysRounded
  <2>10. QED
    BY <2>2, <2>8, <2>9 DEF DriftInv, NeverOverdrawn, RowFirst
<1>6. ASSUME NEW r \in Requests, Approve(r) PROVE DriftInv'
  <2>1. status[r] = "PENDING" /\ row # Absent /\ row \in Int /\ days[r] \in Nat
    BY <1>6 DEF Approve, DriftInv, TypeOK, RowFirst
  <2>2. CASE Covered(r) /\ Move(r, "APPROVED", -days[r])
    <3>1. -days[r] \in Int /\ (-days[r]) % 10 = 0 /\ row + (-days[r]) >= 0
      BY <2>1, <2>2 DEF Covered, DriftInv, DaysRounded
    <3>2. "APPROVED" \in Statuses /\ "APPROVED" # "none"
      BY DEF Statuses
    <3>3. QED
      BY <2>1, <2>2, <3>1, <3>2, MoveKeeps
  <2>3. CASE cache' = row /\ UNCHANGED <<hcm, row, status, days, history>>
    BY <2>1, <2>3 DEF history, DriftInv, TypeOK, NeverOverdrawn, AcceptedFits,
                      DaysRounded, RoundedOnce, RowFirst
  <2>4. QED
    BY <1>6, <2>2, <2>3 DEF Approve
<1>7. ASSUME NEW r \in Requests, Reject(r) PROVE DriftInv'
  <2>1. row # Absent
    BY <1>7 DEF Reject, DriftInv, RowFirst
  <2>2. QED
    BY <1>7, <2>1
       DEF Reject, history, DriftInv, TypeOK, Statuses, NeverOverdrawn, AcceptedFits,
           DaysRounded, RoundedOnce, RowFirst
<1>8. ASSUME NEW r \in Requests, Cancel(r) PROVE DriftInv'
  <2>1. /\ status[r] = "APPROVED" /\ row # Absent /\ row \in Int /\ row >= 0
        /\ days[r] \in Nat
    BY <1>8 DEF Cancel, DriftInv, TypeOK, RowFirst, NeverOverdrawn
  <2>2. days[r] \in Int /\ days[r] % 10 = 0 /\ row + days[r] >= 0
    BY <2>1 DEF DriftInv, DaysRounded
  <2>3. "CANCELLED" \in Statuses /\ "CANCELLED" # "none"
    BY DEF Statuses
  <2>4. QED
    BY <1>8, <2>1, <2>2, <2>3, MoveKeeps DEF Cancel
<1>9. CASE UNCHANGED vars
  BY <1>9 DEF vars, stored, history, DriftInv, TypeOK, NeverOverdrawn, AcceptedFits,
              DaysRounded, RoundedOnce, RowFirst
<1>10. QED
  BY <1>1, <1>2, <1>3, <1>4, <1>5, <1>6, <1>7, <1>8, <1>9 DEF Next

\* The invariant holds in every reachable state.
LEMMA DriftInvariant == Spec => []DriftInv
BY InitDriftInv, NextDriftInv, PTL DEF Spec

-----------------------------------------------------------------------------
\* Type correctness; cached numbers are never negative.
THEOREM TypeCorrect == Spec => []TypeOK
<1>1. DriftInv => TypeOK
  BY DEF DriftInv
<1>2. QED
  BY <1>1, DriftInvariant, PTL

\* However many approvals and cancellations there are between two syncs, the row
\* is within half a hundredth of the exact amount.
THEOREM RoundingNeverAccumulates == Spec => []RoundingBounded
<1>1. DriftInv => RoundingBounded
  BY DEF DriftInv, TypeOK, RoundedOnce, RoundingBounded, Abs
<1>2. QED
  BY <1>1, DriftInvariant, PTL

\* A request is stored with no more days than it was checked for, up to half a
\* hundredth when the HCM's number has more than two decimals.
THEOREM AcceptedDaysFit == Spec => []AcceptedFits
<1>1. DriftInv => AcceptedFits
  BY DEF DriftInv
<1>2. QED
  BY <1>1, DriftInvariant, PTL

\* A validated approval never meets the CHECK on available_balance.
THEOREM RowNeverNegative == Spec => []NeverOverdrawn
<1>1. DriftInv => NeverOverdrawn
  BY DEF DriftInv
<1>2. QED
  BY <1>1, DriftInvariant, PTL

=============================================================================
