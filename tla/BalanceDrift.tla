------------------------------ MODULE BalanceDrift ------------------------------
(***************************************************************************)
(* The numbers of one balance: what hydration, requests and synchronization  *)
(* write, and how they round.                                               *)
(*                                                                         *)
(* Amounts are in thousandths of a day, one digit more than the stored two:  *)
(* SQLite keeps whatever decimals it is given, and only toFixed(2) rounds.    *)
(* Handlers run one at a time and the HCM always answers; their overlapping   *)
(* is TimeOffRequests' and BalanceSync's subject, used_balance the former's.  *)
(***************************************************************************)
EXTENDS Integers

CONSTANTS
    Requests,           \* requests that may be created
    Amounts,            \* available balances the HCM may hold
    Asks,               \* daysRequested clients send
    Absent              \* no row, no cache entry

ASSUME AmountsAssumption == Amounts \subseteq Int /\ Absent \notin Int
ASSUME AsksAssumption == Asks \subseteq Nat /\ \A d \in Asks : d >= 500

VARIABLES
    hcm,                \* the HCM's available balance
    row,                \* balances.available_balance, or Absent
    cache,              \* the cached entity's available_balance, or Absent
    status,             \* request -> status, "none" before it is created
    days,               \* request -> days_requested as stored
    base,               \* history: the HCM balance the row last took over
    net,                \* history: days refunded less days deducted since
    shown               \* history: request -> balance it was accepted on

stored  == <<row, cache, status, days>>
history == <<base, net, shown>>
vars    == <<hcm, stored, history>>

Statuses == {"none", "PENDING", "APPROVED", "REJECTED", "CANCELLED"}

Init ==
    /\ hcm \in Amounts
    /\ row = Absent /\ cache = Absent
    /\ status = [r \in Requests |-> "none"]
    /\ days = [r \in Requests |-> 0]
    /\ base = 0 /\ net = 0
    /\ shown = [r \in Requests |-> 0]

-----------------------------------------------------------------------------
(* Numbers.                                                                  *)

Abs(n) == IF n >= 0 THEN n ELSE -n

\* Mutant: toFixed(1).
FixedTenths(n) == {m \in {n - (n % 100), n - (n % 100) + 100} : Abs(m - n) <= 50}

\* toFixed(2): the nearest hundredth.  At half a hundredth it is the double's
\* last bits that decide.
Fixed(n) == {m \in {n - (n % 10), n - (n % 10) + 10} : Abs(m - n) <= 5}

-----------------------------------------------------------------------------
(* Balances.                                                                 *)

\* Mutant: a table without the CHECK.
LocalUnchecked == CASE cache # Absent -> cache
                    [] cache = Absent /\ row # Absent -> row
                    [] OTHER -> hcm

\* getBalance: from the cache, from the table, or hydrated; the CHECK on the
\* column refuses to insert a negative balance, and none is found.
Local == CASE cache # Absent -> cache
           [] cache = Absent /\ row # Absent -> row
           [] OTHER -> IF hcm >= 0 THEN hcm ELSE Absent

\* What the lookup leaves in the table.
Hydrated == IF row = Absent THEN Local ELSE row
Found == Local # Absent

GetBalance ==
    /\ Found
    /\ row' = Hydrated
    /\ cache' = Local
    /\ base' = IF row = Absent THEN hcm ELSE base
    /\ UNCHANGED <<hcm, status, days, net, shown>>

\* The TTL passes, or the entry is invalidated.
Expire ==
    /\ cache # Absent
    /\ cache' = Absent
    /\ UNCHANGED <<hcm, row, status, days, history>>

\* An accrual, a correction, time booked elsewhere.
HcmMoves(n) == hcm' = n /\ UNCHANGED <<stored, history>>

-----------------------------------------------------------------------------
(* Requests.                                                                 *)

\* Mutant: the number that was sent is stored.
CreateAny(r, d) ==
    /\ status[r] = "none" /\ Found
    /\ status' = [status EXCEPT ![r] = "PENDING"]
    /\ \E f \in Fixed(d) : days' = [days EXCEPT ![r] = f]
    /\ shown' = [shown EXCEPT ![r] = Local]
    /\ row' = Hydrated
    /\ cache' = Local
    /\ base' = IF row = Absent THEN hcm ELSE base
    /\ UNCHANGED <<hcm, net>>

\* createRequest validates the number it was sent and stores it rounded.  A
\* request that is refused has looked the balance up all the same (GetBalance).
Create(r, d) ==
    /\ status[r] = "none" /\ Found
    /\ d <= Local
    /\ status' = [status EXCEPT ![r] = "PENDING"]
    /\ \E f \in Fixed(d) : days' = [days EXCEPT ![r] = f]
    /\ shown' = [shown EXCEPT ![r] = Local]
    /\ row' = Hydrated
    /\ cache' = Local
    /\ base' = IF row = Absent THEN hcm ELSE base
    /\ UNCHANGED <<hcm, net>>

Move(r, st, n) ==
    /\ status' = [status EXCEPT ![r] = st]
    /\ row' \in Fixed(row + n)
    /\ cache' = Absent
    /\ net' = net + n
    /\ UNCHANGED <<hcm, days, base, shown>>

\* Mutant: a day more than there is may be taken.
CoveredAlmost(r) == days[r] <= row + 1000

\* validateBalance on the row refreshBalance has just cached.
Covered(r) == days[r] <= row

Approve(r) ==
    /\ status[r] = "PENDING"
    /\ \/ /\ Covered(r)
          /\ Move(r, "APPROVED", -days[r])
       \/ /\ ~Covered(r)
          /\ cache' = row
          /\ UNCHANGED <<hcm, row, status, days, history>>

Reject(r) ==
    /\ status[r] = "PENDING"
    /\ status' = [status EXCEPT ![r] = "REJECTED"]
    /\ UNCHANGED <<hcm, row, cache, days, history>>

Cancel(r) == status[r] = "APPROVED" /\ Move(r, "CANCELLED", days[r])

-----------------------------------------------------------------------------
(* Synchronization.                                                          *)

\* One balance of a batch, or realTimeSyncBalance: getBalance, and the row takes
\* the HCM's number over, whether it differs from what was found or not.  The
\* CHECK refuses a negative one.
Sync ==
    /\ Found
    /\ cache' = Local
    /\ row' = IF hcm >= 0 THEN hcm ELSE Hydrated
    /\ base' = IF hcm >= 0 THEN hcm ELSE base
    /\ net' = IF hcm >= 0 THEN 0 ELSE net
    /\ UNCHANGED <<hcm, status, days, shown>>

-----------------------------------------------------------------------------
Next ==
    \/ GetBalance \/ Expire \/ Sync
    \/ \E n \in Amounts : HcmMoves(n)
    \/ \E r \in Requests :
          \/ \E d \in Asks : Create(r, d)
          \/ Approve(r) \/ Reject(r) \/ Cancel(r)

Spec == Init /\ [][Next]_vars

-----------------------------------------------------------------------------
(* Properties.                                                               *)

\* Type invariant.
TypeOK ==
    /\ hcm \in Int
    /\ row \in Int \cup {Absent} /\ cache \in Nat \cup {Absent}
    /\ status \in [Requests -> Statuses]
    /\ days \in [Requests -> Nat]
    /\ base \in Int /\ net \in Int
    /\ shown \in [Requests -> Nat]

\* Rounding does not accumulate: after any number of approvals and
\* cancellations the row is within half a hundredth of what the HCM's number
\* and the requests since then amount to.
RoundingBounded == row # Absent => Abs(row - (base + net)) <= 5

\* What a request will take when it is approved is what was checked when it was
\* accepted: at most half a hundredth more than the balance shown, and no more
\* at all when that balance had two decimals.
AcceptedFits ==
    \A r \in Requests :
       status[r] # "none" =>
          /\ days[r] <= shown[r] + 5
          /\ shown[r] % 10 = 0 => days[r] <= shown[r]

\* No sequence of syncs and decisions brings the row below zero, so that the
\* CHECK on available_balance never refuses a validated approval.
NeverOverdrawn == row # Absent => row >= 0

=============================================================================
