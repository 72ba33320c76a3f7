------------------------------ MODULE LeaveLedger ------------------------------
(***************************************************************************)
(* What the time-off service promises its clients, with neither cache,      *)
(* versions nor handlers: a ledger in which the status of a request and the *)
(* days on the balance change together.                                    *)
(***************************************************************************)
EXTENDS Integers

CONSTANTS Requests, LeaveTypes, LeaveOf, DaysOf, HcmBalance, Unopened

VARIABLES
    status,     \* request -> its status, "NONE" before it is submitted
    days        \* leave type -> [available, used], or Unopened

Entitlement(lt) == HcmBalance[lt].available + HcmBalance[lt].used

Init ==
    /\ status = [r \in Requests |-> "NONE"]
    /\ days = [lt \in LeaveTypes |-> Unopened]

\* The first use of a leave type copies the HCM's numbers.
Open(lt) ==
    /\ days[lt] = Unopened
    /\ days' = [days EXCEPT ![lt] = HcmBalance[lt]]
    /\ UNCHANGED status

\* A submission is checked against a balance that may be out of date: all it
\* promises is that the employee is entitled to that many days at all.
Submit(r) ==
    /\ status[r] = "NONE"
    /\ days[LeaveOf[r]] # Unopened
    /\ DaysOf[r] <= Entitlement(LeaveOf[r])
    /\ status' = [status EXCEPT ![r] = "PENDING"]
    /\ UNCHANGED days

Move(lt, d) ==
    days' = [days EXCEPT ![lt] = [available |-> @.available - d, used |-> @.used + d]]

Approve(r) ==
    /\ status[r] = "PENDING"
    /\ DaysOf[r] <= days[LeaveOf[r]].available
    /\ status' = [status EXCEPT ![r] = "APPROVED"]
    /\ Move(LeaveOf[r], DaysOf[r])

Reject(r) ==
    /\ status[r] = "PENDING"
    /\ status' = [status EXCEPT ![r] = "REJECTED"]
    /\ UNCHANGED days

Cancel(r) ==
    /\ status[r] = "APPROVED"
    /\ status' = [status EXCEPT ![r] = "CANCELLED"]
    /\ Move(LeaveOf[r], -DaysOf[r])

Next ==
    \/ \E lt \in LeaveTypes : Open(lt)
    \/ \E r \in Requests : Submit(r) \/ Approve(r) \/ Reject(r) \/ Cancel(r)

Spec == Init /\ [][Next]_<<status, days>>

=============================================================================
