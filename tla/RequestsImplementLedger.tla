------------------------ MODULE RequestsImplementLedger ------------------------
(***************************************************************************)
(* TimeOffRequests implements LeaveLedger as long as one decision per leave  *)
(* type runs at a time and nothing fails; creates, reads and decisions on    *)
(* other leave types may run beside it.                                     *)
(*                                                                         *)
(* approveRequest and cancelRequest write the balance before the request,   *)
(* so the ledger's Approve and Cancel happen at the balance write, and a     *)
(* request whose decision is between the two writes already counts as       *)
(* decided.                                                                *)
(***************************************************************************)
EXTENDS TimeOffRequests

\* A table has finitely many rows: the days approved in it have a sum.
ASSUME RequestsAssumption == IsFiniteSet(Requests)

\* The days of a row are never mistaken for the absence of a row.
ASSUME UnopenedAssumption == NoRow \notin [available : Nat, used : Nat]

BetweenWrites(k, r) ==
    \E p \in Slots : /\ call[p].kind = k /\ call[p].req = r
                     /\ pc[p] \in {"deductInvalidate", "refundInvalidate", "saveReq"}

LedgerStatus ==
    [r \in Requests |->
        IF BetweenWrites("approve", r) THEN "APPROVED"
        ELSE IF BetweenWrites("cancel", r) THEN "CANCELLED"
        ELSE reqs[r].status]

LedgerDays ==
    [lt \in LeaveTypes |->
        IF balance[lt] = NoRow THEN NoRow
        ELSE [available |-> balance[lt].available, used |-> balance[lt].used]]

Ledger == INSTANCE LeaveLedger WITH
              status <- LedgerStatus, days <- LedgerDays, Unopened <- NoRow

\* The requests and the balances behave as a ledger in which a decision and
\* its days are one step: nothing is approved beyond the available days, no
\* refund is cut at zero, no refresh undoes a deduction.
LedgerRefined == Ledger!Spec

=============================================================================
