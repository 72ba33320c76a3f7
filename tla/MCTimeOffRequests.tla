--------------------------- MODULE MCTimeOffRequests ---------------------------
(* Small instances of TimeOffRequests: requests for 6 and 5 days of a leave   *)
(* type with 10 days available, so each fits and two together do not.         *)
EXTENDS RequestsImplementLedger

CONSTANTS r1, r2, r3, annual, sick

MCLeaveOf == [r \in Requests |-> annual]
MCDaysOf == [r \in Requests |-> IF r = r1 THEN 6 ELSE 5]
MCHcmBalance == [lt \in LeaveTypes |-> [available |-> 10, used |-> 2]]

\* Two leave types of one employee: a decision on one clears the other's cache.
MCLeaveOfTwo == [r \in Requests |-> IF r = r2 THEN sick ELSE annual]

=============================================================================
