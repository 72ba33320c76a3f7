----------------------------- MODULE MCBalanceSync -----------------------------
(* Small instances of BalanceSync: the HCM granted 12 days, of which 2 are    *)
(* used; then 3 more are used outside the system, or it also grants 3 more.   *)
EXTENDS BalanceSync

CONSTANTS r1, annual

MCLeaveOf == [r \in Requests |-> annual]
MCDaysOf == [r \in Requests |-> 6]
MCHcmBalance == [lt \in LeaveTypes |-> [available |-> 10, used |-> 2]]
MCHcmNumbers == {[available |-> 7, used |-> 5], [available |-> 10, used |-> 5]}

\* The batch names one balance twice, which nothing in the code forbids: the
\* second turn of its loop meets what the first one and the handlers left.
MCBatches == {<<annual, annual>>}

=============================================================================
