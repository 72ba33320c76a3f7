--------------------------- MODULE MCBalanceIdentity ---------------------------
(* Small instances of BalanceIdentity.  The HCM knows every spelling, as the  *)
(* mock does, or only the lower-case one.                                    *)
EXTENDS BalanceIdentity

CONSTANTS emp1, EMP1, r1, r2

MCLowerOf == [s \in Spellings |-> emp1]
MCSpellingOf == [r \in Requests |-> IF r = r1 /\ EMP1 \in Spellings THEN EMP1 ELSE emp1]

=============================================================================
