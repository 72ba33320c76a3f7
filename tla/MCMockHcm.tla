------------------------------- MODULE MCMockHcm -------------------------------
(* Small instances of MockHcm: one seeded dimension with 2 days and one the   *)
(* server does not know, submissions of 1, 3 and 1 days.                     *)
EXTENDS MockHcm

CONSTANTS pto, unknown, s1, s2, s3

MCSeed == [d \in {pto} |-> 2]
MCDimensionOf == [s \in Submissions |-> IF s = s3 THEN unknown ELSE pto]
MCBatches == {<<pto, unknown, pto>>}
MCDaysOf == [s \in Submissions |-> IF s = s2 THEN 3 ELSE 1]

=============================================================================
