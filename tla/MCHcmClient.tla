------------------------------ MODULE MCHcmClient ------------------------------
(* Small instances of HcmClient: one balance the server knows and one it does *)
(* not; HCM_TIMEOUT of 5 s and the server's 6.5 s in ticks of 2.5 s, rounded   *)
(* up; nobody but the clients calls the server.                             *)
EXTENDS HcmClient, TLC

CONSTANTS pto, unknown

MCSeed == [d \in {pto} |-> 2]
MCDimensionOf == [s \in Submissions |-> pto]
MCDaysOf == [s \in Submissions |-> 1]
ClientSymmetry == Permutations(Callers) \cup Permutations(Clients)

=============================================================================
