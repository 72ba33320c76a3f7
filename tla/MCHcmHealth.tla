------------------------------- MODULE MCHcmHealth -------------------------------
(* Small instances of HcmHealth: two callers of the breaker, two health       *)
(* requests.  The runs check liveness, so no symmetry is used.               *)
EXTENDS HcmHealth

CONSTANTS c1, c2, h1, h2

=============================================================================
