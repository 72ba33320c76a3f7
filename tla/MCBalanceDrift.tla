---------------------------- MODULE MCBalanceDrift ----------------------------
(* Small instances of BalanceDrift: balances with two and with three decimals, *)
(* a hundredth and more than a day apart, and one below zero; requests of one  *)
(* day, of 1.995, which rounds both ways, and of 1.996, which rounds up.       *)
EXTENDS BalanceDrift, TLC

MCAmounts == {-1000, 1997, 2000, 10000, 10010}
MCAsks == {1000, 1995, 1996}
MCSymmetry == Permutations(Requests)

=============================================================================
