---- MODULE MCTrCosign ----
(* Three vaults, two of which have to sign; both coordinators select vault 1. *)
EXTENDS TrCosign, TLC
CONSTANTS c1, c2
TwoCoordinators == c1 :> 2 @@ c2 :> 3
Symmetry == Permutations(Session)
====
