---- MODULE MCIntentLedger ----
(* Small meshes for the spending ledger. *)
EXTENDS IntentLedger, TLC
CONSTANTS i1, i2
Perms == Permutations(Node) \cup Permutations(Call)
EachCostsTwo == [i \in Intent |-> 2]
====
