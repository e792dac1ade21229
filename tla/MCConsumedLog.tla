---- MODULE MCConsumedLog ----
(* Two threads and three ids on one log file, of either kind. *)
EXTENDS ConsumedLog, TLC
Perms == Permutations(Id) \cup Permutations(Writer)
====
