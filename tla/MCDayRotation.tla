---- MODULE MCDayRotation ----
(* Two nodes, one of which serves two advance calls. *)
EXTENDS DayRotation, TLC
CONSTANTS n1, n2
BothOnFirst == [k \in Call |-> n1]
Perms == Permutations(Call)
====
