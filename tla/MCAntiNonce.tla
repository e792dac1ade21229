---- MODULE MCAntiNonce ----
(* Three nodes (quorum 2) and rival claims of one session id. *)
EXTENDS AntiNonce, TLC
Perms == Permutations(Node) \cup Permutations(Claim)
====
