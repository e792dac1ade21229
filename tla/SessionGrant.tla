---- MODULE SessionGrant ----
(***************************************************************************)
(* What the anti-nonce ledger promises to the signing path, with nothing   *)
(* of how it is done: a signing session id is granted to at most one claim *)
(* in the whole mesh, once and for ever (AntiNoncePort: "one               *)
(* signing_session_id -> at most one nonce package, survives restart").    *)
(* AntiNonce is shown to implement this specification.                     *)
(***************************************************************************)
CONSTANTS Session, Claim, NoClaim

VARIABLE granted

GrantInit == granted = [s \in Session |-> NoClaim]

Grant(s, c) ==
    /\ granted[s] = NoClaim
    /\ granted' = [granted EXCEPT ![s] = c]

GrantNext == \E s \in Session, c \in Claim : Grant(s, c)

GrantSpec == GrantInit /\ [][GrantNext]_granted
====
