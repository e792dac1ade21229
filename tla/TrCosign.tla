---- MODULE TrCosign ----
(***************************************************************************)
(* Two-round Taproot co-signing over HTTP (adapters/frost_wire_cosign.rs,  *)
(* the handlers of POST /v1/frost/tr/commit and /v1/frost/tr/sign-share).  *)
(*                                                                         *)
(* A coordinator draws a nonce of its own, asks every peer in turn for a   *)
(* commitment, trims the set to min_signers, signs, and asks the selected  *)
(* peers for their shares.  A peer keeps one pending nonce per session and *)
(* removes it when it is asked for a share.  The session id is a hash of   *)
(* the message, so two calls for one transaction share the slot.           *)
(*                                                                         *)
(* Abstracted: a nonce is the number of its draw at its node, a commitment *)
(* is its nonce, a package is the commitments it was made of.  An attempt  *)
(* that times out leaves a stray behind that may be handled at any time    *)
(* (before the retry as well); the number of attempts is not counted.      *)
(* Key packages stay the same: no share refresh happens during a call.     *)
(***************************************************************************)
EXTENDS Naturals, FiniteSets

CONSTANTS
    Node,       \* the vaults, as their FROST identifiers; each lists all others as peers
    Call,       \* calls of sign_raw_wire
    Coord,      \* Coord[c]: the node that coordinates call c
    Session,    \* session ids, one per message
    MinSigners, \* min_signers of the key
    MaxNonces,  \* bound: draws per node
    MaxStrays   \* bound: abandoned requests still on their way

ASSUME NodeAssumption == Node \subseteq Nat /\ IsFiniteSet(Node) /\ Node # {}
ASSUME CoordAssumption == Coord \in [Call -> Node]
ASSUME SignersAssumption == MinSigners \in Nat \ {0, 1} /\ MinSigners <= Cardinality(Node)
ASSUME BoundAssumption == MaxNonces \in Nat /\ MaxStrays \in Nat

Nonce == 1..MaxNonces
NoNonce == 0

VARIABLES
    pending,    \* pending[n][s]: the nonce that awaits round 2 of session s at n
    drawn,      \* drawn[n]: nonces n drew so far
    pc,         \* pc[c]: where the call stands
    sess,       \* sess[c]: the session of the call's message
    todo,       \* todo[c]: peers not answered yet in this round
    commits,    \* commits[c][n]: n's commitment in the call's map, later its package
    shares,     \* shares[c]: nodes whose share the call holds
    strays,     \* requests whose sender no longer waits
    made,       \* history: made[n][i], shares that nonce i of n produced
    lost,       \* history: lost[c], nodes that failed the call or whose restart took its nonces
    met         \* history: met[c], another request of its session was served during the call

callVars == <<pc, sess, todo, commits, shares>>
vars == <<pending, drawn, callVars, strays, made, lost, met>>

Running == {"commit", "share"}
Where == Running \cup {"idle", "ok", "failed"}
Request == [round : Running, to : Node, call : Call]

NoCommits == [n \in Node |-> NoNonce]

Init ==
    /\ pending = [n \in Node |-> [s \in Session |-> NoNonce]]
    /\ drawn = [n \in Node |-> 0]
    /\ pc = [c \in Call |-> "idle"]
    /\ sess \in [Call -> Session]
    /\ todo = [c \in Call |-> {}]
    /\ commits = [c \in Call |-> NoCommits]
    /\ shares = [c \in Call |-> {}]
    /\ strays = {}
    /\ made = [n \in Node |-> [i \in Nonce |-> 0]]
    /\ lost = [c \in Call |-> {}]
    /\ met = [c \in Call |-> FALSE]

----
(***************************************************************************)
(* The peer: TrCosignPeerState.                                            *)
(***************************************************************************)

\* round1::commit draws a fresh nonce.
Draw(n) ==
    /\ drawn[n] < MaxNonces
    /\ drawn' = [drawn EXCEPT ![n] = @ + 1]

\* Mutant: a session that is already pending keeps its entry.
HandleCommitKeepsEntry(n, s) ==
    /\ Draw(n)
    /\ pending' = [pending EXCEPT ![n][s] = IF @ = NoNonce THEN drawn[n] + 1 ELSE @]

\* handle_commit: the new nonce replaces whatever the session had pending.
HandleCommit(n, s) ==
    /\ Draw(n)
    /\ pending' = [pending EXCEPT ![n][s] = drawn[n] + 1]

\* round2::sign refuses nonces that are not the ones committed to in the package.
Matches(n, c) ==
    /\ pending[n][sess[c]] # NoNonce
    /\ pending[n][sess[c]] = commits[c][n]

SignWith(n, i) == made' = [made EXCEPT ![n][i] = @ + 1]

\* Mutant: the entry is read and stays.
HandleSignShareKeepsEntry(n, c) ==
    /\ pending' = pending
    /\ IF Matches(n, c) THEN SignWith(n, pending[n][sess[c]]) ELSE made' = made

\* handle_sign_share: the entry is removed first, so it is gone when the
\* package does not fit as well.
HandleSignShare(n, c) ==
    /\ pending' = [pending EXCEPT ![n][sess[c]] = NoNonce]
    /\ IF Matches(n, c) THEN SignWith(n, pending[n][sess[c]]) ELSE made' = made

----
(***************************************************************************)
(* The coordinator: sign_raw_wire_attributed.                              *)
(***************************************************************************)
OthersOf(c) == {d \in Call \ {c} : sess[d] = sess[c] /\ pc[d] \in Running}

Start(c) ==
    LET n == Coord[c] IN
    /\ pc[c] = "idle"
    /\ Draw(n)
    /\ pc' = [pc EXCEPT ![c] = "commit"]
    /\ commits' = [commits EXCEPT ![c][n] = drawn[n] + 1]
    /\ todo' = [todo EXCEPT ![c] = Node \ {n}]
    /\ met' = [d \in Call |-> met[d] \/ (d \in OthersOf(c)) \/ (d = c /\ OthersOf(c) # {})]
    /\ UNCHANGED <<pending, sess, shares, strays, made, lost>>

\* collect_commitments, one peer answers.
CommitAnswered(c, p) ==
    /\ pc[c] = "commit"
    /\ p \in todo[c]
    /\ HandleCommit(p, sess[c])
    /\ commits' = [commits EXCEPT ![c][p] = drawn[p] + 1]
    /\ todo' = [todo EXCEPT ![c] = @ \ {p}]
    /\ UNCHANGED <<pc, sess, shares, strays, made, lost, met>>

\* post_json_with_retry_blocking: no answer to this attempt, there will be another.
AttemptTimesOut(c, p) ==
    /\ pc[c] \in Running
    /\ p \in todo[c]
    /\ Cardinality(strays) < MaxStrays
    /\ strays' = strays \cup {[round |-> pc[c], to |-> p, call |-> c]}
    /\ lost' = [lost EXCEPT ![c] = @ \cup {p}]
    /\ UNCHANGED <<pending, drawn, callVars, made, met>>

\* The last attempt failed, or the answer is an error: the call ends.
PeerFails(c, p) ==
    /\ pc[c] \in Running
    /\ p \in todo[c]
    /\ pc' = [pc EXCEPT ![c] = "failed"]
    /\ todo' = [todo EXCEPT ![c] = {}]
    /\ lost' = [lost EXCEPT ![c] = @ \cup {p}]
    /\ UNCHANGED <<pending, drawn, sess, commits, shares, strays, made, met>>

Committed(c) == {n \in Node : commits[c][n] # NoNonce}

\* Mutant: the trim stops one signer late.
SelectedOneMore(c) ==
    {n \in Committed(c) :
        n = Coord[c] \/ Cardinality({q \in Committed(c) \ {Coord[c]} : q < n}) < MinSigners}

\* The trim: the local node and the lowest identifiers, min_signers in all.
Selected(c) ==
    {n \in Committed(c) :
        n = Coord[c] \/ Cardinality({q \in Committed(c) \ {Coord[c]} : q < n}) < MinSigners - 1}

\* Every peer has answered, so there are enough commitments (SignersAssumption):
\* trim, build the package and sign with the local nonce.
Pack(c) ==
    LET n == Coord[c] IN
    /\ pc[c] = "commit"
    /\ todo[c] = {}
    /\ pc' = [pc EXCEPT ![c] = "share"]
    /\ commits' = [commits EXCEPT ![c] = [p \in Node |-> IF p \in Selected(c) THEN @[p] ELSE NoNonce]]
    /\ todo' = [todo EXCEPT ![c] = Selected(c) \ {n}]
    /\ SignWith(n, commits[c][n])
    /\ shares' = [shares EXCEPT ![c] = {n}]
    /\ UNCHANGED <<pending, drawn, sess, strays, lost, met>>

\* collect_signature_shares, one peer answers with its share.
ShareAnswered(c, p) ==
    /\ pc[c] = "share"
    /\ p \in todo[c]
    /\ Matches(p, c)
    /\ HandleSignShare(p, c)
    /\ todo' = [todo EXCEPT ![c] = @ \ {p}]
    /\ shares' = [shares EXCEPT ![c] = @ \cup {p}]
    /\ UNCHANGED <<drawn, pc, sess, commits, strays, lost, met>>

\* The peer has no entry or another one: 400, which is not retried.
ShareRefused(c, p) ==
    /\ pc[c] = "share"
    /\ p \in todo[c]
    /\ ~Matches(p, c)
    /\ HandleSignShare(p, c)
    /\ pc' = [pc EXCEPT ![c] = "failed"]
    /\ todo' = [todo EXCEPT ![c] = {}]
    /\ UNCHANGED <<drawn, sess, commits, shares, strays, lost, met>>

\* All selected peers answered: aggregate and verify, if there are enough shares.
Finish(c) ==
    /\ pc[c] = "share"
    /\ todo[c] = {}
    /\ pc' = [pc EXCEPT ![c] = IF Cardinality(shares[c]) < MinSigners THEN "failed" ELSE "ok"]
    /\ UNCHANGED <<pending, drawn, sess, todo, commits, shares, strays, made, lost, met>>

----
\* A request is handled after its sender gave the attempt up.
StrayArrives(r) ==
    /\ r \in strays
    /\ strays' = strays \ {r}
    /\ \/ r.round = "commit" /\ HandleCommit(r.to, sess[r.call]) /\ made' = made
       \/ r.round = "share" /\ HandleSignShare(r.to, r.call) /\ drawn' = drawn
    /\ met' = [d \in Call |-> met[d] \/ (sess[d] = sess[r.call] /\ pc[d] \in Running)]
    /\ UNCHANGED <<callVars, lost>>

\* Pending nonces and running calls are in memory only.
CrashRestart(n) ==
    /\ pending' = [pending EXCEPT ![n] = [s \in Session |-> NoNonce]]
    /\ pc' = [c \in Call |-> IF Coord[c] = n /\ pc[c] \in Running THEN "failed" ELSE pc[c]]
    /\ todo' = [c \in Call |-> IF Coord[c] = n THEN {} ELSE todo[c]]
    /\ lost' = [c \in Call |->
                  IF pc[c] \in Running /\ (Coord[c] = n \/ pending[n][sess[c]] # NoNonce)
                  THEN lost[c] \cup {n} ELSE lost[c]]
    /\ UNCHANGED <<drawn, sess, commits, shares, strays, made, met>>

Step(c, p) ==
    \/ CommitAnswered(c, p)
    \/ AttemptTimesOut(c, p)
    \/ PeerFails(c, p)
    \/ ShareAnswered(c, p)
    \/ ShareRefused(c, p)

Next ==
    \/ \E c \in Call : Start(c) \/ Pack(c) \/ Finish(c)
    \/ \E c \in Call, p \in Node : Step(c, p)
    \/ \E r \in strays : StrayArrives(r)
    \/ \E n \in Node : CrashRestart(n)

Spec == Init /\ [][Next]_vars

----
(***************************************************************************)
(* Properties.                                                             *)
(***************************************************************************)

\* Every variable has its type.
TypeOK ==
    /\ pending \in [Node -> [Session -> Nonce \cup {NoNonce}]]
    /\ drawn \in [Node -> 0..MaxNonces]
    /\ pc \in [Call -> Where]
    /\ sess \in [Call -> Session]
    /\ todo \in [Call -> SUBSET Node]
    /\ commits \in [Call -> [Node -> Nonce \cup {NoNonce}]]
    /\ shares \in [Call -> SUBSET Node]
    /\ strays \subseteq Request
    /\ made \in [Node -> [Nonce -> Nat]]
    /\ lost \in [Call -> SUBSET Node]
    /\ met \in [Call -> BOOLEAN]

\* A signing nonce produces at most one share, whatever requests are repeated,
\* late or in competition (pending.remove in handle_sign_share).
NonceSignsOnce == \A n \in Node, i \in Nonce : made[n][i] <= 1

\* A call that returned a signature has min_signers shares, its own among them,
\* each made with the nonce its package names and with no other.
OkIsWhole ==
    \A c \in Call : pc[c] = "ok" =>
        /\ Cardinality(shares[c]) = MinSigners
        /\ Coord[c] \in shares[c]
        /\ shares[c] = Committed(c)
        /\ \A p \in shares[c] : made[p][commits[c][p]] = 1

\* A call fails only because of a lost answer or restart during it, or because a
\* request of the same session crossed it: nonces that earlier calls left
\* pending, and calls for other messages, never break one.
FailureHasCause ==
    \A c \in Call : pc[c] = "failed" => lost[c] # {} \/ met[c]
====
