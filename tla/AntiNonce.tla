---- MODULE AntiNonce ----
(***************************************************************************)
(* The quorum-replicated anti-nonce ledger of the vault mesh               *)
(* (adapters/session_persist.rs and the handler of                         *)
(* POST /v1/anti-nonce/prepare in adapters/http.rs).                       *)
(*                                                                         *)
(* A claim is one call of QuorumAntiNonce::claim_session, made by a        *)
(* signing request on the node that coordinates it.  It burns the session  *)
(* id in the node's own log, then posts a durable prepare to every peer in *)
(* turn, and succeeds when a quorum of 2/3 acknowledged and no peer had    *)
(* seen the id.  Requests and answers can be lost, a request can be        *)
(* handled long after its sender timed out, attempts are retried, and a    *)
(* node can crash at any point and restart from its log.                   *)
(*                                                                         *)
(* Abstracted: session ids are values; the append to the log file is one   *)
(* step (module ConsumedLog opens it up); the log remembers WHICH claim      *)
(* burnt an id, which the file does not: the code only ever asks whether   *)
(* an id is there.                                                         *)
(***************************************************************************)
EXTENDS Naturals, FiniteSets

CONSTANTS
    Node,         \* the vault nodes; every node lists all others as peers
    Session,      \* signing session ids
    Claim,        \* calls of claim_session
    NoClaim,      \* the id was not burnt
    NoNode,       \* the claim talks to no peer
    MaxRetries,   \* PeerHttpSettings.max_retries, at least one attempt
    Workers       \* runtime threads of a node; claims and handlers block one each

ASSUME NodeAssumption == IsFiniteSet(Node) /\ Node # {} /\ NoNode \notin Node
ASSUME ClaimAssumption == NoClaim \notin Claim
ASSUME BoundAssumption == MaxRetries \in Nat \ {0} /\ Workers \in Nat \ {0}

VARIABLES
    log,    \* log[n][s]: the claim whose prepare put s in n's durable log
    soft,   \* soft[n]: ids under an unexpired soft prepare at n
    st,     \* st[c]: where the call stands, or how it returned
    node,   \* node[c]: the node that runs the call
    sess,   \* sess[c]: the session id it claims
    todo,   \* todo[c]: peers it has not contacted yet
    peer,   \* peer[c]: the peer it is waiting for
    try,    \* try[c]: the attempt at that peer
    acks,   \* acks[c]: peers that answered 200
    seen,   \* seen[c]: some answer said already_seen
    lost,   \* lost[c]: history, some attempt ended without reading its answer
    reqs,   \* prepare requests on their way to a peer
    resp    \* resp[c]: the answer waiting for c's current attempt

claimVars == <<node, sess, todo, peer, try, acks, seen, lost>>
vars == <<log, soft, st, claimVars, reqs, resp>>

Running == {"fanout", "waiting"}
Returned == {"ok", "reuse", "noquorum", "error"}
Answer == {"fresh", "seen", "refused"}

Request == [claim : Claim, to : Node, try : 1..MaxRetries]

(***************************************************************************)
(* t = ceil(2n/3); a node without peers needs only itself.                 *)
(***************************************************************************)
\* Mutant: a third instead of two thirds.
QuorumOneThird(n) == (n + 2) \div 3

QuorumTwoThirds(n) == (2 * n + 2) \div 3

QuorumT == IF Cardinality(Node) = 1 THEN 1 ELSE QuorumTwoThirds(Cardinality(Node))

\* A claim makes blocking HTTP calls on a runtime thread of its node.
FreeWorker(n) == Cardinality({c \in Claim : st[c] \in Running /\ node[c] = n}) < Workers

\* The attempt a request belongs to is still waited for.
Current(r) == st[r.claim] = "waiting" /\ peer[r.claim] = r.to /\ try[r.claim] = r.try

Reply(r, a) ==
    resp' = IF Current(r) THEN [resp EXCEPT ![r.claim] = a] ELSE resp

Init ==
    /\ log = [n \in Node |-> [s \in Session |-> NoClaim]]
    /\ soft = [n \in Node |-> {}]
    /\ st = [c \in Claim |-> "idle"]
    /\ node \in [Claim -> Node]
    /\ sess \in [Claim -> Session]
    /\ todo = [c \in Claim |-> {}]
    /\ peer = [c \in Claim |-> NoNode]
    /\ try = [c \in Claim |-> 1]
    /\ acks = [c \in Claim |-> {}]
    /\ seen = [c \in Claim |-> FALSE]
    /\ lost = [c \in Claim |-> FALSE]
    /\ reqs = {}
    /\ resp = [c \in Claim |-> "none"]

----
(***************************************************************************)
(* The coordinator.                                                        *)
(***************************************************************************)

\* claim_session, step 1: check and burn in the node's own log, under its lock.
BurnLocal(c) ==
    /\ st[c] = "idle"
    /\ FreeWorker(node[c])
    /\ IF log[node[c]][sess[c]] # NoClaim
       THEN /\ st' = [st EXCEPT ![c] = "reuse"]
            /\ UNCHANGED <<log, soft, todo>>
       ELSE /\ log' = [log EXCEPT ![node[c]][sess[c]] = c]
            /\ soft' = [soft EXCEPT ![node[c]] = @ \ {sess[c]}]
            /\ st' = [st EXCEPT ![c] = "fanout"]
            /\ todo' = [todo EXCEPT ![c] = Node \ {node[c]}]
    /\ UNCHANGED <<node, sess, peer, try, acks, seen, lost, reqs, resp>>

\* The append fails (disk): nothing is burnt and the claim returns the error.
LocalAppendError(c) ==
    /\ st[c] = "idle"
    /\ FreeWorker(node[c])
    /\ log[node[c]][sess[c]] = NoClaim
    /\ st' = [st EXCEPT ![c] = "error"]
    /\ UNCHANGED <<log, soft, claimVars, reqs, resp>>

\* prepare_on_peers: the HTTP client cannot be built.  The id is burnt here, no
\* peer was asked, and the claim returns the error.
ClientError(c) ==
    /\ st[c] = "fanout"
    /\ todo[c] = Node \ {node[c]} /\ todo[c] # {}
    /\ st' = [st EXCEPT ![c] = "error"]
    /\ UNCHANGED <<log, soft, claimVars, reqs, resp>>

\* prepare_on_peers: first attempt at the next peer of the list.
SendPrepare(c, p) ==
    /\ st[c] = "fanout"
    /\ p \in todo[c]
    /\ st' = [st EXCEPT ![c] = "waiting"]
    /\ todo' = [todo EXCEPT ![c] = @ \ {p}]
    /\ peer' = [peer EXCEPT ![c] = p]
    /\ try' = [try EXCEPT ![c] = 1]
    /\ reqs' = reqs \cup {[claim |-> c, to |-> p, try |-> 1]}
    /\ UNCHANGED <<log, soft, node, sess, acks, seen, lost, resp>>

\* A 200 with a readable body is an acknowledgement, whatever already_seen says.
ReceiveAck(c) ==
    /\ st[c] = "waiting"
    /\ resp[c] \in {"fresh", "seen"}
    /\ st' = [st EXCEPT ![c] = "fanout"]
    /\ acks' = [acks EXCEPT ![c] = @ \cup {peer[c]}]
    /\ seen' = [seen EXCEPT ![c] = @ \/ resp[c] = "seen"]
    /\ resp' = [resp EXCEPT ![c] = "none"]
    /\ UNCHANGED <<log, soft, node, sess, todo, peer, try, lost, reqs>>

\* A 200 whose body cannot be read or parsed fails the whole claim.
ReceiveTruncated(c) ==
    /\ st[c] = "waiting"
    /\ resp[c] \in {"fresh", "seen"}
    /\ st' = [st EXCEPT ![c] = "error"]
    /\ lost' = [lost EXCEPT ![c] = TRUE]
    /\ resp' = [resp EXCEPT ![c] = "none"]
    /\ UNCHANGED <<log, soft, node, sess, todo, peer, try, acks, seen, reqs>>

\* 400 and 429 are not retried: on to the next peer, without an acknowledgement.
ReceiveRefusal(c) ==
    /\ st[c] = "waiting"
    /\ resp[c] = "refused"
    /\ st' = [st EXCEPT ![c] = "fanout"]
    /\ resp' = [resp EXCEPT ![c] = "none"]
    /\ UNCHANGED <<log, soft, claimVars, reqs>>

\* Mutant: a failed attempt is repeated without being counted.
AttemptFailsUncounted(c) ==
    /\ st[c] = "waiting"
    /\ lost' = [lost EXCEPT ![c] = TRUE]
    /\ resp' = [resp EXCEPT ![c] = "none"]
    /\ reqs' = reqs \cup {[claim |-> c, to |-> peer[c], try |-> try[c]]}
    /\ UNCHANGED <<log, soft, st, node, sess, todo, peer, try, acks, seen>>

\* Transport error, timeout, 408 or 5xx: try again, or give the peer up.
AttemptFails(c) ==
    /\ st[c] = "waiting"
    /\ lost' = [lost EXCEPT ![c] = TRUE]
    /\ resp' = [resp EXCEPT ![c] = "none"]
    /\ IF try[c] < MaxRetries
       THEN /\ try' = [try EXCEPT ![c] = @ + 1]
            /\ reqs' = reqs \cup {[claim |-> c, to |-> peer[c], try |-> try[c] + 1]}
            /\ st' = st
       ELSE /\ st' = [st EXCEPT ![c] = "fanout"]
            /\ UNCHANGED <<try, reqs>>
    /\ UNCHANGED <<log, soft, node, sess, todo, peer, acks, seen>>

\* Mutant: acknowledgements are counted, already_seen is not looked at.
VerdictIgnoresSeen(c) ==
    IF 1 + Cardinality(acks[c]) < QuorumT THEN "noquorum" ELSE "ok"

\* claim_session, step 2: every peer was tried; the verdict.
Verdict(c) ==
    IF seen[c] THEN "reuse"
    ELSE IF 1 + Cardinality(acks[c]) < QuorumT THEN "noquorum"
    ELSE "ok"

FinishClaim(c) ==
    /\ st[c] = "fanout"
    /\ todo[c] = {}
    /\ st' = [st EXCEPT ![c] = Verdict(c)]
    /\ UNCHANGED <<log, soft, claimVars, reqs, resp>>

----
(***************************************************************************)
(* The peer: v1_anti_nonce_prepare.                                        *)
(***************************************************************************)

\* Mutant: the durable flag is dropped, the peer only makes a soft entry.
HandlePrepareSoftOnly(r) ==
    /\ r \in reqs
    /\ FreeWorker(r.to)
    /\ reqs' = reqs \ {r}
    /\ LET s == sess[r.claim] IN
       IF log[r.to][s] = NoClaim /\ s \notin soft[r.to]
       THEN /\ soft' = [soft EXCEPT ![r.to] = @ \cup {s}]
            /\ Reply(r, "fresh")
       ELSE /\ Reply(r, "seen")
            /\ UNCHANGED soft
    /\ UNCHANGED <<log, st, claimVars>>

\* Mutant: a soft entry counts as a burn, as in is_consumed.
HandlePrepareSeesSoft(r) ==
    /\ r \in reqs
    /\ FreeWorker(r.to)
    /\ reqs' = reqs \ {r}
    /\ LET s == sess[r.claim] IN
       IF log[r.to][s] = NoClaim /\ s \notin soft[r.to]
       THEN /\ log' = [log EXCEPT ![r.to][s] = r.claim]
            /\ Reply(r, "fresh")
       ELSE /\ Reply(r, "seen")
            /\ UNCHANGED log
    /\ UNCHANGED <<soft, st, claimVars>>

\* durable = true: PersistedAntiNonce::prepare, then the answer, if anybody
\* still waits for it.
HandlePrepare(r) ==
    /\ r \in reqs
    /\ FreeWorker(r.to)
    /\ reqs' = reqs \ {r}
    /\ LET s == sess[r.claim] IN
       IF log[r.to][s] = NoClaim
       THEN /\ log' = [log EXCEPT ![r.to][s] = r.claim]
            /\ soft' = [soft EXCEPT ![r.to] = @ \ {s}]
            /\ Reply(r, "fresh")
       ELSE /\ Reply(r, "seen")
            /\ UNCHANGED <<log, soft>>
    /\ UNCHANGED <<st, claimVars>>

\* The rate limiter (429), or a failed append (400): nothing is burnt.
RefusePrepare(r) ==
    /\ r \in reqs
    /\ FreeWorker(r.to)
    /\ reqs' = reqs \ {r}
    /\ Reply(r, "refused")
    /\ UNCHANGED <<log, soft, st, claimVars>>

\* durable = false: PersistedAntiNonce::prepare_soft, for an id neither burnt nor soft.
SoftPrepare(n, s) ==
    /\ FreeWorker(n)
    /\ log[n][s] = NoClaim
    /\ s \notin soft[n]
    /\ soft' = [soft EXCEPT ![n] = @ \cup {s}]
    /\ UNCHANGED <<log, st, claimVars, reqs, resp>>

\* PREPARE_TTL passed: the next sweep forgets the entry.
SoftExpires(n, s) ==
    /\ s \in soft[n]
    /\ soft' = [soft EXCEPT ![n] = @ \ {s}]
    /\ UNCHANGED <<log, st, claimVars, reqs, resp>>

\* Mutant: the ledger is not loaded from its log at restart.
CrashRestartForgets(n) ==
    /\ st' = [c \in Claim |-> IF node[c] = n /\ st[c] \in Running THEN "crashed" ELSE st[c]]
    /\ resp' = [c \in Claim |-> IF node[c] = n THEN "none" ELSE resp[c]]
    /\ soft' = [soft EXCEPT ![n] = {}]
    /\ log' = [log EXCEPT ![n] = [s \in Session |-> NoClaim]]
    /\ UNCHANGED <<claimVars, reqs>>

\* The process dies and opens its log again: its calls are gone, its soft
\* entries are gone, its log stays, and what it had sent is still on its way.
CrashRestart(n) ==
    /\ st' = [c \in Claim |-> IF node[c] = n /\ st[c] \in Running THEN "crashed" ELSE st[c]]
    /\ resp' = [c \in Claim |-> IF node[c] = n THEN "none" ELSE resp[c]]
    /\ soft' = [soft EXCEPT ![n] = {}]
    /\ UNCHANGED <<log, claimVars, reqs>>

----
Step(c) ==
    \/ BurnLocal(c)
    \/ LocalAppendError(c)
    \/ ClientError(c)
    \/ \E p \in Node : SendPrepare(c, p)
    \/ ReceiveAck(c)
    \/ ReceiveTruncated(c)
    \/ ReceiveRefusal(c)
    \/ AttemptFails(c)
    \/ FinishClaim(c)

Next ==
    \/ \E c \in Claim : Step(c)
    \/ \E r \in reqs : HandlePrepare(r) \/ RefusePrepare(r)
    \/ \E n \in Node, s \in Session : SoftPrepare(n, s) \/ SoftExpires(n, s)
    \/ \E n \in Node : CrashRestart(n)

Spec == Init /\ [][Next]_vars

\* The blocking HTTP client has a timeout, so a running claim always moves on.
Fairness ==
    \A c \in Claim :
        WF_vars(\/ \E p \in Node : SendPrepare(c, p)
                \/ ReceiveAck(c) \/ ReceiveRefusal(c) \/ AttemptFails(c)
                \/ FinishClaim(c))

FairSpec == Spec /\ Fairness

----
(***************************************************************************)
(* Properties.                                                             *)
(***************************************************************************)

\* Every variable has its type; answers exist only for waiting attempts.
TypeOK ==
    /\ log \in [Node -> [Session -> Claim \cup {NoClaim}]]
    /\ soft \in [Node -> SUBSET Session]
    /\ st \in [Claim -> {"idle", "crashed"} \cup Running \cup Returned]
    /\ node \in [Claim -> Node]
    /\ sess \in [Claim -> Session]
    /\ todo \in [Claim -> SUBSET Node]
    /\ peer \in [Claim -> Node \cup {NoNode}]
    /\ try \in [Claim -> 1..MaxRetries]
    /\ acks \in [Claim -> SUBSET Node]
    /\ seen \in [Claim -> BOOLEAN]
    /\ lost \in [Claim -> BOOLEAN]
    /\ reqs \subseteq Request
    /\ resp \in [Claim -> Answer \cup {"none"}]
    /\ \A c \in Claim : st[c] = "waiting" => peer[c] \in Node

\* The nodes whose log holds the id because of claim c.
BurntBy(c) == {n \in Node : log[n][sess[c]] = c}

\* claim_session returns Ok for at most one call per session id in the whole
\* mesh, whatever is lost, delayed, retried or restarted in between.
AtMostOneWinner ==
    \A c, d \in Claim : st[c] = "ok" /\ st[d] = "ok" /\ sess[c] = sess[d] => c = d

\* An Ok is backed by a quorum of durable logs that hold the id because of
\* this very call: no acknowledgement counts that rests on a soft entry, on
\* somebody else's burn or on a request that was never handled.
WinnerHoldsQuorum ==
    \A c \in Claim : st[c] = "ok" => Cardinality(BurntBy(c)) >= QuorumT

\* "crash mid-flight never reuses this id here": once a call got past its
\* local burn, however it ends (quorum unmet, refused, crashed), its
\* coordinator will refuse the id from then on.
FailedClaimStaysBurnt ==
    \A c \in Claim :
        st[c] \in Running \cup {"ok", "noquorum", "reuse", "crashed"}
            => log[node[c]][sess[c]] # NoClaim

\* A claim is refused as a reuse only when another call of the same id really
\* started, or when the claim lost one of its own answers and met its own
\* burn again on the retry.  Soft prepares never cause a refusal.
RefusalHasCause ==
    \A c \in Claim :
        st[c] = "reuse" =>
            \/ lost[c]
            \/ \E d \in Claim \ {c} : sess[d] = sess[c] /\ st[d] # "idle"

\* Every call of claim_session returns (or dies with its node), even when all
\* nodes block their runtime threads in claims that wait for each other.
ClaimsReturn == \A c \in Claim : st[c] \in Running ~> st[c] \notin Running

\* The implemented abstract specification: who was granted which session.
GrantedTo(s) ==
    IF \E c \in Claim : st[c] = "ok" /\ sess[c] = s
    THEN CHOOSE c \in Claim : st[c] = "ok" /\ sess[c] = s
    ELSE NoClaim

Abstract == INSTANCE SessionGrant WITH granted <- [s \in Session |-> GrantedTo(s)]

\* The protocol implements SessionGrant: a session, once granted, stays granted
\* to the same call.
ImplementsGrant == Abstract!GrantSpec
====
