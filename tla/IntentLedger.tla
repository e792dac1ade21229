---- MODULE IntentLedger ----
(***************************************************************************)
(* The mesh-replicated spending ledger: QuorumBucketLedger over            *)
(* PersistedBucketLedger (adapters/intent_consume.rs, bucket_memory.rs),   *)
(* the gate in front of it (application/intent_ops.rs) and the HTTP        *)
(* handlers that drive it (adapters/http.rs).                              *)
(*                                                                         *)
(* A call is one HTTP request on one node for one intent:                  *)
(*   "sign"     reserve, sign the PSBT, then commit, or release on failure *)
(*   "execute"  reserve and commit at once (POST /v1/intent)               *)
(*   "reserve"  the first half alone, for the two-phase channel inject     *)
(*   "commit"   the second half alone, which its client retries            *)
(*   "release"  gives a reservation back                                   *)
(* Reserve and commit post a soft or a durable prepare to every peer in    *)
(* turn.  A request whose answer never comes may still be handled at any   *)
(* later moment.  A node may crash and restart from its log of consumed    *)
(* ids: reservations and today's spending are memory only.                 *)
(*                                                                         *)
(* Abstracted: one bucket, so the policy is a pair of caps; an intent is a *)
(* value with an amount; the signature itself succeeds or fails; the log   *)
(* keeps which call burnt an id, which the file does not.                  *)
(***************************************************************************)
EXTENDS Integers, FiniteSets, FiniteSetsExt

CONSTANTS
    Node, Intent, Call,
    NoCall,       \* the intent was not consumed
    Kinds,        \* the kinds of calls the clients make
    Amount,       \* Amount[i]: amount_sats of the intent
    MaxTx,        \* max_per_tx_sats
    MaxDay,       \* max_per_day_sats
    MaxRetries    \* attempts at one peer

ASSUME NodeAssumption == IsFiniteSet(Node) /\ Node # {}
ASSUME CallAssumption == NoCall \notin Call
ASSUME KindAssumption == Kinds \subseteq {"sign", "execute", "reserve", "commit", "release"}
ASSUME AmountAssumption == Amount \in [Intent -> Nat] /\ MaxTx \in Nat /\ MaxDay \in Nat
ASSUME BoundAssumption == MaxRetries \in Nat \ {0}

VARIABLES
    consumed,   \* consumed[n][i]: the call whose burn put i in n's log
    reserved,   \* reserved[n]: intents with an entry in n's reservation table
    own,        \* own[n]: those whose entry holds the amount (a peer's soft entry holds 0)
    spent,      \* spent[n]: spent_today
    st,         \* st[c]: where the call stands, or how it returned
    kind, node, intent,   \* what the call asks for, and where
    tries,      \* tries[c][p]: attempts at peer p in the current fan-out
    todo,       \* todo[c]: peers of the current fan-out without a result yet
    acks,       \* acks[c]: peers that answered 200
    seen,       \* seen[c]: some answer said already_seen or was unreadable
    strays,     \* requests whose sender no longer waits for the answer
    late,       \* late[c]: history, the intent was already committed when c reserved
    paid,       \* paid[n]: history, intents n signed for and committed since it started
    loosed      \* loosed[n]: history, what was taken off spent[n] since n started although
                \* a call still stood for it, or with no reservation to stand for

asked == <<kind, node, intent>>
fanout == <<tries, todo, acks, seen>>
tables == <<consumed, reserved, own, spent>>
history == <<late, paid, loosed>>
vars == <<tables, st, asked, fanout, strays, history>>

Stray == [call : Call, to : Node, durable : BOOLEAN]

Live == {"reserving", "signing", "accepted", "claiming", "committing"}
Committed == {"fresh", "again"}
Failed == {"no_reserve", "no_sign", "no_commit", "cut_reserve"}

QuorumTwoThirds(n) == (2 * n + 2) \div 3

QuorumT == IF Cardinality(Node) = 1 THEN 1 ELSE QuorumTwoThirds(Cardinality(Node))

\* Mutant: the subtraction does not saturate.
PlainSub(a, b) == a - b

\* u64::saturating_sub
SatSub(a, b) == IF a < b THEN 0 ELSE a - b

Held(n, i) == IF i \in own[n] THEN Amount[i] ELSE 0

\* The part of evaluate_intent that depends on the ledger's state.
EvaluateIntent(i, spentToday) ==
    /\ Amount[i] > 0
    /\ Amount[i] <= MaxTx
    /\ spentToday + Amount[i] <= MaxDay

Init ==
    /\ consumed = [n \in Node |-> [i \in Intent |-> NoCall]]
    /\ reserved = [n \in Node |-> {}]
    /\ own = [n \in Node |-> {}]
    /\ spent = [n \in Node |-> 0]
    /\ st = [c \in Call |-> "idle"]
    /\ kind \in [Call -> Kinds]
    /\ node \in [Call -> Node]
    /\ intent \in [Call -> Intent]
    /\ tries = [c \in Call |-> [p \in Node |-> 0]]
    /\ todo = [c \in Call |-> {}]
    /\ acks = [c \in Call |-> {}]
    /\ seen = [c \in Call |-> FALSE]
    /\ strays = {}
    /\ late = [c \in Call |-> FALSE]
    /\ paid = [n \in Node |-> {}]
    /\ loosed = [n \in Node |-> 0]

----
(***************************************************************************)
(* The local tables of a node.                                             *)
(***************************************************************************)

\* release_reservation: an entry is dropped with the amount it holds; without
\* an entry the amount the caller names is taken off all the same.
Taken(n, i) == IF i \in reserved[n] THEN Held(n, i) ELSE Amount[i]

Release(n, i) ==
    /\ reserved' = [reserved EXCEPT ![n] = @ \ {i}]
    /\ own' = [own EXCEPT ![n] = @ \ {i}]
    /\ spent' = [spent EXCEPT ![n] = SatSub(@, Taken(n, i))]
    /\ consumed' = consumed

\* The calls that count on an amount of their intent being held on their node.
Holder(c) ==
    \/ st[c] \in {"reserving", "signing", "accepted"}
    \/ st[c] \in {"claiming", "committing"} /\ kind[c] # "commit"

HeldBy(n) == {i \in Intent : \E c \in Call : node[c] = n /\ intent[c] = i /\ Holder(c)}

Loose(n, amount) == loosed' = [loosed EXCEPT ![n] = @ + amount]

\* prepare_consume of an intent that is not in the log: the entry goes, the
\* spending it stood for stays.
Burn(n, c) ==
    /\ consumed' = [consumed EXCEPT ![n][intent[c]] = c]
    /\ reserved' = [reserved EXCEPT ![n] = @ \ {intent[c]}]
    /\ own' = [own EXCEPT ![n] = @ \ {intent[c]}]
    /\ spent' = spent

\* Mutant: a soft prepare looks at the reservations only.
AlreadySeenReservedOnly(p, i, durable) ==
    IF durable THEN consumed[p][i] # NoCall ELSE i \in reserved[p]

\* v1_intent_consume_prepare at peer p for call c, and whether it answers already_seen.
AlreadySeen(p, i, durable) ==
    consumed[p][i] # NoCall \/ (~durable /\ i \in reserved[p])

\* Mutant: the transport's default, a durable prepare is sent as a soft one.
PrepareAlwaysSoft(p, c, durable) ==
    IF AlreadySeen(p, intent[c], durable) THEN UNCHANGED tables
    ELSE /\ reserved' = [reserved EXCEPT ![p] = @ \cup {intent[c]}]
         /\ UNCHANGED <<consumed, own, spent>>

Prepare(p, c, durable) ==
    IF AlreadySeen(p, intent[c], durable) THEN UNCHANGED tables
    ELSE IF durable THEN Burn(p, c)
    ELSE /\ reserved' = [reserved EXCEPT ![p] = @ \cup {intent[c]}]
         /\ UNCHANGED <<consumed, own, spent>>

\* Mutant: the sweep takes the amount off and leaves the entry.
ExpireKeepsEntry(n, i) ==
    /\ i \in reserved[n]
    /\ spent' = [spent EXCEPT ![n] = SatSub(@, Held(n, i))]
    /\ Loose(n, IF i \in HeldBy(n) THEN Held(n, i) ELSE 0)
    /\ UNCHANGED <<consumed, reserved, own, st, asked, fanout, strays, late, paid>>

\* DEFAULT_RESERVE_TTL passed: the next sweep_expired drops the entry and takes
\* its amount off, whether or not the call that made it still runs.
Expire(n, i) ==
    /\ i \in reserved[n]
    /\ reserved' = [reserved EXCEPT ![n] = @ \ {i}]
    /\ own' = [own EXCEPT ![n] = @ \ {i}]
    /\ spent' = [spent EXCEPT ![n] = SatSub(@, Held(n, i))]
    /\ Loose(n, IF i \in HeldBy(n) THEN Held(n, i) ELSE 0)
    /\ UNCHANGED <<consumed, st, asked, fanout, strays, late, paid>>

----
(***************************************************************************)
(* The fan-out that reserve and commit share.                              *)
(***************************************************************************)
\* Mutant: reserve burns on the peers at once.
DurableAlways(c) == TRUE

Durable(c) == st[c] = "committing"

StartFanout(c) ==
    /\ tries' = [tries EXCEPT ![c] = [p \in Node |-> 0]]
    /\ todo' = [todo EXCEPT ![c] = Node \ {node[c]}]
    /\ acks' = [acks EXCEPT ![c] = {}]
    /\ seen' = [seen EXCEPT ![c] = FALSE]

\* A peer handles the prepare and its 200 is read.
PeerAnswers(c, p) ==
    /\ st[c] \in {"reserving", "committing"}
    /\ p \in todo[c]
    /\ seen' = [seen EXCEPT ![c] = @ \/ AlreadySeen(p, intent[c], Durable(c))]
    /\ Prepare(p, c, Durable(c))
    /\ acks' = [acks EXCEPT ![c] = @ \cup {p}]
    /\ todo' = [todo EXCEPT ![c] = @ \ {p}]
    /\ UNCHANGED <<st, asked, tries, strays, history>>

\* No answer is read: the request is lost, refused, or still on its way.
PeerSilent(c, p) ==
    /\ st[c] \in {"reserving", "committing"}
    /\ p \in todo[c]
    /\ strays' = strays \cup {[call |-> c, to |-> p, durable |-> Durable(c)]}
    /\ tries' = [tries EXCEPT ![c][p] = @ + 1]
    /\ todo' = [todo EXCEPT ![c] = IF tries[c][p] + 1 < MaxRetries THEN @ ELSE @ \ {p}]
    /\ UNCHANGED <<tables, st, asked, acks, seen, history>>

\* A 200 whose body cannot be read ends the fan-out: a reserve returns at once
\* and gives nothing back, a commit ends as a refused one does.
PeerGarbles(c, p) ==
    /\ st[c] \in {"reserving", "committing"}
    /\ p \in todo[c]
    /\ Prepare(p, c, Durable(c))
    /\ todo' = [todo EXCEPT ![c] = {}]
    /\ seen' = [seen EXCEPT ![c] = TRUE]
    /\ st' = [st EXCEPT ![c] = IF Durable(c) THEN @ ELSE "cut_reserve"]
    /\ UNCHANGED <<asked, tries, acks, strays, history>>

\* build_blocking_client fails before any peer is asked: the same end.
ClientError(c) ==
    /\ st[c] \in {"reserving", "committing"}
    /\ todo[c] = Node \ {node[c]} /\ todo[c] # {} /\ tries[c] = [p \in Node |-> 0]
    /\ todo' = [todo EXCEPT ![c] = {}]
    /\ seen' = [seen EXCEPT ![c] = TRUE]
    /\ st' = [st EXCEPT ![c] = IF Durable(c) THEN @ ELSE "cut_reserve"]
    /\ UNCHANGED <<tables, asked, tries, acks, strays, history>>

\* A request nobody waits for any more reaches its peer.
StrayArrives(m) ==
    /\ m \in strays
    /\ strays' = strays \ {m}
    /\ Prepare(m.to, m.call, m.durable)
    /\ UNCHANGED <<st, asked, fanout, history>>

\* Mutant: answers are counted, already_seen is not looked at.
RefusedOnlyByCount(c) == 1 + Cardinality(acks[c]) < QuorumT

Refused(c) == seen[c] \/ 1 + Cardinality(acks[c]) < QuorumT

----
(***************************************************************************)
(* The calls.                                                              *)
(***************************************************************************)

\* GateIntent::run and its callers: what follows a reservation.
Phase(c) ==
    CASE kind[c] = "sign" -> "signing"
      [] kind[c] = "execute" -> "accepted"
      [] OTHER -> "reserved"

\* reserve_spend, the part under the lock: replay check, caps, hold the amount.
ReserveLocal(c) ==
    LET n == node[c]  i == intent[c] IN
    /\ st[c] = "idle"
    /\ kind[c] \in {"sign", "execute", "reserve"}
    /\ late' = [late EXCEPT ![c] = \E d \in Call : st[d] = "fresh" /\ intent[d] = i]
    /\ IF consumed[n][i] # NoCall \/ i \in reserved[n] \/ ~EvaluateIntent(i, spent[n])
       THEN /\ st' = [st EXCEPT ![c] = "no_reserve"]
            /\ UNCHANGED <<tables, fanout>>
       ELSE /\ st' = [st EXCEPT ![c] = "reserving"]
            /\ reserved' = [reserved EXCEPT ![n] = @ \cup {i}]
            /\ own' = [own EXCEPT ![n] = @ \cup {i}]
            /\ spent' = [spent EXCEPT ![n] = @ + Amount[i]]
            /\ StartFanout(c)
            /\ UNCHANGED consumed
    /\ UNCHANGED <<asked, strays, paid, loosed>>

\* reserve_spend, after the peers: refuse and roll back here (the peers' soft
\* entries stay until they expire), or go on.
ReserveEnds(c) ==
    /\ st[c] = "reserving"
    /\ todo[c] = {}
    /\ IF Refused(c)
       THEN Release(node[c], intent[c]) /\ st' = [st EXCEPT ![c] = "no_reserve"]
       ELSE /\ UNCHANGED tables
            /\ st' = [st EXCEPT ![c] = Phase(c)]
    /\ UNCHANGED <<asked, fanout, strays, history>>

\* tr.sign_psbt fails, or there is no key or no quorum online: give the amount back.
SignFails(c) ==
    /\ st[c] = "signing"
    /\ Release(node[c], intent[c])
    /\ st' = [st EXCEPT ![c] = "no_sign"]
    /\ UNCHANGED <<asked, fanout, strays, history>>

SignSucceeds(c) ==
    /\ st[c] = "signing"
    /\ st' = [st EXCEPT ![c] = "accepted"]
    /\ UNCHANGED <<tables, asked, fanout, strays, history>>

\* History: the call's answer lets its intent be paid.
Pay(c, ok) ==
    paid' = IF ok /\ kind[c] \in {"sign", "execute"}
            THEN [paid EXCEPT ![node[c]] = @ \cup {intent[c]}] ELSE paid

ReadyToCommit(c) == st[c] = "accepted" \/ (st[c] = "idle" /\ kind[c] = "commit")

\* commit_consume, first lock: Ok at once for an id in the local log.
CommitLocal(c) ==
    /\ ReadyToCommit(c)
    /\ st' = [st EXCEPT ![c] =
                 IF consumed[node[c]][intent[c]] # NoCall THEN "again" ELSE "claiming"]
    /\ Pay(c, consumed[node[c]][intent[c]] # NoCall)
    /\ UNCHANGED <<tables, asked, fanout, strays, late, loosed>>

\* A commit fails: only the one-shot path gives the amount back.
RollBack(c) ==
    IF kind[c] = "execute" THEN Release(node[c], intent[c]) ELSE UNCHANGED tables

\* claim_consume, second lock: burn the id here and promote the peers' entries.
ClaimLocal(c) ==
    /\ st[c] = "claiming"
    /\ consumed[node[c]][intent[c]] = NoCall
    /\ st' = [st EXCEPT ![c] = "committing"]
    /\ Burn(node[c], c)
    /\ StartFanout(c)
    /\ UNCHANGED <<asked, strays, history>>

\* Another call burnt the id between the two locks, or the append to
\* consumed_intents.log fails.
ClaimFails(c) ==
    /\ st[c] = "claiming"
    /\ st' = [st EXCEPT ![c] = "no_commit"]
    /\ RollBack(c)
    /\ UNCHANGED <<asked, fanout, strays, history>>

\* claim_consume, after the peers.  The burn stays in every case.
CommitEnds(c) ==
    /\ st[c] = "committing"
    /\ todo[c] = {}
    /\ st' = [st EXCEPT ![c] = IF Refused(c) THEN "no_commit" ELSE "fresh"]
    /\ IF Refused(c) THEN RollBack(c) ELSE UNCHANGED tables
    /\ Pay(c, ~Refused(c))
    /\ UNCHANGED <<asked, fanout, strays, late, loosed>>

\* POST /v1/intent/release asks for no more than the intent's name and amount:
\* it may hit what a running call counts on, or nothing at all.
ReleaseCall(c) ==
    LET n == node[c]  i == intent[c] IN
    /\ st[c] = "idle"
    /\ kind[c] = "release"
    /\ Release(n, i)
    /\ Loose(n, IF i \notin reserved[n] \/ i \in HeldBy(n) THEN Taken(n, i) ELSE 0)
    /\ st' = [st EXCEPT ![c] = "released"]
    /\ UNCHANGED <<asked, fanout, strays, late, paid>>

\* The process dies and loads consumed_intents.log: everything else is gone.
CrashRestart(n) ==
    /\ st' = [c \in Call |-> IF node[c] = n /\ st[c] \in Live THEN "crashed" ELSE st[c]]
    /\ reserved' = [reserved EXCEPT ![n] = {}]
    /\ own' = [own EXCEPT ![n] = {}]
    /\ spent' = [spent EXCEPT ![n] = 0]
    /\ paid' = [paid EXCEPT ![n] = {}]
    /\ loosed' = [loosed EXCEPT ![n] = 0]
    /\ UNCHANGED <<consumed, asked, fanout, strays, late>>

Next ==
    \/ \E c \in Call :
          \/ ReserveLocal(c) \/ ReserveEnds(c)
          \/ SignFails(c) \/ SignSucceeds(c)
          \/ CommitLocal(c) \/ ClaimLocal(c) \/ ClaimFails(c) \/ CommitEnds(c)
          \/ ClientError(c) \/ ReleaseCall(c)
    \/ \E c \in Call, p \in Node :
          PeerAnswers(c, p) \/ PeerSilent(c, p) \/ PeerGarbles(c, p)
    \/ \E m \in strays : StrayArrives(m)
    \/ \E n \in Node, i \in Intent : Expire(n, i)
    \/ \E n \in Node : CrashRestart(n)

Spec == Init /\ [][Next]_vars
----
(***************************************************************************)
(* Properties.                                                             *)
(***************************************************************************)

\* Every variable has its type; only reserved intents hold an amount.
TypeOK ==
    /\ consumed \in [Node -> [Intent -> Call \cup {NoCall}]]
    /\ reserved \in [Node -> SUBSET Intent]
    /\ own \in [Node -> SUBSET Intent]
    /\ \A n \in Node : own[n] \subseteq reserved[n]
    /\ spent \in [Node -> Nat]
    /\ st \in [Call -> {"idle", "reserved", "released", "crashed"}
                          \cup Live \cup Committed \cup Failed]
    /\ kind \in [Call -> Kinds]
    /\ node \in [Call -> Node]
    /\ intent \in [Call -> Intent]
    /\ tries \in [Call -> [Node -> 0..MaxRetries]]
    /\ todo \in [Call -> SUBSET Node]
    /\ acks \in [Call -> SUBSET Node]
    /\ seen \in [Call -> BOOLEAN]
    /\ strays \subseteq Stray
    /\ late \in [Call -> BOOLEAN]
    /\ paid \in [Node -> SUBSET Intent]
    /\ loosed \in [Node -> Nat]

BurntBy(c) == {n \in Node : consumed[n][intent[c]] = c}

\* Of all calls for one intent, on whatever nodes, at most one gets its commit
\* through the quorum.
AtMostOneFreshCommit ==
    \A c, d \in Call :
        st[c] = "fresh" /\ st[d] = "fresh" /\ intent[c] = intent[d] => c = d

\* A commit that went through the mesh left the intent in a quorum of durable
\* logs, by its own burns.
FreshCommitHoldsQuorum ==
    \A c \in Call : st[c] = "fresh" => Cardinality(BurntBy(c)) >= QuorumT

\* Once an intent was committed through the quorum, no call that starts later,
\* on any node, after any restarts and expiries, gets a reservation for it, so
\* none gets as far as signing.
NoReserveAfterCommit ==
    \A c \in Call : late[c] => st[c] \in {"idle", "reserving", "no_reserve", "cut_reserve", "crashed"}

\* "a failed sign does not burn the Intent": an intent is in some log only
\* because of a call that was past its signature.
OnlySignedIntentsBurn ==
    \A n \in Node, c \in Call :
        consumed[n][intent[c]] = c =>
            st[c] \in {"committing", "fresh", "no_commit", "crashed"}

Total(S) == MapThenSumSet(LAMBDA i : Amount[i], S)

\* What spent_today of n stands for: open reservations, what was paid, and what
\* running calls may still pay.
Charged(n) == own[n] \cup paid[n] \cup HeldBy(n)

\* spent_today covers all that, but for what was loosed.
AllIsCounted == \A n \in Node : Total(Charged(n)) <= spent[n] + loosed[n]

\* While a node keeps running it passes max_per_day_sats by no more than that.
DayCapHolds == \A n \in Node : Total(Charged(n)) <= MaxDay + loosed[n]

\* Through every refusal, rollback, expiry and lost answer of overlapping calls a
\* node counts what it promised, and what it promises and pays stays under the cap
\* (reserve_spend, release_reservation, sweep_expired).  Only two things can open a
\* gap, and it is never wider than the amounts they took off: a sweep under a call
\* that outlives its reservation, and a client's release of what a running call
\* counts on or nobody holds.
CapsHold == AllIsCounted /\ DayCapHolds
====
