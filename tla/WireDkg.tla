------------------------------ MODULE WireDkg ------------------------------
(***************************************************************************)
(* Key generation and share refresh over the wire.  Every vault runs the   *)
(* three FROST parts locally and exchanges round packages over HTTP.       *)
(*                                                                         *)
(* Three hubs have the same shape: "plain" (dkg_wire.rs), "tr"             *)
(* (dkg_tr_wire.rs) and "reshare" (reshare_wire.rs).  The variable hub     *)
(* says which one a behaviour runs.  A polynomial is known by its owner    *)
(* and a version: part1 run number v of the owner.  A group key is the     *)
(* vector of versions it was summed from.  There is one session id; the    *)
(* constitution a session is frozen with, its roster 1..max and threshold  *)
(* min, is what operators may disagree on.                                 *)
(*                                                                         *)
(* A message that left a node may arrive at any later time: a post that    *)
(* timed out, or a response that an operator relays by hand (stray).       *)
(***************************************************************************)
EXTENDS Integers, FiniteSets

CONSTANTS
    N,          \* seated vaults 1..N, in the order of their node ids
    Hubs,       \* the hubs of this instance
    Constitutions, \* [max, min] an operator may ask for, the roster is 1..max
    Call,       \* HTTP requests in progress
    Owner,      \* Owner[c]: the vault that serves call c
    MaxParts,   \* bound: part1 runs of one vault
    MaxFaults,  \* bound: lost posts, failed writes and restarts
    MaxStray,   \* bound: messages on their way outside a fan-out
    NoSession, NoKey

Node == 1 .. N
Ids == UNION {1 .. k.max : k \in Constitutions}

ASSUME WireDkgAssumption ==
    /\ N \in Nat /\ N >= 2
    /\ Hubs \subseteq {"plain", "tr", "reshare"} /\ Hubs # {}
    /\ \A k \in Constitutions : k.max \in Nat /\ k.min \in 2 .. k.max /\ N <= k.max
    /\ Owner \in [Call -> Node]
    /\ MaxParts \in Nat /\ MaxFaults \in Nat /\ MaxStray \in Nat

VARIABLES
    hub,     \* the hub this behaviour runs
    sess,    \* sess[n]: sessions map of vault n (one session id)
    made,    \* made[n]: constitutions of the part1 runs of n, by version
    call,    \* call[c]: what the handler of call c does next
    stray,   \* messages that may still arrive
    store,   \* store[n]: the sealed pieces of vault n
    slot,    \* slot[n]: the key material boot installed
    faults   \* faults so far

vars == <<hub, sess, made, call, stray, store, slot, faults>>

Versions == 0 .. MaxParts
Keys == [Ids -> Versions]
Idle == [op |-> "idle", ver |-> 0, con |-> NoKey, todo |-> {}]
Empty == [share |-> NoKey, pub |-> NoKey, tail |-> NoKey]
Msg(r, n, p, v, k) == [round |-> r, from |-> n, to |-> p, ver |-> v, con |-> k]

\* Every variable has its type; the installed slot is empty or has all its pieces
\* (load_tr_shares fails as a whole when one is missing).
TypeOK ==
    /\ hub \in Hubs
    /\ sess \in [Node -> [con : Constitutions, phase : {"round1", "round2", "complete"},
                          secret1 : BOOLEAN, own : Versions, r1 : Keys, r2 : Keys,
                          out : SUBSET Ids] \cup {NoSession}]
    /\ made \in [Node -> UNION {[1 .. k -> Constitutions] : k \in Versions}]
    /\ call \in [Call -> [op : {"idle", "insert", "fan1", "fan2"}, ver : Versions,
                          con : Constitutions \cup {NoKey}, todo : SUBSET Node]]
    /\ stray \subseteq [round : {1, 2}, from : Node, to : Node, ver : Versions, con : Constitutions]
    /\ store \in [Node -> [share : Keys \cup {NoKey}, pub : Keys \cup {NoKey},
                           tail : Constitutions \cup {NoKey}]]
    /\ slot \in [Node -> [share : Keys, pub : Keys, tail : Constitutions] \cup {Empty}]
    /\ faults \in 0 .. MaxFaults

(***************************************************************************)
(* The session record and its transitions                                  *)
(***************************************************************************)

\* The session record part1 leaves: only the own package is known.
NewSession(n, v, k) ==
    [con |-> k, phase |-> "round1", secret1 |-> TRUE, own |-> v,
     r1 |-> [p \in Ids |-> IF p = n THEN v ELSE 0], r2 |-> [p \in Ids |-> 0], out |-> {}]

Roster(s) == 1 .. s.con.max

\* session_transcript: what every round message is bound to.
Transcript(k) == <<"kerosene-dkg-wire-v1", k.max, k.min>>

\* session_transcript_tr: the same constitution in a domain of its own.
TranscriptTr(k) == <<"kerosene-dkg-tr-wire-v1", k.max, k.min>>

\* reshare_transcript: no domain prefix, day and constitution hash are fixed here.
TranscriptReshare(k) == <<k.max, k.min>>

Bound(k) == CASE hub = "plain" -> Transcript(k)
              [] hub = "tr" -> TranscriptTr(k)
              [] hub = "reshare" -> TranscriptReshare(k)

\* identifier_to_u16 of the DKG hubs: the position in the sorted roster.
IdentifierToU16(n) == n

\* Identifier::serialize (external): a 32-byte big-endian scalar.
Serialize(n) == [i \in 0 .. 31 |-> CASE i = 31 -> n % 256 [] i = 30 -> n \div 256 [] OTHER -> 0]

\* identifier_to_u16 of the reshare hub: byte 0 of the serialized identifier.
IdentifierToU16Reshare(n) == Serialize(n)[0]

SenderIdentifier(n) == IF hub = "reshare" THEN IdentifierToU16Reshare(n) ELSE IdentifierToU16(n)

\* identifier_from_u16 refuses zero; the sender's roster entry must match.
SenderOk(n) == SenderIdentifier(n) # 0 /\ SenderIdentifier(n) = n

\* frost part2 (external): one commitment per threshold degree, or an error.
Part2Accepts(s) == \A p \in Roster(s) : made[p][s.r1[p]].min = s.con.min

\* frost part3 (external): every round 2 package fits the sender's round 1 commitment.
Part3Accepts(n, s) == \A p \in Roster(s) \ {n} : s.r2[p] = s.r1[p]

Full(s) == \A p \in Roster(s) : s.r1[p] # 0

\* advance_to_round2: the round 1 secret is taken before part2 may fail.
AdvanceToRound2(n, s) ==
    IF Part2Accepts(s)
    THEN [s EXCEPT !.secret1 = FALSE, !.phase = "round2", !.out = Roster(s) \ {n}]
    ELSE [s EXCEPT !.secret1 = FALSE]

\* advance_to_round2 of the Taproot and of the reshare hub take it first as well.
AdvanceToRound2Tr(n, s) == AdvanceToRound2(n, s)
AdvanceToRound2Reshare(n, s) == AdvanceToRound2(n, s)

AdvanceIfFull(n, s) ==
    IF Full(s) /\ s.secret1 /\ s.phase = "round1"
    THEN CASE hub = "plain" -> AdvanceToRound2(n, s)
           [] hub = "tr" -> AdvanceToRound2Tr(n, s)
           [] hub = "reshare" -> AdvanceToRound2Reshare(n, s)
    ELSE s

\* Mutant: the drift and transcript checks are dropped.
Admits1Drifts(s, m) == m.from \in Roster(s) /\ SenderOk(m.from)

\* The checks ingest_round1 makes before it looks at the package.
Admits1(s, m) ==
    /\ m.con.max = s.con.max /\ m.con.min = s.con.min
    /\ Bound(m.con) = Bound(s.con)
    /\ m.from \in Roster(s) /\ SenderOk(m.from)

\* ingest_round1 of the plain hub: a known package is kept once round 2 began.
IngestRound1(n, s, m) ==
    IF s.phase = "complete" \/ m.from = n \/ s.phase # "round1" THEN s
    ELSE AdvanceIfFull(n, [s EXCEPT !.r1[m.from] = m.ver])

IngestRound1Tr(n, s, m) == IngestRound1(n, s, m)

\* ingest_round1 of the reshare hub: a package is replaced in any phase but the last.
IngestRound1Reshare(n, s, m) ==
    IF s.phase = "complete" THEN s
    ELSE AdvanceIfFull(n, [s EXCEPT !.r1[m.from] = m.ver])

\* Mutant: a package that comes before the own round 2 is refused.
Admits2Early(s, m) ==
    Bound(m.con) = Bound(s.con) /\ m.from \in Roster(s) /\ SenderOk(m.from) /\ s.phase = "round2"

\* ingest_round2: the inbox keeps the latest package of a sender.
Admits2(s, m) == Bound(m.con) = Bound(s.con) /\ m.from \in Roster(s) /\ SenderOk(m.from)

IngestRound2(s, m) == IF s.phase = "complete" THEN s ELSE [s EXCEPT !.r2[m.from] = m.ver]

IngestRound2Tr(s, m) == IngestRound2(s, m)
IngestRound2Reshare(s, m) == IngestRound2(s, m)

\* The receiving vault answers success.
Accepts(m) ==
    LET s == sess[m.to] IN
    /\ s # NoSession
    /\ \/ s.phase = "complete"
       \/ m.round = 1 /\ Admits1(s, m)
       \/ m.round = 2 /\ Admits2(s, m)

Ingested(m) ==
    LET n == m.to
        s == sess[n] IN
    IF m.round = 1
    THEN CASE hub = "plain" -> IngestRound1(n, s, m)
           [] hub = "tr" -> IngestRound1Tr(n, s, m)
           [] hub = "reshare" -> IngestRound1Reshare(n, s, m)
    ELSE CASE hub = "plain" -> IngestRound2(s, m)
           [] hub = "tr" -> IngestRound2Tr(s, m)
           [] hub = "reshare" -> IngestRound2Reshare(s, m)

\* The answer is an error as well when the package was kept but part2 failed.
Succeeds(m) == Accepts(m) /\ (sess[m.to].secret1 => Ingested(m).secret1 \/ Ingested(m).phase = "round2")

\* What a delivered message does to the sessions.
Handle(m) == sess' = IF Accepts(m) THEN [sess EXCEPT ![m.to] = Ingested(m)] ELSE sess

(***************************************************************************)
(* Requests                                                                *)
(***************************************************************************)

Init ==
    /\ hub \in Hubs
    /\ sess = [n \in Node |-> NoSession]
    /\ made = [n \in Node |-> [v \in 1 .. 0 |-> 0]]
    /\ call = [c \in Call |-> Idle]
    /\ stray = {}
    /\ store = [n \in Node |-> Empty]
    /\ slot = [n \in Node |-> Empty]
    /\ faults = 0

\* What a caller gets after start: the package goes to the peers one by one,
\* or into the response.
SendRound1(c, n, v, k, fanout) ==
    IF fanout
    THEN /\ call' = [call EXCEPT ![c] = [op |-> "fan1", ver |-> v, con |-> k, todo |-> Node \ {n}]]
         /\ UNCHANGED stray
    ELSE /\ call' = [call EXCEPT ![c] = Idle]
         /\ stray' = stray \cup {Msg(1, n, p, v, k) : p \in Node \ {n}}
         /\ Cardinality(stray') <= MaxStray

\* start on a known session: same constitution returns the frozen package again,
\* another one is refused.
Restate(c, k, fanout) ==
    LET n == Owner[c] IN
    /\ call[c] = Idle
    /\ sess[n] # NoSession
    /\ Bound(k) = Bound(sess[n].con)
    /\ SendRound1(c, n, sess[n].own, k, fanout)
    /\ UNCHANGED <<hub, sess, made, store, slot, faults>>

\* start on an unknown session: the lock is dropped after the look-up, part1 runs.
Start(c, k) ==
    LET n == Owner[c]
        v == Cardinality(DOMAIN made[n]) + 1 IN
    /\ call[c] = Idle
    /\ sess[n] = NoSession
    /\ v <= MaxParts
    /\ made' = [made EXCEPT ![n] = [i \in 1 .. v |-> IF i = v THEN k ELSE @[i]]]
    /\ call' = [call EXCEPT ![c] = [op |-> "insert", ver |-> v, con |-> k, todo |-> {}]]
    /\ UNCHANGED <<hub, sess, stray, store, slot, faults>>

\* ... and its last lines: the session is inserted, over whatever is there now.
Insert(c, fanout) ==
    LET n == Owner[c] IN
    /\ call[c].op = "insert"
    /\ sess' = [sess EXCEPT ![n] = NewSession(n, call[c].ver, call[c].con)]
    /\ SendRound1(c, n, call[c].ver, call[c].con, fanout)
    /\ UNCHANGED <<hub, made, store, slot, faults>>

\* start of the Taproot hub, of the reshare hub: the same two steps.
StartTr(c, k) == hub = "tr" /\ Start(c, k)
StartReshare(c, k) == hub = "reshare" /\ Start(c, k)

StartAny(c, k) == \/ hub = "plain" /\ Start(c, k)
                  \/ StartTr(c, k)
                  \/ StartReshare(c, k)

\* take_round2_outbound drains the packages before they are delivered.
TakeRound2Outbound(s) == [s EXCEPT !.out = {}]
TakeRound2OutboundTr(s) == TakeRound2Outbound(s)
TakeRound2OutboundReshare(s) == TakeRound2Outbound(s)

\* dkg_round2_impl with deliver: drain, then post to the peers or answer with the
\* messages.  What a fan-out does not deliver is gone.
DkgRound2Impl(c, fanout) ==
    LET n == Owner[c]
        s == sess[n] IN
    /\ call[c] = Idle
    /\ s # NoSession /\ s.out # {}
    /\ sess' = [sess EXCEPT ![n] = CASE hub = "plain" -> TakeRound2Outbound(s)
                                          [] hub = "tr" -> TakeRound2OutboundTr(s)
                                          [] hub = "reshare" -> TakeRound2OutboundReshare(s)]
    /\ IF fanout
       THEN /\ call' = [call EXCEPT ![c] = [op |-> "fan2", ver |-> s.own, con |-> s.con, todo |-> s.out]]
            /\ UNCHANGED stray
       ELSE /\ stray' = stray \cup {Msg(2, n, p, s.own, s.con) : p \in s.out}
            /\ Cardinality(stray') <= MaxStray
            /\ UNCHANGED call
    /\ UNCHANGED <<hub, made, store, slot, faults>>

\* The next post of a fan-out, in the order of the peer ids.
NextPost(c) ==
    LET p == CHOOSE p \in call[c].todo : \A q \in call[c].todo : p <= q IN
    Msg(IF call[c].op = "fan1" THEN 1 ELSE 2, Owner[c], p, call[c].ver, call[c].con)

\* fanout_round1 and fanout_round2: one post after the other, stop at the first
\* peer that does not answer success.
FanOut(c) ==
    LET m == NextPost(c) IN
    /\ call[c].op \in {"fan1", "fan2"} /\ call[c].todo # {}
    /\ Handle(m)
    /\ call' = [call EXCEPT ![c] = IF Succeeds(m) /\ @.todo # {m.to}
                                   THEN [@ EXCEPT !.todo = call[c].todo \ {m.to}] ELSE Idle]
    /\ UNCHANGED <<hub, made, stray, store, slot, faults>>

FanOutTr(c) == hub = "tr" /\ FanOut(c)
FanOutReshare(c) == hub = "reshare" /\ FanOut(c)
FanOutAny(c) == FanOutTr(c) \/ FanOutReshare(c) \/ (hub = "plain" /\ FanOut(c))

\* A post of a fan-out is lost or its answer is: the fan-out fails, and the
\* request may still be served later.
LosePost(c) ==
    /\ call[c].op \in {"fan1", "fan2"} /\ call[c].todo # {}
    /\ faults < MaxFaults
    /\ faults' = faults + 1
    /\ stray' = stray \cup {NextPost(c)}
    /\ Cardinality(stray') <= MaxStray
    /\ call' = [call EXCEPT ![c] = Idle]
    /\ UNCHANGED <<hub, sess, made, store, slot>>

Arrive(m) ==
    /\ m \in stray
    /\ stray' = stray \ {m}
    /\ Handle(m)
    /\ UNCHANGED <<hub, made, call, store, slot, faults>>

\* The pieces finalize writes one after the other; cut says how many were
\* written when a write failed.
Sealed(n, s, cut) ==
    [share |-> IF cut >= 1 THEN s.r1 ELSE store[n].share,
     pub |-> IF cut >= 2 THEN s.r1 ELSE store[n].pub,
     tail |-> IF cut >= 3 /\ hub = "tr" THEN s.con ELSE store[n].tail]

\* finalize_round3: part3 runs once every other vault's package is there, the own
\* share is sealed, then the session is complete.
FinalizeRound3(n) ==
    LET s == sess[n] IN
    /\ s # NoSession /\ s.phase = "round2"
    /\ \A p \in Roster(s) \ {n} : s.r2[p] # 0
    /\ Part3Accepts(n, s)
    /\ store' = [store EXCEPT ![n] = Sealed(n, s, 3)]
    /\ sess' = [sess EXCEPT ![n].phase = "complete"]
    /\ UNCHANGED <<hub, made, call, stray, slot, faults>>

FinalizeRound3Tr(n) == hub = "tr" /\ FinalizeRound3(n)

\* dkg_round3_impl: the request picks the hub.
DkgRound3Impl(n) == \/ hub = "plain" /\ FinalizeRound3(n)
                    \/ FinalizeRound3Tr(n)

\* Mutant: the session is complete although a write failed.
FinalizeFailsComplete(n, cut) ==
    LET s == sess[n] IN
    /\ s # NoSession /\ s.phase = "round2"
    /\ \A p \in Roster(s) \ {n} : s.r2[p] # 0
    /\ Part3Accepts(n, s)
    /\ faults < MaxFaults
    /\ faults' = faults + 1
    /\ store' = [store EXCEPT ![n] = Sealed(n, s, cut)]
    /\ sess' = [sess EXCEPT ![n].phase = "complete"]
    /\ UNCHANGED <<hub, made, call, stray, slot>>

\* finalize_round3 when one of its writes fails: the session stays in round 2.
FinalizeFails(n, cut) ==
    LET s == sess[n] IN
    /\ s # NoSession /\ s.phase = "round2"
    /\ \A p \in Roster(s) \ {n} : s.r2[p] # 0
    /\ Part3Accepts(n, s)
    /\ faults < MaxFaults
    /\ faults' = faults + 1
    /\ store' = [store EXCEPT ![n] = Sealed(n, s, cut)]
    /\ UNCHANGED <<hub, sess, made, call, stray, slot>>

\* load_tr_shares at boot: every piece must be there.  No hub loads plain shares.
Loaded(n) ==
    IF hub = "tr" /\ \A piece \in DOMAIN store[n] : store[n][piece] # NoKey
    THEN store[n] ELSE Empty

\* The process stops and boots again: sessions live in memory only.
Restart(n) ==
    /\ faults < MaxFaults
    /\ faults' = faults + 1
    /\ sess' = [sess EXCEPT ![n] = NoSession]
    /\ call' = [c \in Call |-> IF Owner[c] = n THEN Idle ELSE call[c]]
    /\ slot' = [slot EXCEPT ![n] = Loaded(n)]
    /\ UNCHANGED <<hub, made, stray, store>>

Next ==
    \/ \E c \in Call, k \in Constitutions : StartAny(c, k)
    \/ \E c \in Call, k \in Constitutions, f \in BOOLEAN : Restate(c, k, f)
    \/ \E c \in Call, f \in BOOLEAN : Insert(c, f) \/ DkgRound2Impl(c, f)
    \/ \E c \in Call : FanOutAny(c) \/ LosePost(c)
    \/ \E m \in stray : Arrive(m)
    \/ \E n \in Node : DkgRound3Impl(n) \/ Restart(n)
    \/ \E n \in Node, cut \in 0 .. 2 : FinalizeFails(n, cut)

Spec == Init /\ [][Next]_vars

(***************************************************************************)
(* Properties                                                              *)
(***************************************************************************)

\* advance_to_round2 takes the round 1 secret before part2 can fail, and no
\* request brings it back: no session ever gets there, because the drift and
\* transcript checks let no package of another constitution in.
NoWedgedSession ==
    \A n \in Node : sess[n] # NoSession /\ sess[n].phase = "round1" => sess[n].secret1

\* A post on its way, by a fan-out or by hand, is refused by a vault that holds
\* the session only when the two were started with different constitutions:
\* neither its phase, nor an earlier copy, nor a restart makes it refuse.
RefusedForDriftOnly ==
    hub \in {"plain", "tr"} =>
    \A m \in stray \cup {NextPost(c) : c \in {d \in Call : call[d].todo # {}}} :
        sess[m.to] # NoSession /\ sess[m.to].con = m.con => Succeeds(m)

\* A session is complete only once both pieces of its key are sealed, whatever
\* was written, failed or raced before: a restart finds the key it announced.
CompleteIsSealed ==
    \A n \in Node :
        sess[n] # NoSession /\ sess[n].phase = "complete"
            => store[n].share = sess[n].r1 /\ store[n].pub = sess[n].r1

\* The sessions, packages and stores keep their shape, also after a restart in
\* the middle of a round, and a complete session is a sealed one (load_tr_shares,
\* finalize_round3).
SealedSound == TypeOK /\ CompleteIsSealed
=============================================================================
