---- MODULE IntentLedgerProofs ----
(***************************************************************************)
(* Proofs about the spending ledger for every mesh, every set of intents   *)
(* and calls of every kind, every policy, and with calls that outlive      *)
(* their reservation.                                                      *)
(*                                                                         *)
(* The argument has three parts.  A durable prepare that was answered "not *)
(* seen" left this call's own burn at the peer, and a burn never changes   *)
(* hands: so a fresh commit owns the intent on a quorum, and two quorums   *)
(* share a node whose entry has one owner.  A soft prepare that was        *)
(* answered "not seen" came from a peer without a burn: so a call that     *)
(* reserves after a fresh commit has on its side only nodes outside the    *)
(* quorum that held the burn when the call began, and these are too few.   *)
(* Last, the caps: what running calls hold, call by call, and the entries  *)
(* and payments no call holds, add up to no more than spent_today and what *)
(* the history says was loosed.                                            *)
(***************************************************************************)
EXTENDS IntentLedger, FiniteSetTheorems, TLAPS

Owning == {"committing", "fresh"}
PastSignature == {"committing", "fresh", "no_commit", "crashed"}

\* A peer still to be asked has an attempt left, and is not the caller's node.
AttemptLeft == \A c \in Call : \A p \in todo[c] : tries[c][p] < MaxRetries
PeersAreOthers == \A c \in Call : node[c] \notin todo[c] /\ node[c] \notin acks[c]

\* A call past its local burn owns the entry of its own node, and, unless some
\* answer said already_seen, that of every peer that acknowledged.
OwnsLocal == \A c \in Call : st[c] \in Owning => consumed[node[c]][intent[c]] = c
AcksAreOwned ==
    \A c \in Call : st[c] \in Owning /\ ~seen[c] => \A p \in acks[c] : consumed[p][intent[c]] = c

\* The conditions under which claim_consume returned Ok.
FreshCounted ==
    \A c \in Call : st[c] = "fresh" => ~seen[c] /\ 1 + Cardinality(acks[c]) >= QuorumT

\* A durable request on its way was sent by a call past its signature.
StraysPastSignature == \A m \in strays : m.durable => st[m.call] \in PastSignature

\* Q: a quorum that held the intent when c reserved, and none of which took c's
\* soft prepare as a new one.
Against(c, Q) ==
    /\ Cardinality(Q) >= QuorumT
    /\ \A n \in Q : n # node[c] /\ n \notin acks[c] /\ consumed[n][intent[c]] # NoCall

\* A call that reserves an intent after its commit has such a quorum against it.
LateMeetsQuorum ==
    \A c \in Call : late[c] =>
        /\ st[c] # "idle"
        /\ st[c] = "reserving" /\ ~seen[c] => \E Q \in SUBSET Node : Against(c, Q)

IInv ==
    /\ TypeOK
    /\ AttemptLeft
    /\ PeersAreOthers
    /\ OwnsLocal
    /\ AcksAreOwned
    /\ FreshCounted
    /\ StraysPastSignature
    /\ OnlySignedIntentsBurn
    /\ LateMeetsQuorum
    /\ NoReserveAfterCommit

TablesOK ==
    /\ consumed \in [Node -> [Intent -> Call \cup {NoCall}]]
    /\ reserved \in [Node -> SUBSET Intent]
    /\ own \in [Node -> SUBSET Intent]
    /\ \A n \in Node : own[n] \subseteq reserved[n]
    /\ spent \in [Node -> Nat]

\* No step erases or overwrites an entry of a log.
LogGrows == \A n \in Node, i \in Intent : consumed[n][i] # NoCall => consumed'[n][i] = consumed[n][i]

\* Whatever a step adds to the logs is a burn by call c.
BurnsOnly(c) ==
    \A n \in Node, i \in Intent :
        consumed'[n][i] = consumed[n][i] \/ (i = intent[c] /\ consumed'[n][i] = c)

----
(***************************************************************************)
(* The local tables of a node.                                             *)
(***************************************************************************)

\* release_reservation keeps the types and the log.
LEMMA ReleaseTables ==
    ASSUME TypeOK, NEW n \in Node, NEW i \in Intent, Release(n, i)
    PROVE  TablesOK' /\ UNCHANGED consumed
<1> USE DEF TypeOK
<1>1. Taken(n, i) \in Nat
  BY AmountAssumption DEF Taken, Held
<1>2. \A a, b \in Nat : SatSub(a, b) \in Nat
  BY DEF SatSub
<1>3. spent' \in [Node -> Nat]
  BY <1>1, <1>2 DEF Release
<1> QED
  BY <1>3 DEF Release, TablesOK

\* prepare_consume of an intent the log does not hold.
LEMMA BurnTables ==
    ASSUME TypeOK, NEW n \in Node, NEW c \in Call, consumed[n][intent[c]] = NoCall, Burn(n, c)
    PROVE  /\ TablesOK'
           /\ LogGrows
           /\ BurnsOnly(c)
           /\ consumed'[n][intent[c]] = c
<1> USE DEF TypeOK
<1>1. /\ consumed' = [consumed EXCEPT ![n][intent[c]] = c]
      /\ reserved' = [reserved EXCEPT ![n] = @ \ {intent[c]}]
      /\ own' = [own EXCEPT ![n] = @ \ {intent[c]}]
      /\ spent' = spent
      /\ intent[c] \in Intent
  BY DEF Burn
<1>2. consumed' \in [Node -> [Intent -> Call \cup {NoCall}]]
  BY <1>1
<1>3. TablesOK'
  BY <1>1, <1>2 DEF TablesOK
<1>4. LogGrows /\ BurnsOnly(c) /\ consumed'[n][intent[c]] = c
  BY <1>1 DEF LogGrows, BurnsOnly
<1> QED
  BY <1>3, <1>4

\* The peer's handler: a soft prepare leaves the log alone, a durable one that was
\* not already seen ends in this call's burn.
LEMMA PrepareTables ==
    ASSUME TypeOK, NEW p \in Node, NEW c \in Call, NEW durable \in BOOLEAN, Prepare(p, c, durable)
    PROVE  /\ TablesOK'
           /\ LogGrows
           /\ BurnsOnly(c)
           /\ ~durable => UNCHANGED consumed
           /\ durable /\ ~AlreadySeen(p, intent[c], durable) => consumed'[p][intent[c]] = c
<1>1. CASE AlreadySeen(p, intent[c], durable)
  <2>1. UNCHANGED tables
    BY <1>1 DEF Prepare
  <2> QED
    BY <1>1, <2>1 DEF tables, TypeOK, TablesOK, LogGrows, BurnsOnly
<1>2. CASE ~AlreadySeen(p, intent[c], durable) /\ durable
  <2>1. Burn(p, c) /\ consumed[p][intent[c]] = NoCall
    BY <1>2 DEF Prepare, AlreadySeen
  <2> QED
    BY <1>2, <2>1, BurnTables
<1>3. CASE ~AlreadySeen(p, intent[c], durable) /\ ~durable
  <2>1. reserved' = [reserved EXCEPT ![p] = @ \cup {intent[c]}] /\ UNCHANGED <<consumed, own, spent>>
    BY <1>3 DEF Prepare
  <2>2. intent[c] \in Intent
    BY DEF TypeOK
  <2> QED
    BY <1>3, <2>1, <2>2 DEF TypeOK, TablesOK, LogGrows, BurnsOnly
<1> QED
  BY <1>1, <1>2, <1>3

\* A fan-out starts with every attempt at every other node left.
LEMMA FanoutStarts ==
    ASSUME TypeOK, NEW c \in Call, StartFanout(c)
    PROVE  /\ tries' \in [Call -> [Node -> 0..MaxRetries]]
           /\ todo' \in [Call -> SUBSET Node]
           /\ acks' \in [Call -> SUBSET Node]
           /\ seen' \in [Call -> BOOLEAN]
           /\ \A d \in Call \ {c} : /\ tries'[d] = tries[d] /\ todo'[d] = todo[d]
                                   /\ acks'[d] = acks[d] /\ seen'[d] = seen[d]
           /\ todo'[c] = Node \ {node[c]} /\ acks'[c] = {} /\ ~seen'[c]
           /\ \A p \in Node : tries'[c][p] = 0
<1>1. [p \in Node |-> 0] \in [Node -> 0..MaxRetries]
  BY BoundAssumption
<1> QED
  BY <1>1 DEF StartFanout, TypeOK

----
\* The initial states satisfy the invariant.
LEMMA InitInv == Init => IInv
<1> SUFFICES ASSUME Init PROVE IInv
  OBVIOUS
<1> USE DEF Init
<1>1. TypeOK
  BY BoundAssumption DEF TypeOK, Live, Committed, Failed, Stray
<1>2. AttemptLeft /\ PeersAreOthers /\ OwnsLocal /\ AcksAreOwned /\ FreshCounted
  BY DEF AttemptLeft, PeersAreOthers, OwnsLocal, AcksAreOwned, FreshCounted, Owning
<1>3. StraysPastSignature /\ LateMeetsQuorum /\ NoReserveAfterCommit
  BY DEF StraysPastSignature, LateMeetsQuorum, NoReserveAfterCommit
<1>4. OnlySignedIntentsBurn
  BY CallAssumption DEF OnlySignedIntentsBurn
<1> QED
  BY <1>1, <1>2, <1>3, <1>4 DEF IInv

----
\* Every step keeps the types, and no step takes an entry out of a log.
LEMMA TypeStep == TypeOK /\ AttemptLeft /\ [Next]_vars => TypeOK' /\ LogGrows
<1> SUFFICES ASSUME TypeOK, AttemptLeft, [Next]_vars PROVE TypeOK' /\ LogGrows
  OBVIOUS
<1>0. UNCHANGED consumed => LogGrows
  BY DEF LogGrows
<1>T. ASSUME TablesOK', UNCHANGED <<asked, fanout, strays, history>>, NEW c \in Call,
             NEW s \in {"released", "crashed"} \cup Failed, st' = [st EXCEPT ![c] = s]
      PROVE  TypeOK'
  BY <1>T DEF TypeOK, TablesOK, asked, fanout, history, Live, Committed, Failed
<1>1. ASSUME NEW c \in Call, ReserveLocal(c) PROVE TypeOK' /\ LogGrows
  <2>a. late' \in [Call -> BOOLEAN] /\ UNCHANGED <<asked, strays, paid, loosed>> /\ UNCHANGED consumed
    BY <1>1 DEF ReserveLocal, TypeOK, tables
  <2>1. CASE st' = [st EXCEPT ![c] = "no_reserve"] /\ UNCHANGED <<tables, fanout>>
    BY <2>a, <2>1, <1>0 DEF TypeOK, tables, fanout, asked, Live, Committed, Failed
  <2>2. CASE /\ st' = [st EXCEPT ![c] = "reserving"]
             /\ reserved' = [reserved EXCEPT ![node[c]] = @ \cup {intent[c]}]
             /\ own' = [own EXCEPT ![node[c]] = @ \cup {intent[c]}]
             /\ spent' = [spent EXCEPT ![node[c]] = @ + Amount[intent[c]]]
             /\ StartFanout(c)
    <3>1. spent' \in [Node -> Nat]
      BY <2>2, AmountAssumption DEF TypeOK
    <3>2. reserved' \in [Node -> SUBSET Intent] /\ own' \in [Node -> SUBSET Intent]
      BY <2>2 DEF TypeOK
    <3>3. \A n \in Node : own'[n] \subseteq reserved'[n]
      BY <2>2 DEF TypeOK
    <3>4. st' \in [Call -> {"idle", "reserved", "released", "crashed"} \cup Live \cup Committed \cup Failed]
      BY <2>2 DEF TypeOK, Live
    <3> QED
      BY <2>a, <3>1, <3>2, <3>3, <3>4, <2>2, FanoutStarts, <1>0 DEF TypeOK, asked
  <2> QED
    BY <1>1, <2>1, <2>2 DEF ReserveLocal
<1>2. ASSUME NEW c \in Call, ReserveEnds(c) PROVE TypeOK' /\ LogGrows
  <2>1. CASE Refused(c)
    <3>1. Release(node[c], intent[c]) /\ st' = [st EXCEPT ![c] = "no_reserve"]
          /\ UNCHANGED <<asked, fanout, strays, history>>
      BY <1>2, <2>1 DEF ReserveEnds
    <3> QED
      BY <3>1, ReleaseTables, <1>0, <1>T DEF TypeOK, Failed
  <2>2. CASE ~Refused(c)
    <3>1. UNCHANGED tables /\ st' = [st EXCEPT ![c] = Phase(c)] /\ UNCHANGED <<asked, fanout, strays, history>>
      BY <1>2, <2>2 DEF ReserveEnds
    <3> QED
      BY <3>1, <1>0 DEF TypeOK, Phase, tables, asked, fanout, history, Live, Committed, Failed
  <2> QED
    BY <2>1, <2>2
<1>3. ASSUME NEW c \in Call, SignFails(c) PROVE TypeOK' /\ LogGrows
  BY <1>3, ReleaseTables, <1>0, <1>T DEF SignFails, TypeOK, Failed
<1>4. ASSUME NEW c \in Call, SignSucceeds(c) PROVE TypeOK' /\ LogGrows
  BY <1>4, <1>0 DEF SignSucceeds, TypeOK, tables, asked, fanout, history, Live, Committed, Failed
<1>5. ASSUME NEW c \in Call, CommitLocal(c) PROVE TypeOK' /\ LogGrows
  <2>1. paid' \in [Node -> SUBSET Intent] /\ UNCHANGED <<tables, asked, fanout, strays, late, loosed>>
    BY <1>5 DEF CommitLocal, Pay, TypeOK
  <2>2. st' \in [Call -> {"idle", "reserved", "released", "crashed"} \cup Live \cup Committed \cup Failed]
    BY <1>5 DEF CommitLocal, TypeOK, Live, Committed
  <2> QED
    BY <2>1, <2>2, <1>0 DEF TypeOK, tables, asked, fanout
<1>16. ASSUME NEW c \in Call, ClaimLocal(c) PROVE TypeOK' /\ LogGrows
  <2>1. /\ st' = [st EXCEPT ![c] = "committing"] /\ Burn(node[c], c) /\ StartFanout(c)
        /\ consumed[node[c]][intent[c]] = NoCall
        /\ UNCHANGED <<asked, strays, history>>
    BY <1>16 DEF ClaimLocal
  <2>2. TablesOK' /\ LogGrows
    BY <2>1, BurnTables DEF TypeOK
  <2>3. st' \in [Call -> {"idle", "reserved", "released", "crashed"} \cup Live \cup Committed \cup Failed]
    BY <2>1 DEF TypeOK, Live
  <2> QED
    BY <2>1, <2>2, <2>3, FanoutStarts DEF TypeOK, TablesOK, asked, history
<1>6. ASSUME NEW c \in Call, ClaimFails(c) PROVE TypeOK' /\ LogGrows
  <2>1. TablesOK' /\ UNCHANGED consumed
    BY <1>6, ReleaseTables DEF ClaimFails, RollBack, TypeOK, TablesOK, tables
  <2> QED
    BY <1>6, <2>1, <1>0, <1>T DEF ClaimFails, Failed
<1>7. ASSUME NEW c \in Call, CommitEnds(c) PROVE TypeOK' /\ LogGrows
  <2>1. TablesOK' /\ UNCHANGED consumed
    BY <1>7, ReleaseTables DEF CommitEnds, RollBack, TypeOK, TablesOK, tables
  <2>2. paid' \in [Node -> SUBSET Intent] /\ UNCHANGED <<asked, fanout, strays, late, loosed>>
    BY <1>7 DEF CommitEnds, Pay, TypeOK
  <2>3. st' \in [Call -> {"idle", "reserved", "released", "crashed"} \cup Live \cup Committed \cup Failed]
    BY <1>7 DEF CommitEnds, TypeOK, Committed, Failed
  <2> QED
    BY <2>1, <2>2, <2>3, <1>0 DEF TypeOK, TablesOK, asked, fanout
<1>8. ASSUME NEW c \in Call, ReleaseCall(c) PROVE TypeOK' /\ LogGrows
  <2>1. TablesOK' /\ UNCHANGED consumed
    BY <1>8, ReleaseTables DEF ReleaseCall, TypeOK
  <2>2. Taken(node[c], intent[c]) \in Nat
    BY AmountAssumption DEF Taken, Held, TypeOK
  <2>3. loosed' \in [Node -> Nat]
    BY <1>8, <2>2 DEF ReleaseCall, Loose, TypeOK
  <2>4. st' \in [Call -> {"idle", "reserved", "released", "crashed"} \cup Live \cup Committed \cup Failed]
    BY <1>8 DEF ReleaseCall, TypeOK
  <2> QED
    BY <1>8, <2>1, <2>3, <2>4, <1>0 DEF ReleaseCall, TypeOK, TablesOK, asked, fanout
<1>9. ASSUME NEW c \in Call, NEW p \in Node, PeerAnswers(c, p) PROVE TypeOK' /\ LogGrows
  <2>1. TablesOK' /\ LogGrows
    BY <1>9, PrepareTables DEF PeerAnswers, Durable
  <2> QED
    BY <1>9, <2>1 DEF PeerAnswers, TypeOK, TablesOK, asked, history
<1>10. ASSUME NEW c \in Call, NEW p \in Node, PeerSilent(c, p) PROVE TypeOK' /\ LogGrows
  <2>1. tries[c][p] + 1 \in 0..MaxRetries
    BY <1>10, BoundAssumption DEF PeerSilent, AttemptLeft, TypeOK
  <2>2. tries' \in [Call -> [Node -> 0..MaxRetries]]
    BY <1>10, <2>1 DEF PeerSilent, TypeOK
  <2>3. strays' \subseteq Stray
    <3>1. [call |-> c, to |-> p, durable |-> Durable(c)] \in Stray
      BY DEF Stray, Durable
    <3> QED
      BY <1>10, <3>1 DEF PeerSilent, TypeOK
  <2>4. todo' \in [Call -> SUBSET Node]
    BY <1>10 DEF PeerSilent, TypeOK
  <2> QED
    BY <1>10, <2>2, <2>3, <2>4, <1>0 DEF PeerSilent, TypeOK, asked, history, tables
<1>11. ASSUME NEW c \in Call, NEW p \in Node, PeerGarbles(c, p) PROVE TypeOK' /\ LogGrows
  <2>1. TablesOK' /\ LogGrows
    BY <1>11, PrepareTables DEF PeerGarbles, Durable
  <2>2. st' \in [Call -> {"idle", "reserved", "released", "crashed"} \cup Live \cup Committed \cup Failed]
    BY <1>11 DEF PeerGarbles, TypeOK, Failed
  <2> QED
    BY <1>11, <2>1, <2>2 DEF PeerGarbles, TypeOK, TablesOK, asked, history
<1>17. ASSUME NEW c \in Call, ClientError(c) PROVE TypeOK' /\ LogGrows
  <2>1. st' \in [Call -> {"idle", "reserved", "released", "crashed"} \cup Live \cup Committed \cup Failed]
    BY <1>17 DEF ClientError, TypeOK, Failed
  <2> QED
    BY <1>17, <2>1, <1>0 DEF ClientError, TypeOK, tables, asked, history
<1>12. ASSUME NEW m \in strays, StrayArrives(m) PROVE TypeOK' /\ LogGrows
  <2>1. m.to \in Node /\ m.call \in Call /\ m.durable \in BOOLEAN
    BY DEF TypeOK, Stray
  <2>2. TablesOK' /\ LogGrows
    BY <1>12, <2>1, PrepareTables DEF StrayArrives
  <2> QED
    BY <1>12, <2>2 DEF StrayArrives, TypeOK, TablesOK, asked, fanout, history
<1>13. ASSUME NEW n \in Node, NEW i \in Intent, Expire(n, i) PROVE TypeOK' /\ LogGrows
  <2>1. Held(n, i) \in Nat
    BY AmountAssumption DEF Held
  <2>2. spent' \in [Node -> Nat]
    BY <1>13, <2>1 DEF Expire, SatSub, TypeOK
  <2>3. loosed' \in [Node -> Nat]
    BY <1>13, <2>1 DEF Expire, Loose, TypeOK
  <2> QED
    BY <1>13, <2>2, <2>3, <1>0 DEF Expire, TypeOK, asked, fanout
<1>14. ASSUME NEW n \in Node, CrashRestart(n) PROVE TypeOK' /\ LogGrows
  <2>1. st' \in [Call -> {"idle", "reserved", "released", "crashed"} \cup Live \cup Committed \cup Failed]
    BY <1>14 DEF CrashRestart, TypeOK
  <2> QED
    BY <1>14, <2>1, <1>0 DEF CrashRestart, TypeOK, asked, fanout
<1>15. ASSUME UNCHANGED vars PROVE TypeOK' /\ LogGrows
  BY <1>15, <1>0 DEF vars, TypeOK, tables, asked, fanout, history
<1> QED
  BY <1>1, <1>2, <1>3, <1>4, <1>5, <1>6, <1>7, <1>8, <1>9, <1>10, <1>11, <1>12, <1>13, <1>14,
     <1>15, <1>16, <1>17 DEF Next

----
(***************************************************************************)
(* The quorum.                                                             *)
(***************************************************************************)

\* Two thirds, rounded up: two quorums are more than the mesh.
LEMMA QuorumIsMajority ==
    QuorumT \in Nat /\ Cardinality(Node) \in Nat /\ 2 * QuorumT > Cardinality(Node)
<1>1. Cardinality(Node) \in Nat /\ Cardinality(Node) # 0
  BY NodeAssumption, FS_CardinalityType, FS_EmptySet
<1> QED
  BY <1>1 DEF QuorumT, QuorumTwoThirds

LEMMA QuorumsMeet ==
    ASSUME NEW A \in SUBSET Node, NEW B \in SUBSET Node,
           Cardinality(A) >= QuorumT, Cardinality(B) >= QuorumT
    PROVE  A \cap B # {}
<1>1. IsFiniteSet(A) /\ IsFiniteSet(B) /\ Cardinality(A) \in Nat /\ Cardinality(B) \in Nat
  BY NodeAssumption, FS_Subset, FS_CardinalityType
<1>2. Cardinality(A) + Cardinality(B) > Cardinality(Node)
  BY <1>1, QuorumIsMajority
<1> QED
  BY <1>2, NodeAssumption, FS_MajoritiesIntersect

\* A call's own node and the peers that acknowledged it.
LEMMA Backers ==
    ASSUME TypeOK, PeersAreOthers, NEW c \in Call
    PROVE  /\ acks[c] \cup {node[c]} \in SUBSET Node
           /\ Cardinality(acks[c]) \in Nat
           /\ Cardinality(acks[c] \cup {node[c]}) = 1 + Cardinality(acks[c])
<1>1. acks[c] \in SUBSET Node /\ node[c] \in Node /\ node[c] \notin acks[c]
  BY DEF TypeOK, PeersAreOthers
<1>2. IsFiniteSet(acks[c]) /\ Cardinality(acks[c]) \in Nat
  BY <1>1, NodeAssumption, FS_Subset, FS_CardinalityType
<1>3. Cardinality(acks[c] \cup {node[c]}) = Cardinality(acks[c]) + 1
  BY <1>1, <1>2, FS_AddElement
<1> QED
  BY <1>1, <1>2, <1>3

\* What the verdict on a fan-out means.
LEMMA NotRefused ==
    ASSUME TypeOK, PeersAreOthers, NEW c \in Call
    PROVE  ~Refused(c) <=> ~seen[c] /\ 1 + Cardinality(acks[c]) >= QuorumT
<1> DEFINE few == 1 + Cardinality(acks[c]) < QuorumT
           enough == 1 + Cardinality(acks[c]) >= QuorumT
<1>0. Cardinality(acks[c]) \in Nat /\ QuorumT \in Nat
  BY Backers, QuorumIsMajority
<1>1. (~few) <=> enough
  BY <1>0
<1>2. Refused(c) <=> (seen[c] \/ few)
  BY DEF Refused
<1> HIDE DEF few, enough
<1>3. (~Refused(c)) <=> (~seen[c] /\ enough)
  BY <1>1, <1>2
<1> QED
  BY <1>3 DEF enough

\* A fresh commit owns the intent on a quorum of logs.
LEMMA FreshOwnsQuorum == IInv => FreshCommitHoldsQuorum
<1> SUFFICES ASSUME IInv, NEW c \in Call, st[c] = "fresh"
             PROVE  Cardinality(BurntBy(c)) >= QuorumT
  BY DEF FreshCommitHoldsQuorum
<1>1. acks[c] \cup {node[c]} \in SUBSET BurntBy(c)
  <2>1. consumed[node[c]][intent[c]] = c /\ \A p \in acks[c] : consumed[p][intent[c]] = c
    BY DEF IInv, OwnsLocal, AcksAreOwned, FreshCounted, Owning
  <2> QED
    BY <2>1 DEF IInv, TypeOK, BurntBy
<1>2. IsFiniteSet(BurntBy(c)) /\ Cardinality(BurntBy(c)) \in Nat
  BY NodeAssumption, FS_Subset, FS_CardinalityType DEF BurntBy
<1>3. 1 + Cardinality(acks[c]) >= QuorumT
  BY DEF IInv, FreshCounted
<1>4. Cardinality(acks[c] \cup {node[c]}) <= Cardinality(BurntBy(c))
  BY <1>1, <1>2, FS_Subset
<1> QED
  BY <1>2, <1>3, <1>4, Backers, QuorumIsMajority DEF IInv

\* Two fresh commits of one intent would own the same entry of a common node.
LEMMA OneFreshCommit == IInv => AtMostOneFreshCommit
<1> SUFFICES ASSUME IInv, NEW c \in Call, NEW d \in Call,
                    st[c] = "fresh", st[d] = "fresh", intent[c] = intent[d]
             PROVE  c = d
  BY DEF AtMostOneFreshCommit
<1>1. Cardinality(BurntBy(c)) >= QuorumT /\ Cardinality(BurntBy(d)) >= QuorumT
  BY FreshOwnsQuorum DEF FreshCommitHoldsQuorum
<1>2. BurntBy(c) \in SUBSET Node /\ BurntBy(d) \in SUBSET Node
  BY DEF BurntBy
<1>3. PICK n \in Node : n \in BurntBy(c) /\ n \in BurntBy(d)
  BY <1>1, <1>2, QuorumsMeet
<1> QED
  BY <1>3 DEF BurntBy

\* A reservation with a quorum against it is refused.
LEMMA LateIsRefused ==
    ASSUME IInv, NEW c \in Call, late[c], st[c] = "reserving"
    PROVE  Refused(c)
<1> SUFFICES ASSUME ~seen[c], 1 + Cardinality(acks[c]) >= QuorumT PROVE FALSE
  BY NotRefused DEF IInv
<1>1. PICK Q \in SUBSET Node : Against(c, Q)
  BY DEF IInv, LateMeetsQuorum
<1>2. Q \cap (acks[c] \cup {node[c]}) # {}
  BY <1>1, Backers, QuorumsMeet DEF Against, IInv
<1> QED
  BY <1>1, <1>2 DEF Against

----
(***************************************************************************)
(* The steps.                                                              *)
(***************************************************************************)

MayBeLate == {"idle", "reserving", "no_reserve", "cut_reserve", "crashed"}

\* A call that moves on or ends without a burn and without a new fan-out.
LEMMA CallMoves ==
    ASSUME IInv, TypeOK', NEW c \in Call, NEW s,
           UNCHANGED <<consumed, asked, fanout, strays>>,
           st' = [st EXCEPT ![c] = s], s \notin {"idle", "reserving", "committing"},
           late' = [late EXCEPT ![c] = late'[c]],
           s = "fresh" => st[c] = "committing" /\ ~Refused(c),
           st[c] \in PastSignature => s \in PastSignature,
           late'[c] => s \in MayBeLate
    PROVE  IInv'
<1> USE DEF IInv
<1>1. AttemptLeft' /\ PeersAreOthers'
  BY DEF AttemptLeft, PeersAreOthers, asked, fanout
<1>2. OwnsLocal'
  BY DEF OwnsLocal, Owning, asked, TypeOK
<1>3. AcksAreOwned'
  BY DEF AcksAreOwned, Owning, asked, fanout, TypeOK
<1>4. FreshCounted'
  <2> SUFFICES ASSUME NEW d \in Call, st'[d] = "fresh"
               PROVE  ~seen[d] /\ 1 + Cardinality(acks[d]) >= QuorumT
    BY DEF FreshCounted, fanout
  <2>1. CASE d = c
    <3>1. ~Refused(c)
      BY <2>1 DEF TypeOK
    <3> QED
      BY <2>1, <3>1, NotRefused
  <2>2. CASE d # c
    BY <2>2 DEF FreshCounted, TypeOK
  <2> QED
    BY <2>1, <2>2
<1>5. StraysPastSignature'
  <2> SUFFICES ASSUME NEW m \in strays, m.durable PROVE st'[m.call] \in PastSignature
    BY DEF StraysPastSignature
  <2>1. m.call \in Call /\ st[m.call] \in PastSignature
    BY DEF StraysPastSignature, TypeOK, Stray
  <2> QED
    BY <2>1 DEF TypeOK
<1>6. OnlySignedIntentsBurn'
  BY DEF OnlySignedIntentsBurn, asked, TypeOK, PastSignature
<1>7. LateMeetsQuorum'
  <2> SUFFICES ASSUME NEW d \in Call, late'[d]
               PROVE  /\ st'[d] # "idle"
                      /\ st'[d] = "reserving" /\ ~seen[d] => \E Q \in SUBSET Node : Against(d, Q)'
    BY DEF LateMeetsQuorum, fanout
  <2>1. CASE d = c
    BY <2>1 DEF TypeOK
  <2>2. CASE d # c
    <3>1. late[d] /\ st'[d] = st[d]
      BY <2>2 DEF TypeOK
    <3> QED
      BY <3>1 DEF LateMeetsQuorum, Against, asked, fanout
  <2> QED
    BY <2>1, <2>2
<1>8. NoReserveAfterCommit'
  BY DEF NoReserveAfterCommit, TypeOK, MayBeLate
<1> QED
  BY <1>1, <1>2, <1>3, <1>4, <1>5, <1>6, <1>7, <1>8

\* A quorum that stands against a call stays where it is while logs only grow,
\* as long as the call's acknowledgements do not change.
LEMMA AgainstStays ==
    ASSUME TypeOK, LogGrows, UNCHANGED asked, NEW c \in Call, NEW Q \in SUBSET Node, Against(c, Q),
           acks'[c] = acks[c]
    PROVE  Against(c, Q)'
<1>1. \A n \in Q : n # node[c] /\ n \notin acks'[c] /\ consumed'[n][intent[c]] # NoCall
  BY DEF Against, LogGrows, TypeOK
<1> QED
  BY <1>1 DEF Against, asked, QuorumT

\* The part of the invariant that is about one call.
CallInv(d) ==
    /\ \A p \in todo[d] : tries[d][p] < MaxRetries
    /\ node[d] \notin todo[d] /\ node[d] \notin acks[d]
    /\ st[d] \in Owning => consumed[node[d]][intent[d]] = d
    /\ st[d] \in Owning /\ ~seen[d] => \A p \in acks[d] : consumed[p][intent[d]] = d
    /\ st[d] = "fresh" => ~seen[d] /\ 1 + Cardinality(acks[d]) >= QuorumT
    /\ late[d] => /\ st[d] # "idle"
                  /\ st[d] = "reserving" /\ ~seen[d] => \E Q \in SUBSET Node : Against(d, Q)
    /\ late[d] => st[d] \in MayBeLate

\* A call that a step does not move keeps its part, for logs only grow.
LEMMA OthersStay ==
    ASSUME IInv, TypeOK', LogGrows, UNCHANGED asked, NEW d \in Call,
           st'[d] = st[d], tries'[d] = tries[d], todo'[d] = todo[d],
           acks'[d] = acks[d], seen'[d] = seen[d], late'[d] = late[d]
    PROVE  CallInv(d)'
<1> USE DEF IInv
<1>0. \A n \in Node : consumed[n][intent[d]] = d => consumed'[n][intent[d]] = d
  BY CallAssumption DEF LogGrows, TypeOK
<1>1. (\A p \in todo'[d] : tries'[d][p] < MaxRetries) /\ node[d] \notin todo'[d] /\ node[d] \notin acks'[d]
  BY DEF AttemptLeft, PeersAreOthers
<1>2. st'[d] \in Owning => consumed'[node[d]][intent[d]] = d
  BY <1>0 DEF OwnsLocal, TypeOK
<1>3. st'[d] \in Owning /\ ~seen'[d] => \A p \in acks'[d] : consumed'[p][intent[d]] = d
  BY <1>0 DEF AcksAreOwned, TypeOK
<1>4. st'[d] = "fresh" => ~seen'[d] /\ 1 + Cardinality(acks'[d]) >= QuorumT
  BY DEF FreshCounted
<1>5. ASSUME late'[d], st'[d] = "reserving", ~seen'[d] PROVE \E Q \in SUBSET Node : Against(d, Q)'
  <2>1. PICK Q \in SUBSET Node : Against(d, Q)
    BY <1>5 DEF LateMeetsQuorum
  <2>2. Against(d, Q)'
    BY <2>1, AgainstStays
  <2> QED
    BY <2>2
<1>6. late'[d] => st'[d] # "idle" /\ st'[d] \in MayBeLate
  BY DEF LateMeetsQuorum, NoReserveAfterCommit, MayBeLate
<1> QED
  BY <1>1, <1>2, <1>3, <1>4, <1>5, <1>6 DEF CallInv, asked

\* The invariant is that of every call, of the strays and of the burns.
LEMMA InvByCall ==
    ASSUME TypeOK', \A d \in Call : CallInv(d)', StraysPastSignature', OnlySignedIntentsBurn'
    PROVE  IInv'
<1>1. AttemptLeft' /\ PeersAreOthers' /\ OwnsLocal'
  BY DEF CallInv, AttemptLeft, PeersAreOthers, OwnsLocal
<1>2. AcksAreOwned' /\ FreshCounted'
  BY DEF CallInv, AcksAreOwned, FreshCounted
<1>3. LateMeetsQuorum'
  BY DEF CallInv, LateMeetsQuorum
<1>4. NoReserveAfterCommit'
  BY DEF CallInv, NoReserveAfterCommit, MayBeLate
<1> QED
  BY <1>1, <1>2, <1>3, <1>4 DEF IInv

\* Burns by a call past its signature keep to OnlySignedIntentsBurn.
LEMMA BurnsStaySigned ==
    ASSUME IInv, UNCHANGED asked, NEW c \in Call, BurnsOnly(c),
           UNCHANGED consumed \/ st'[c] \in PastSignature,
           \A d \in Call : st[d] \in PastSignature => st'[d] \in PastSignature
    PROVE  OnlySignedIntentsBurn'
<1> SUFFICES ASSUME NEW n \in Node, NEW d \in Call, consumed'[n][intent[d]] = d
             PROVE  st'[d] \in PastSignature
  BY DEF OnlySignedIntentsBurn, asked, PastSignature
<1>0. intent[d] \in Intent
  BY DEF IInv, TypeOK
<1>1. CASE consumed[n][intent[d]] = d
  BY <1>1 DEF IInv, OnlySignedIntentsBurn, PastSignature
<1>2. CASE consumed[n][intent[d]] # d
  BY <1>0, <1>2 DEF BurnsOnly
<1> QED
  BY <1>1, <1>2

\* Strays that were on their way keep to StraysPastSignature.
LEMMA StraysStaySigned ==
    ASSUME IInv, strays' \subseteq strays,
           \A d \in Call : st[d] \in PastSignature => st'[d] \in PastSignature
    PROVE  StraysPastSignature'
  BY DEF IInv, StraysPastSignature, TypeOK, Stray

\* reserve_spend under the lock, when it goes on to the peers: if the intent was
\* committed, its quorum stands against the call.
LEMMA ReserveStarts ==
    ASSUME IInv, TypeOK', LogGrows, NEW c \in Call, ReserveLocal(c), st' = [st EXCEPT ![c] = "reserving"]
    PROVE  IInv'
<1> USE DEF IInv
<1>1. /\ st[c] = "idle" /\ consumed[node[c]][intent[c]] = NoCall
      /\ late' = [late EXCEPT ![c] = \E d \in Call : st[d] = "fresh" /\ intent[d] = intent[c]]
      /\ StartFanout(c)
      /\ UNCHANGED <<consumed, asked, strays>>
  <2>1. st'[c] = "reserving"
    BY DEF TypeOK
  <2> QED
    BY <2>1 DEF ReserveLocal, TypeOK
<1>2. ASSUME NEW d \in Call, d # c PROVE CallInv(d)'
  <2>1. /\ st'[d] = st[d] /\ tries'[d] = tries[d] /\ todo'[d] = todo[d]
        /\ acks'[d] = acks[d] /\ seen'[d] = seen[d] /\ late'[d] = late[d]
    BY <1>1, <1>2, FanoutStarts DEF TypeOK
  <2> QED
    BY <1>1, <2>1, OthersStay
<1>3. CallInv(c)'
  <2>1. /\ todo'[c] = Node \ {node[c]} /\ acks'[c] = {} /\ ~seen'[c]
        /\ \A p \in Node : tries'[c][p] = 0
        /\ st'[c] = "reserving" /\ node' = node /\ intent' = intent
    BY <1>1, FanoutStarts DEF TypeOK, asked
  <2>2. ASSUME late'[c] PROVE \E Q \in SUBSET Node : Against(c, Q)'
    <3>1. PICK d \in Call : st[d] = "fresh" /\ intent[d] = intent[c]
      BY <1>1, <2>2 DEF TypeOK
    <3>2. Cardinality(BurntBy(d)) >= QuorumT /\ BurntBy(d) \in SUBSET Node
      BY <3>1, FreshOwnsQuorum DEF FreshCommitHoldsQuorum, BurntBy
    <3>3. \A n \in BurntBy(d) : n # node[c] /\ consumed[n][intent[c]] # NoCall
      BY <1>1, <3>1, CallAssumption DEF BurntBy
    <3>4. Against(c, BurntBy(d))'
      <4>1. BurntBy(d)' = BurntBy(d)
        BY <1>1 DEF BurntBy, asked
      <4>2. \A n \in BurntBy(d) : n # node'[c] /\ n \notin acks'[c] /\ consumed'[n][intent'[c]] # NoCall
        BY <1>1, <2>1, <3>3
      <4> QED
        BY <3>2, <4>1, <4>2 DEF Against, QuorumT
    <3>5. BurntBy(d)' \in SUBSET Node
      BY DEF BurntBy
    <3> QED
      BY <3>4, <3>5
  <2> QED
    BY <2>1, <2>2, BoundAssumption DEF CallInv, Owning, MayBeLate
<1>4. \A d \in Call : st[d] \in PastSignature => st'[d] \in PastSignature
  BY <1>1 DEF PastSignature, TypeOK
<1>5. StraysPastSignature'
  BY <1>1, <1>4, StraysStaySigned
<1>6. OnlySignedIntentsBurn'
  BY <1>1, <1>4, BurnsStaySigned DEF BurnsOnly
<1> QED
  BY <1>2, <1>3, <1>5, <1>6, InvByCall

\* claim_consume of an intent the local log does not hold: the call burns it here
\* and starts on the peers.
LEMMA CommitStarts ==
    ASSUME IInv, TypeOK', LogGrows, NEW c \in Call, ClaimLocal(c)
    PROVE  IInv'
<1> USE DEF IInv
<1>1. /\ st' = [st EXCEPT ![c] = "committing"]
      /\ Burn(node[c], c) /\ StartFanout(c)
      /\ UNCHANGED <<asked, strays, late>>
      /\ st[c] = "claiming" /\ consumed[node[c]][intent[c]] = NoCall
  BY DEF ClaimLocal, history
<1>b. BurnsOnly(c) /\ consumed'[node[c]][intent[c]] = c
  BY <1>1, BurnTables DEF TypeOK
<1>2. ASSUME NEW d \in Call, d # c PROVE CallInv(d)'
  <2>1. /\ st'[d] = st[d] /\ tries'[d] = tries[d] /\ todo'[d] = todo[d]
        /\ acks'[d] = acks[d] /\ seen'[d] = seen[d] /\ late'[d] = late[d]
    BY <1>1, <1>2, FanoutStarts DEF TypeOK
  <2> QED
    BY <1>1, <2>1, OthersStay
<1>3. CallInv(c)'
  <2>1. /\ todo'[c] = Node \ {node[c]} /\ acks'[c] = {} /\ ~seen'[c]
        /\ \A p \in Node : tries'[c][p] = 0
        /\ st'[c] = "committing" /\ node' = node /\ intent' = intent
    BY <1>1, FanoutStarts DEF TypeOK, asked
  <2>2. ~late'[c]
    BY <1>1 DEF NoReserveAfterCommit
  <2> QED
    BY <1>b, <2>1, <2>2, BoundAssumption DEF CallInv, Owning
<1>4. \A d \in Call : st[d] \in PastSignature => st'[d] \in PastSignature
  BY <1>1 DEF PastSignature, TypeOK
<1>5. StraysPastSignature'
  BY <1>1, <1>4, StraysStaySigned
<1>6. OnlySignedIntentsBurn'
  <2>1. st'[c] \in PastSignature
    BY <1>1 DEF PastSignature, TypeOK
  <2> QED
    BY <1>1, <1>b, <1>4, <2>1, BurnsStaySigned
<1> QED
  BY <1>2, <1>3, <1>5, <1>6, InvByCall

\* A 200 of a peer: already_seen is remembered; otherwise a durable answer is this
\* call's own burn, and a soft one comes from a node outside the quorum against it.
LEMMA AnswerCounts ==
    ASSUME IInv, TypeOK', LogGrows, NEW c \in Call, NEW p \in Node, PeerAnswers(c, p)
    PROVE  IInv'
<1> USE DEF IInv
<1>1. /\ st[c] \in {"reserving", "committing"} /\ p \in todo[c] /\ p # node[c]
      /\ seen' = [seen EXCEPT ![c] = @ \/ AlreadySeen(p, intent[c], Durable(c))]
      /\ Prepare(p, c, Durable(c))
      /\ acks' = [acks EXCEPT ![c] = @ \cup {p}]
      /\ todo' = [todo EXCEPT ![c] = @ \ {p}]
      /\ UNCHANGED <<st, asked, tries, strays, late>>
  BY DEF PeerAnswers, PeersAreOthers, history
<1>2. /\ BurnsOnly(c)
      /\ ~Durable(c) => UNCHANGED consumed
      /\ Durable(c) /\ ~AlreadySeen(p, intent[c], Durable(c)) => consumed'[p][intent[c]] = c
  BY <1>1, PrepareTables DEF Durable
<1>3. ASSUME NEW d \in Call, d # c PROVE CallInv(d)'
  <2>1. /\ st'[d] = st[d] /\ tries'[d] = tries[d] /\ todo'[d] = todo[d]
        /\ acks'[d] = acks[d] /\ seen'[d] = seen[d] /\ late'[d] = late[d]
    BY <1>1, <1>3 DEF TypeOK
  <2> QED
    BY <1>1, <2>1, OthersStay
<1>4. CallInv(c)'
  <2>0. /\ st'[c] = st[c] /\ late'[c] = late[c] /\ tries'[c] = tries[c]
        /\ acks'[c] = acks[c] \cup {p} /\ todo'[c] = todo[c] \ {p}
        /\ node' = node /\ intent' = intent
    BY <1>1 DEF TypeOK, asked
  <2>s. ASSUME ~seen'[c] PROVE ~seen[c] /\ ~AlreadySeen(p, intent[c], Durable(c))
    BY <1>1, <2>s DEF TypeOK
  <2>1. (\A q \in todo'[c] : tries'[c][q] < MaxRetries) /\ node'[c] \notin todo'[c] /\ node'[c] \notin acks'[c]
    BY <1>1, <2>0 DEF AttemptLeft, PeersAreOthers
  <2>c. \A n \in Node : consumed[n][intent[c]] = c => consumed'[n][intent[c]] = c
    BY CallAssumption DEF LogGrows, TypeOK
  <2>2. st'[c] \in Owning => consumed'[node'[c]][intent'[c]] = c
    BY <2>0, <2>c DEF OwnsLocal, TypeOK
  <2>3. st'[c] \in Owning /\ ~seen'[c] => \A q \in acks'[c] : consumed'[q][intent'[c]] = c
    <3> SUFFICES ASSUME st'[c] \in Owning, ~seen'[c], NEW q \in acks'[c] PROVE consumed'[q][intent[c]] = c
      BY <2>0
    <3>1. CASE q = p
      <4>1. Durable(c)
        BY <1>1, <2>0 DEF Durable, Owning
      <4> QED
        BY <1>2, <2>s, <3>1, <4>1
    <3>2. CASE q # p
      <4>1. q \in acks[c] /\ q \in Node /\ st[c] \in Owning
        BY <2>0, <3>2 DEF TypeOK
      <4>2. consumed[q][intent[c]] = c
        BY <2>s, <4>1 DEF AcksAreOwned
      <4> QED
        BY <2>c, <4>1, <4>2
    <3> QED
      BY <3>1, <3>2
  <2>4. st'[c] # "fresh" /\ (late'[c] => st'[c] # "idle" /\ st'[c] \in MayBeLate)
    BY <1>1, <2>0 DEF NoReserveAfterCommit, MayBeLate
  <2>5. ASSUME late'[c], st'[c] = "reserving", ~seen'[c] PROVE \E Q \in SUBSET Node : Against(c, Q)'
    <3>1. PICK Q \in SUBSET Node : Against(c, Q)
      BY <2>0, <2>s, <2>5 DEF LateMeetsQuorum
    <3>2. consumed[p][intent[c]] = NoCall
      BY <2>s, <2>5 DEF AlreadySeen
    <3>3. \A n \in Q : n # node[c] /\ n \notin acks'[c] /\ consumed'[n][intent[c]] # NoCall
      BY <2>0, <3>1, <3>2 DEF Against, LogGrows, TypeOK
    <3>4. Against(c, Q)'
      BY <2>0, <3>1, <3>3 DEF Against, QuorumT
    <3> QED
      BY <3>4
  <2> QED
    BY <2>1, <2>2, <2>3, <2>4, <2>5 DEF CallInv
<1>5. \A d \in Call : st[d] \in PastSignature => st'[d] \in PastSignature
  BY <1>1
<1>6. StraysPastSignature'
  BY <1>1, <1>5, StraysStaySigned
<1>7. OnlySignedIntentsBurn'
  <2>1. UNCHANGED consumed \/ st'[c] \in PastSignature
    BY <1>1, <1>2 DEF Durable, PastSignature
  <2> QED
    BY <1>1, <1>2, <1>5, <2>1, BurnsStaySigned
<1> QED
  BY <1>3, <1>4, <1>6, <1>7, InvByCall

\* No answer is read: the request may still arrive, and is durable only if the
\* call is past its signature.
LEMMA SilenceLeavesStray ==
    ASSUME IInv, TypeOK', LogGrows, NEW c \in Call, NEW p \in Node, PeerSilent(c, p)
    PROVE  IInv'
<1> USE DEF IInv
<1>1. /\ st[c] \in {"reserving", "committing"} /\ p \in todo[c]
      /\ strays' = strays \cup {[call |-> c, to |-> p, durable |-> Durable(c)]}
      /\ tries' = [tries EXCEPT ![c][p] = @ + 1]
      /\ todo' = [todo EXCEPT ![c] = IF tries[c][p] + 1 < MaxRetries THEN @ ELSE @ \ {p}]
      /\ UNCHANGED <<consumed, st, asked, acks, seen, late>>
  BY DEF PeerSilent, tables, history
<1>2. ASSUME NEW d \in Call, d # c PROVE CallInv(d)'
  <2>1. /\ st'[d] = st[d] /\ tries'[d] = tries[d] /\ todo'[d] = todo[d]
        /\ acks'[d] = acks[d] /\ seen'[d] = seen[d] /\ late'[d] = late[d]
    BY <1>1, <1>2 DEF TypeOK
  <2> QED
    BY <1>1, <2>1, OthersStay
<1>3. CallInv(c)'
  <2>1. todo'[c] \subseteq todo[c] /\ (p \in todo'[c] => tries[c][p] + 1 < MaxRetries)
    BY <1>1 DEF TypeOK
  <2>2. \A q \in Node : tries'[c][q] = IF q = p THEN tries[c][p] + 1 ELSE tries[c][q]
    BY <1>1 DEF TypeOK
  <2>3. \A q \in todo'[c] : tries'[c][q] < MaxRetries
    BY <2>1, <2>2 DEF AttemptLeft, TypeOK
  <2>4. node[c] \notin todo'[c] /\ node[c] \notin acks[c]
    BY <2>1 DEF PeersAreOthers
  <2>5. st[c] \in Owning => /\ consumed[node[c]][intent[c]] = c
                            /\ ~seen[c] => \A q \in acks[c] : consumed[q][intent[c]] = c
    BY DEF OwnsLocal, AcksAreOwned
  <2>6. ASSUME late[c], st[c] = "reserving", ~seen[c] PROVE \E Q \in SUBSET Node : Against(c, Q)'
    <3>1. PICK Q \in SUBSET Node : Against(c, Q)
      BY <2>6 DEF LateMeetsQuorum
    <3>2. Against(c, Q)'
      BY <1>1, <3>1, AgainstStays
    <3> QED
      BY <3>2
  <2>7. late[c] => st[c] \in MayBeLate
    BY DEF NoReserveAfterCommit, MayBeLate
  <2> QED
    BY <1>1, <2>3, <2>4, <2>5, <2>6, <2>7 DEF CallInv, asked
<1>4. StraysPastSignature'
  <2>1. Durable(c) => st[c] \in PastSignature
    BY DEF Durable, PastSignature
  <2>2. ASSUME NEW m \in strays', m.durable PROVE st[m.call] \in PastSignature
    <3>1. CASE m \in strays
      BY <2>2, <3>1 DEF StraysPastSignature
    <3>2. CASE m = [call |-> c, to |-> p, durable |-> Durable(c)]
      BY <2>1, <2>2, <3>2
    <3> QED
      BY <1>1, <3>1, <3>2
  <2> QED
    BY <1>1, <2>2 DEF StraysPastSignature
<1>5. OnlySignedIntentsBurn'
  BY <1>1 DEF OnlySignedIntentsBurn, asked
<1> QED
  BY <1>2, <1>3, <1>4, <1>5, InvByCall

\* An unreadable 200 counts as already_seen, or ends the reservation.
LEMMA GarbledIsRefused ==
    ASSUME IInv, TypeOK', LogGrows, NEW c \in Call, NEW p \in Node, PeerGarbles(c, p)
    PROVE  IInv'
<1> USE DEF IInv
<1>1. /\ st[c] \in {"reserving", "committing"} /\ p \in todo[c]
      /\ Prepare(p, c, Durable(c))
      /\ todo' = [todo EXCEPT ![c] = {}]
      /\ seen' = [seen EXCEPT ![c] = TRUE]
      /\ st' = [st EXCEPT ![c] = IF Durable(c) THEN @ ELSE "cut_reserve"]
      /\ UNCHANGED <<asked, tries, acks, strays, late>>
  BY DEF PeerGarbles, history
<1>2. BurnsOnly(c) /\ (~Durable(c) => UNCHANGED consumed)
  BY <1>1, PrepareTables DEF Durable
<1>3. ASSUME NEW d \in Call, d # c PROVE CallInv(d)'
  <2>1. /\ st'[d] = st[d] /\ tries'[d] = tries[d] /\ todo'[d] = todo[d]
        /\ acks'[d] = acks[d] /\ seen'[d] = seen[d] /\ late'[d] = late[d]
    BY <1>1, <1>3 DEF TypeOK
  <2> QED
    BY <1>1, <2>1, OthersStay
<1>4. CallInv(c)'
  <2>1. /\ seen'[c] /\ todo'[c] = {} /\ acks'[c] = acks[c] /\ late'[c] = late[c]
        /\ st'[c] = (IF Durable(c) THEN "committing" ELSE "cut_reserve")
        /\ node' = node /\ intent' = intent
    BY <1>1 DEF TypeOK, asked, Durable
  <2>2. st'[c] = "committing" => consumed'[node[c]][intent[c]] = c
    <3>1. \A n \in Node : consumed[n][intent[c]] = c => consumed'[n][intent[c]] = c
      BY CallAssumption DEF LogGrows, TypeOK
    <3>2. st'[c] = "committing" => st[c] = "committing"
      BY <2>1 DEF Durable
    <3> QED
      BY <3>1, <3>2 DEF OwnsLocal, Owning, TypeOK
  <2>3. late[c] => ~Durable(c)
    BY DEF NoReserveAfterCommit, Durable
  <2>4. node[c] \notin acks[c]
    BY DEF PeersAreOthers
  <2> QED
    BY <2>1, <2>2, <2>3, <2>4 DEF CallInv, Owning, MayBeLate
<1>5. \A d \in Call : st[d] \in PastSignature => st'[d] \in PastSignature
  BY <1>1 DEF PastSignature, Durable, TypeOK
<1>6. StraysPastSignature'
  BY <1>1, <1>5, StraysStaySigned
<1>7. OnlySignedIntentsBurn'
  <2>1. UNCHANGED consumed \/ st'[c] \in PastSignature
    BY <1>1, <1>2 DEF Durable, PastSignature, TypeOK
  <2> QED
    BY <1>1, <1>2, <1>5, <2>1, BurnsStaySigned
<1> QED
  BY <1>3, <1>4, <1>6, <1>7, InvByCall

\* Without a client the fan-out ends as with an unreadable answer.
LEMMA NoClientIsRefused ==
    ASSUME IInv, TypeOK', LogGrows, NEW c \in Call, ClientError(c)
    PROVE  IInv'
<1> USE DEF IInv
<1>1. /\ st[c] \in {"reserving", "committing"}
      /\ todo' = [todo EXCEPT ![c] = {}]
      /\ seen' = [seen EXCEPT ![c] = TRUE]
      /\ st' = [st EXCEPT ![c] = IF Durable(c) THEN @ ELSE "cut_reserve"]
      /\ UNCHANGED <<consumed, asked, tries, acks, strays, late>>
  BY DEF ClientError, history, tables
<1>2. ASSUME NEW d \in Call, d # c PROVE CallInv(d)'
  <2>1. /\ st'[d] = st[d] /\ tries'[d] = tries[d] /\ todo'[d] = todo[d]
        /\ acks'[d] = acks[d] /\ seen'[d] = seen[d] /\ late'[d] = late[d]
    BY <1>1, <1>2 DEF TypeOK
  <2> QED
    BY <1>1, <2>1, OthersStay
<1>3. CallInv(c)'
  <2>1. /\ seen'[c] /\ todo'[c] = {} /\ acks'[c] = acks[c] /\ late'[c] = late[c]
        /\ st'[c] = (IF Durable(c) THEN "committing" ELSE "cut_reserve")
        /\ node' = node /\ intent' = intent
    BY <1>1 DEF TypeOK, asked, Durable
  <2>2. st'[c] = "committing" => consumed'[node[c]][intent[c]] = c
    BY <1>1, <2>1 DEF OwnsLocal, Owning, Durable
  <2>3. late[c] => ~Durable(c)
    BY DEF NoReserveAfterCommit, Durable
  <2>4. node[c] \notin acks[c]
    BY DEF PeersAreOthers
  <2> QED
    BY <2>1, <2>2, <2>3, <2>4 DEF CallInv, Owning, MayBeLate
<1>4. \A d \in Call : st[d] \in PastSignature => st'[d] \in PastSignature
  BY <1>1 DEF PastSignature, Durable, TypeOK
<1>5. StraysPastSignature'
  BY <1>1, <1>4, StraysStaySigned
<1>6. OnlySignedIntentsBurn'
  BY <1>1, <1>4 DEF OnlySignedIntentsBurn, PastSignature, asked
<1> QED
  BY <1>2, <1>3, <1>5, <1>6, InvByCall

\* A late request may burn, but only for a call that was past its signature.
LEMMA StrayIsSigned ==
    ASSUME IInv, TypeOK', LogGrows, NEW m \in strays, StrayArrives(m)
    PROVE  IInv'
<1> USE DEF IInv
<1>1. /\ m.to \in Node /\ m.call \in Call /\ m.durable \in BOOLEAN
      /\ strays' = strays \ {m}
      /\ Prepare(m.to, m.call, m.durable)
      /\ UNCHANGED <<st, asked, fanout, late>>
  BY DEF StrayArrives, TypeOK, Stray, history
<1>2. BurnsOnly(m.call) /\ (~m.durable => UNCHANGED consumed)
  BY <1>1, PrepareTables
<1>3. ASSUME NEW d \in Call PROVE CallInv(d)'
  BY <1>1, OthersStay DEF fanout
<1>4. StraysPastSignature'
  BY <1>1, StraysStaySigned
<1>5. OnlySignedIntentsBurn'
  <2>1. UNCHANGED consumed \/ st'[m.call] \in PastSignature
    BY <1>1, <1>2 DEF StraysPastSignature
  <2> QED
    BY <1>1, <1>2, <2>1, BurnsStaySigned
<1> QED
  BY <1>3, <1>4, <1>5, InvByCall

\* A restart ends the node's calls and leaves every log as it is.
LEMMA RestartEndsCalls ==
    ASSUME IInv, TypeOK', LogGrows, NEW n \in Node, CrashRestart(n)
    PROVE  IInv'
<1> USE DEF IInv
<1>1. /\ st' = [c \in Call |-> IF node[c] = n /\ st[c] \in Live THEN "crashed" ELSE st[c]]
      /\ UNCHANGED <<consumed, asked, fanout, strays, late>>
  BY DEF CrashRestart
<1>2. ASSUME NEW d \in Call PROVE CallInv(d)'
  <2>1. CASE st'[d] = st[d]
    BY <1>1, <2>1, OthersStay DEF fanout
  <2>2. CASE st'[d] = "crashed"
    <3>1. \A p \in todo[d] : tries[d][p] < MaxRetries
      BY DEF AttemptLeft
    <3>2. node[d] \notin todo[d] /\ node[d] \notin acks[d]
      BY DEF PeersAreOthers
    <3> QED
      BY <1>1, <2>2, <3>1, <3>2 DEF CallInv, Owning, MayBeLate, asked, fanout
  <2> QED
    BY <1>1, <2>1, <2>2
<1>3. \A d \in Call : st[d] \in PastSignature => st'[d] \in PastSignature
  BY <1>1 DEF PastSignature
<1>4. StraysPastSignature'
  BY <1>1, <1>3, StraysStaySigned
<1>5. OnlySignedIntentsBurn'
  BY <1>1, <1>3 DEF OnlySignedIntentsBurn, PastSignature, asked
<1> QED
  BY <1>2, <1>4, <1>5, InvByCall

\* A step that touches neither calls nor logs: a sweep, or a stutter.
LEMMA SweepKeeps ==
    ASSUME IInv, TypeOK', UNCHANGED <<consumed, st, asked, fanout, strays, late>>
    PROVE  IInv'
<1>1. LogGrows
  BY DEF LogGrows
<1>2. ASSUME NEW d \in Call PROVE CallInv(d)'
  BY <1>1, OthersStay DEF fanout
<1>3. StraysPastSignature' /\ OnlySignedIntentsBurn'
  BY DEF IInv, StraysPastSignature, OnlySignedIntentsBurn, asked
<1> QED
  BY <1>2, <1>3, InvByCall

----
\* Every step keeps the invariant.
LEMMA InvStep == IInv /\ [Next]_vars => IInv'
<1> SUFFICES ASSUME IInv, [Next]_vars PROVE IInv'
  OBVIOUS
<1>a. TypeOK' /\ LogGrows
  BY TypeStep DEF IInv
<1> USE <1>a
<1>1. ASSUME NEW c \in Call, ReserveLocal(c) PROVE IInv'
  <2>1. CASE st' = [st EXCEPT ![c] = "reserving"]
    BY <1>1, <2>1, ReserveStarts
  <2>2. CASE st' = [st EXCEPT ![c] = "no_reserve"] /\ UNCHANGED <<tables, fanout>>
    <3>1. /\ st[c] = "idle" /\ UNCHANGED <<consumed, asked, fanout, strays>>
          /\ late' = [late EXCEPT ![c] = late'[c]]
      BY <1>1, <2>2 DEF ReserveLocal, tables, IInv, TypeOK
    <3> QED
      BY <2>2, <3>1, CallMoves DEF PastSignature, MayBeLate
  <2> QED
    BY <1>1, <2>1, <2>2 DEF ReserveLocal
<1>2. ASSUME NEW c \in Call, ReserveEnds(c) PROVE IInv'
  <2>1. /\ st[c] = "reserving" /\ UNCHANGED <<asked, fanout, strays, late>> /\ UNCHANGED consumed
        /\ st' = [st EXCEPT ![c] = IF Refused(c) THEN "no_reserve" ELSE Phase(c)]
    BY <1>2 DEF ReserveEnds, Release, tables, history
  <2>2. late' = [late EXCEPT ![c] = late'[c]] /\ late'[c] = late[c]
    BY <2>1 DEF IInv, TypeOK
  <2>3. late[c] => Refused(c)
    BY <2>1, LateIsRefused
  <2>4. Phase(c) \in {"signing", "accepted", "reserved"}
    BY DEF Phase
  <2> QED
    BY <2>1, <2>2, <2>3, <2>4, CallMoves DEF PastSignature, MayBeLate
<1>3. ASSUME NEW c \in Call, SignFails(c) \/ SignSucceeds(c) PROVE IInv'
  <2>1. /\ st[c] = "signing" /\ UNCHANGED <<asked, fanout, strays, late>> /\ UNCHANGED consumed
        /\ \E s \in {"no_sign", "accepted"} : st' = [st EXCEPT ![c] = s]
    BY <1>3 DEF SignFails, SignSucceeds, Release, tables, history
  <2>2. late' = [late EXCEPT ![c] = late'[c]] /\ ~late'[c]
    BY <2>1 DEF IInv, TypeOK, NoReserveAfterCommit
  <2> QED
    BY <2>1, <2>2, CallMoves DEF PastSignature, MayBeLate
<1>4. ASSUME NEW c \in Call, CommitLocal(c) PROVE IInv'
  <2>1. /\ \E s \in {"again", "claiming"} : st' = [st EXCEPT ![c] = s]
        /\ UNCHANGED <<consumed, asked, fanout, strays, late>>
        /\ st[c] \in {"accepted", "idle"}
    BY <1>4 DEF CommitLocal, ReadyToCommit, tables
  <2>2. late' = [late EXCEPT ![c] = late'[c]] /\ ~late'[c]
    BY <2>1 DEF IInv, TypeOK, NoReserveAfterCommit, LateMeetsQuorum
  <2> QED
    BY <2>1, <2>2, CallMoves DEF PastSignature, MayBeLate
<1>15. ASSUME NEW c \in Call, ClaimLocal(c) PROVE IInv'
  BY <1>15, CommitStarts
<1>5. ASSUME NEW c \in Call, ClaimFails(c) PROVE IInv'
  <2>1. /\ st' = [st EXCEPT ![c] = "no_commit"] /\ UNCHANGED <<consumed, asked, fanout, strays, late>>
        /\ st[c] = "claiming"
    BY <1>5 DEF ClaimFails, RollBack, Release, tables, history
  <2>2. late' = [late EXCEPT ![c] = late'[c]] /\ ~late'[c]
    BY <2>1 DEF IInv, TypeOK, NoReserveAfterCommit
  <2> QED
    BY <2>1, <2>2, CallMoves DEF PastSignature, MayBeLate
<1>6. ASSUME NEW c \in Call, CommitEnds(c) PROVE IInv'
  <2>1. /\ st[c] = "committing" /\ UNCHANGED <<consumed, asked, fanout, strays, late>>
        /\ st' = [st EXCEPT ![c] = IF Refused(c) THEN "no_commit" ELSE "fresh"]
    BY <1>6 DEF CommitEnds, RollBack, Release, tables
  <2>2. late' = [late EXCEPT ![c] = late'[c]] /\ ~late'[c]
    BY <2>1 DEF IInv, TypeOK, NoReserveAfterCommit
  <2> QED
    BY <2>1, <2>2, CallMoves DEF PastSignature, MayBeLate
<1>7. ASSUME NEW c \in Call, ReleaseCall(c) PROVE IInv'
  <2>1. /\ st[c] = "idle" /\ UNCHANGED <<consumed, asked, fanout, strays, late>>
        /\ st' = [st EXCEPT ![c] = "released"]
    BY <1>7 DEF ReleaseCall, Release, history
  <2>2. late' = [late EXCEPT ![c] = late'[c]] /\ ~late'[c]
    BY <2>1 DEF IInv, TypeOK, LateMeetsQuorum
  <2> QED
    BY <2>1, <2>2, CallMoves DEF PastSignature, MayBeLate
<1>8. ASSUME NEW c \in Call, NEW p \in Node, PeerAnswers(c, p) PROVE IInv'
  BY <1>8, AnswerCounts
<1>9. ASSUME NEW c \in Call, NEW p \in Node, PeerSilent(c, p) PROVE IInv'
  BY <1>9, SilenceLeavesStray
<1>10. ASSUME NEW c \in Call, NEW p \in Node, PeerGarbles(c, p) PROVE IInv'
  BY <1>10, GarbledIsRefused
<1>16. ASSUME NEW c \in Call, ClientError(c) PROVE IInv'
  BY <1>16, NoClientIsRefused
<1>11. ASSUME NEW m \in strays, StrayArrives(m) PROVE IInv'
  BY <1>11, StrayIsSigned
<1>12. ASSUME NEW n \in Node, NEW i \in Intent, Expire(n, i) PROVE IInv'
  BY <1>12, SweepKeeps DEF Expire, history
<1>13. ASSUME NEW n \in Node, CrashRestart(n) PROVE IInv'
  BY <1>13, RestartEndsCalls
<1>14. CASE UNCHANGED vars
  BY <1>14, SweepKeeps DEF vars, tables, history
<1> QED
  BY <1>1, <1>2, <1>3, <1>4, <1>5, <1>6, <1>7, <1>8, <1>9, <1>10, <1>11, <1>12, <1>13, <1>14,
     <1>15, <1>16 DEF Next

----
\* The inductive invariant holds in every reachable state.
THEOREM Invariance == Spec => []IInv
<1> QED
  BY InitInv, InvStep, PTL DEF Spec

\* Type correctness of the tables, the calls and the requests on their way.
THEOREM TypeCorrect == Spec => []TypeOK
<1>1. IInv => TypeOK
  BY DEF IInv
<1> QED
  BY <1>1, Invariance, PTL

\* Of all calls for one intent in the whole mesh at most one has its commit go
\* through the quorum, through retries, lost answers, expiries and restarts.
THEOREM IntentCommitsOnce == Spec => []AtMostOneFreshCommit
<1> QED
  BY OneFreshCommit, Invariance, PTL

\* A commit that went through left its own burn in a quorum of durable logs.
THEOREM CommitIsDurable == Spec => []FreshCommitHoldsQuorum
<1> QED
  BY FreshOwnsQuorum, Invariance, PTL

\* A committed intent is never reserved again, so it is never signed for again.
THEOREM CommittedIsClosed == Spec => []NoReserveAfterCommit
<1>1. IInv => NoReserveAfterCommit
  BY DEF IInv
<1> QED
  BY <1>1, Invariance, PTL

\* A failed signature burns nothing anywhere in the mesh.
THEOREM FailedSignBurnsNothing == Spec => []OnlySignedIntentsBurn
<1>1. IInv => OnlySignedIntentsBurn
  BY DEF IInv
<1> QED
  BY <1>1, Invariance, PTL

----
(***************************************************************************)
(* Sums of weights.  Sum is a fold over subsets, as Total is: what it      *)
(* computes is shown on a smallest set for which the claim would fail.     *)
(***************************************************************************)
Pick(S) == CHOOSE x \in S : TRUE
Sum(w, S) == MapThenSumSet(LAMBDA x : w[x], S)

\* g adds up the weights of every subset of S, in the order Pick gives.
Sums(w, S, g) ==
    g = [s \in SUBSET S |-> IF s = {} THEN 0 ELSE w[Pick(s)] + g[s \ {Pick(s)}]]

\* Every set of finite sets has a member none of whose proper subsets is one.
LEMMA MinimalSet ==
    ASSUME NEW S, NEW T, T \subseteq FiniteSubsetsOf(S), T # {}
    PROVE  \E x \in T : \A y \in T : y \subseteq x => y = x
<1>1. PICK x \in T : \A y \in T : ~ (<<y, x>> \in StrictSubsetOrdering(S))
  BY WFMin, FS_StrictSubsetOrderingWellFounded
<1>2. T \subseteq SUBSET S
  BY DEF FiniteSubsetsOf
<1> QED
  BY <1>1, <1>2 DEF StrictSubsetOrdering

\* Two such functions agree wherever both are defined.
LEMMA SumsAgree ==
    ASSUME NEW w, NEW S, NEW T, T \subseteq S, IsFiniteSet(T), NEW g, NEW h, Sums(w, S, g), Sums(w, T, h)
    PROVE  \A s \in SUBSET T : g[s] = h[s]
<1> DEFINE Bad == {s \in SUBSET T : g[s] # h[s]}
<1>1. SUFFICES ASSUME Bad # {} PROVE FALSE
  OBVIOUS
<1>2. Bad \subseteq FiniteSubsetsOf(T)
  BY FS_Subset DEF FiniteSubsetsOf
<1>3. PICK x \in Bad : \A y \in Bad : y \subseteq x => y = x
  <2> HIDE DEF Bad
  <2> QED BY <1>1, <1>2, MinimalSet
<1>4. x # {}
  BY DEF Sums
<1>5. Pick(x) \in x
  BY <1>4 DEF Pick
<1>6. g[x \ {Pick(x)}] = h[x \ {Pick(x)}]
  BY <1>3, <1>5
<1>7. /\ g[x] = w[Pick(x)] + g[x \ {Pick(x)}]
      /\ h[x] = w[Pick(x)] + h[x \ {Pick(x)}]
  BY <1>4 DEF Sums
<1> QED
  BY <1>6, <1>7

\* There is such a function on the subsets of every finite set.
LEMMA SumsExist ==
    ASSUME NEW w, NEW S, IsFiniteSet(S)
    PROVE  \E g : Sums(w, S, g)
<1> DEFINE Bad == {s \in SUBSET S : ~ \E g : Sums(w, s, g)}
           G(s) == CHOOSE g : Sums(w, s, g)
<1>1. SUFFICES ASSUME Bad # {} PROVE FALSE
  OBVIOUS
<1>2. Bad \subseteq FiniteSubsetsOf(S)
  BY FS_Subset DEF FiniteSubsetsOf
<1>3. PICK x \in Bad : \A y \in Bad : y \subseteq x => y = x
  <2> HIDE DEF Bad
  <2> QED BY <1>1, <1>2, MinimalSet
<1>4. \A y \in SUBSET x : y # x => Sums(w, y, G(y)) /\ IsFiniteSet(y)
  BY <1>3, FS_Subset
<1> DEFINE f == [s \in SUBSET x |->
                    IF s = {} THEN 0 ELSE w[Pick(s)] + G(s \ {Pick(s)})[s \ {Pick(s)}]]
<1> HIDE DEF G
<1>5. ASSUME NEW y \in SUBSET x, y # x PROVE f[y] = G(y)[y]
  <2>0. Sums(w, y, G(y))
    BY <1>4, <1>5
  <2>1. CASE y = {}
    BY <2>0, <2>1 DEF Sums
  <2>2. CASE y # {}
    <3> DEFINE z == y \ {Pick(y)}
    <3>1. Pick(y) \in y
      BY <2>2 DEF Pick
    <3>2. z \in SUBSET y /\ z \in SUBSET x /\ z # x
      BY <3>1
    <3>3. Sums(w, z, G(z)) /\ IsFiniteSet(z)
      BY <3>2, <1>4
    <3>4. G(y)[z] = G(z)[z]
      <4> HIDE DEF z
      <4> QED BY <2>0, <3>2, <3>3, SumsAgree
    <3>5. G(y)[y] = w[Pick(y)] + G(y)[z]
      BY <2>0, <2>2 DEF Sums
    <3> QED
      BY <2>2, <3>4, <3>5
  <2> QED
    BY <2>1, <2>2
<1>6. ASSUME NEW s \in SUBSET x, s # {}
      PROVE  f[s \ {Pick(s)}] = G(s \ {Pick(s)})[s \ {Pick(s)}]
  <2>1. Pick(s) \in s
    BY <1>6 DEF Pick
  <2> QED
    BY <2>1, <1>5
<1>7. Sums(w, x, f)
  BY <1>6 DEF Sums
<1> QED
  BY <1>3, <1>7

\* Sum is the value of that function.
LEMMA SumIs ==
    ASSUME NEW w, NEW S, IsFiniteSet(S), NEW g, Sums(w, S, g)
    PROVE  Sum(w, S) = g[S]
<1>1. ASSUME NEW h, Sums(w, S, h) PROVE h = g
  <2> DEFINE T == S
  <2>1. T \subseteq S /\ IsFiniteSet(T) /\ Sums(w, T, g) /\ Sums(w, S, h)
    BY <1>1
  <2> HIDE DEF T
  <2>2. \A s \in SUBSET T : h[s] = g[s]
    BY <2>1, SumsAgree
  <2>3. \A s \in SUBSET S : h[s] = g[s]
    BY <2>2 DEF T
  <2> QED
    BY <1>1, <2>3 DEF Sums
<1> QED
  BY <1>1 DEF Sum, MapThenSumSet, MapThenFoldSet, Sums, Pick

\* Sum adds up one element after the other.
LEMMA SumUnfolds ==
    ASSUME NEW w
    PROVE  /\ Sum(w, {}) = 0
           /\ \A S : IsFiniteSet(S) /\ S # {} => Sum(w, S) = w[Pick(S)] + Sum(w, S \ {Pick(S)})
<1>1. Sum(w, {}) = 0
  <2>1. IsFiniteSet({})
    BY FS_EmptySet
  <2>2. PICK g : Sums(w, {}, g)
    BY <2>1, SumsExist
  <2> QED
    BY <2>1, <2>2, SumIs DEF Sums
<1>2. ASSUME NEW S, IsFiniteSet(S), S # {} PROVE Sum(w, S) = w[Pick(S)] + Sum(w, S \ {Pick(S)})
  <2> DEFINE R == S \ {Pick(S)}
  <2>1. PICK g : Sums(w, S, g)
    BY <1>2, SumsExist
  <2>2. IsFiniteSet(R) /\ R \in SUBSET S
    BY <1>2, FS_Subset
  <2>3. PICK h : Sums(w, R, h)
    BY <2>2, SumsExist
  <2>4. Sum(w, S) = g[S] /\ Sum(w, R) = h[R]
    <3> HIDE DEF R
    <3> QED BY <1>2, <2>1, <2>2, <2>3, SumIs
  <2>5. g[R] = h[R]
    <3> HIDE DEF R
    <3> QED BY <2>1, <2>2, <2>3, SumsAgree
  <2>6. g[S] = w[Pick(S)] + g[R]
    BY <1>2, <2>1 DEF Sums
  <2> QED
    BY <2>4, <2>5, <2>6
<1> QED
  BY <1>1, <1>2

\* The sum of weights is a natural number.
LEMMA SumType ==
    ASSUME NEW D, NEW w \in [D -> Nat], NEW S \in SUBSET D, IsFiniteSet(S)
    PROVE  Sum(w, S) \in Nat
<1> DEFINE Bad == {s \in SUBSET S : Sum(w, s) \notin Nat}
<1>1. SUFFICES ASSUME Bad # {} PROVE FALSE
  OBVIOUS
<1>2. Bad \subseteq FiniteSubsetsOf(S)
  BY FS_Subset DEF FiniteSubsetsOf
<1>3. PICK x \in Bad : \A y \in Bad : y \subseteq x => y = x
  <2> HIDE DEF Bad
  <2> QED BY <1>1, <1>2, MinimalSet
<1>4. x # {} /\ IsFiniteSet(x)
  <2>1. x \in SUBSET S /\ Sum(w, x) \notin Nat
    OBVIOUS
  <2>2. x # {}
    BY <2>1, SumUnfolds
  <2> QED
    BY <2>1, <2>2, FS_Subset
<1>5. Pick(x) \in x
  BY <1>4 DEF Pick
<1>6. Sum(w, x \ {Pick(x)}) \in Nat
  BY <1>3, <1>5
<1>7. w[Pick(x)] \in Nat
  BY <1>5
<1>8. Sum(w, x) = w[Pick(x)] + Sum(w, x \ {Pick(x)})
  BY <1>4, SumUnfolds
<1>9. Sum(w, x) \in Nat
  BY <1>6, <1>7, <1>8
<1> QED
  BY <1>9

\* Any element may be added last.
LEMMA SumSplits ==
    ASSUME NEW D, NEW w \in [D -> Nat], NEW S \in SUBSET D, IsFiniteSet(S), NEW i \in S
    PROVE  Sum(w, S) = w[i] + Sum(w, S \ {i})
<1> DEFINE Bad == {s \in SUBSET S : \E x \in s : Sum(w, s) # w[x] + Sum(w, s \ {x})}
<1>1. SUFFICES ASSUME Bad # {} PROVE FALSE
  OBVIOUS
<1>2. Bad \subseteq FiniteSubsetsOf(S)
  BY FS_Subset DEF FiniteSubsetsOf
<1>3. PICK s \in Bad : \A y \in Bad : y \subseteq s => y = s
  <2> HIDE DEF Bad
  <2> QED BY <1>1, <1>2, MinimalSet
<1>4. PICK x \in s : Sum(w, s) # w[x] + Sum(w, s \ {x})
  OBVIOUS
<1> DEFINE p == Pick(s)
<1>5. p \in s /\ IsFiniteSet(s)
  BY <1>4, FS_Subset DEF Pick
<1>6. Sum(w, s) = w[p] + Sum(w, s \ {p})
  BY <1>4, <1>5, SumUnfolds
<1> HIDE DEF p
<1>7. x # p
  BY <1>4, <1>6
<1>8. Sum(w, s \ {p}) = w[x] + Sum(w, (s \ {p}) \ {x})
  <2>1. s \ {p} \in SUBSET S /\ s \ {p} # s /\ x \in s \ {p}
    BY <1>4, <1>5, <1>7
  <2>2. s \ {p} \notin Bad
    BY <2>1, <1>3
  <2> QED
    BY <2>1, <2>2
<1>9. Sum(w, s \ {x}) = w[p] + Sum(w, (s \ {x}) \ {p})
  <2>1. s \ {x} \in SUBSET S /\ s \ {x} # s /\ p \in s \ {x}
    BY <1>4, <1>5, <1>7
  <2>2. s \ {x} \notin Bad
    BY <2>1, <1>3
  <2> QED
    BY <2>1, <2>2
<1>10. Sum(w, (s \ {p}) \ {x}) = Sum(w, (s \ {x}) \ {p})
  <2>1. (s \ {p}) \ {x} = (s \ {x}) \ {p}
    OBVIOUS
  <2> QED
    BY <2>1
<1>11. w[x] \in Nat /\ w[p] \in Nat /\ Sum(w, (s \ {x}) \ {p}) \in Nat
  <2>1. (s \ {x}) \ {p} \in SUBSET D /\ IsFiniteSet((s \ {x}) \ {p})
    BY <1>5, FS_Subset
  <2> QED
    BY <2>1, <1>4, <1>5, SumType
<1> HIDE DEF Bad
<1> QED
  BY <1>4, <1>6, <1>8, <1>9, <1>10, <1>11

\* A larger set has at least the sum of a smaller one.
LEMMA SumGrows ==
    ASSUME NEW D, NEW w \in [D -> Nat], NEW T \in SUBSET D, IsFiniteSet(T), NEW S \in SUBSET T
    PROVE  Sum(w, S) <= Sum(w, T)
<1> DEFINE Bad == {t \in SUBSET T : \E s \in SUBSET t : ~ (Sum(w, s) <= Sum(w, t))}
<1>1. SUFFICES ASSUME Bad # {} PROVE FALSE
  OBVIOUS
<1>2. Bad \subseteq FiniteSubsetsOf(T)
  BY FS_Subset DEF FiniteSubsetsOf
<1>3. PICK t \in Bad : \A y \in Bad : y \subseteq t => y = t
  <2> HIDE DEF Bad
  <2> QED BY <1>1, <1>2, MinimalSet
<1>4. PICK s \in SUBSET t : ~ (Sum(w, s) <= Sum(w, t))
  OBVIOUS
<1>5. IsFiniteSet(t) /\ t \in SUBSET D /\ Sum(w, t) \in Nat
  BY FS_Subset, SumType
<1>6. s # t
  BY <1>4, <1>5
<1>7. PICK x \in t : x \notin s
  BY <1>4, <1>6
<1>8. Sum(w, s) <= Sum(w, t \ {x})
  BY <1>3, <1>4, <1>7
<1>9. Sum(w, t) = w[x] + Sum(w, t \ {x})
  BY <1>5, <1>7, SumSplits
<1>10. w[x] \in Nat /\ Sum(w, t \ {x}) \in Nat /\ Sum(w, s) \in Nat
  <2>1. IsFiniteSet(t \ {x}) /\ IsFiniteSet(s)
    BY <1>5, FS_Subset
  <2> QED
    BY <2>1, <1>5, <1>7, SumType
<1> QED
  BY <1>4, <1>8, <1>9, <1>10

\* One more element adds its weight, or was there already.
LEMMA SumAdds ==
    ASSUME NEW D, NEW w \in [D -> Nat], NEW S \in SUBSET D, IsFiniteSet(S), NEW x \in D
    PROVE  /\ IsFiniteSet(S \cup {x})
           /\ Sum(w, S \cup {x}) <= Sum(w, S) + w[x]
<1> DEFINE C == S \cup {x}
<1>1. IsFiniteSet(C) /\ C \in SUBSET D /\ x \in C
  BY FS_AddElement
<1>2. C \ {x} \in SUBSET S /\ IsFiniteSet(C \ {x})
  BY <1>1, FS_Subset
<1> HIDE DEF C
<1>3. Sum(w, C \ {x}) <= Sum(w, S) /\ Sum(w, C \ {x}) \in Nat /\ Sum(w, S) \in Nat
  BY <1>1, <1>2, SumGrows, SumType
<1>4. Sum(w, C) = w[x] + Sum(w, C \ {x}) /\ w[x] \in Nat
  BY <1>1, SumSplits
<1> QED
  BY <1>1, <1>3, <1>4 DEF C

\* One element less takes its weight away.
LEMMA SumDrops ==
    ASSUME NEW D, NEW w \in [D -> Nat], NEW S \in SUBSET D, IsFiniteSet(S), NEW x \in S,
           NEW R \in SUBSET (S \ {x})
    PROVE  IsFiniteSet(R) /\ Sum(w, R) + w[x] <= Sum(w, S)
<1>1. IsFiniteSet(S \ {x}) /\ S \ {x} \in SUBSET D /\ IsFiniteSet(R)
  BY FS_Subset
<1>2. Sum(w, R) <= Sum(w, S \ {x}) /\ Sum(w, R) \in Nat /\ Sum(w, S \ {x}) \in Nat
  BY <1>1, SumGrows, SumType
<1>3. Sum(w, S) = w[x] + Sum(w, S \ {x}) /\ w[x] \in Nat
  BY SumSplits
<1> QED
  BY <1>1, <1>2, <1>3

----
(***************************************************************************)
(* The caps.  Each running call that holds an amount counts by itself, for *)
(* a sweep under a call lets a second one hold the same intent; an entry   *)
(* counts when no call holds it, and what was paid counts once.            *)
(***************************************************************************)
HoldersOf(n) == {c \in Call : node[c] = n /\ Holder(c)}
EntriesOf(n) == (own[n] \ HeldBy(n)) \cup paid[n]
Worth == [c \in Call |-> Amount[intent[c]]]
Standing(n) == Sum(Worth, HoldersOf(n)) + Sum(Amount, EntriesOf(n))

\* A burnt intent has no entry, and what is paid is burnt.
BurntHasNoEntry == \A n \in Node, i \in Intent : consumed[n][i] # NoCall => i \notin reserved[n]
PaidIsBurnt == \A n \in Node : \A i \in paid[n] : consumed[n][i] # NoCall

\* All that stands on n is counted or was loosed, and what is counted is within the cap.
Budget ==
    \A n \in Node : /\ IsFiniteSet(HoldersOf(n)) /\ IsFiniteSet(EntriesOf(n))
                    /\ Standing(n) <= spent[n] + loosed[n]
                    /\ spent[n] <= MaxDay

CapInv == BurntHasNoEntry /\ PaidIsBurnt /\ Budget

\* How spent_today and loosed of n follow what stands on it.
Quiet(n) == /\ HoldersOf(n)' \subseteq HoldersOf(n) /\ EntriesOf(n)' \subseteq EntriesOf(n)
            /\ spent'[n] = spent[n] /\ loosed'[n] = loosed[n]

\* a call gives back its amount, or nothing if the entry is another's,
GivenBack(n) ==
    \E c \in HoldersOf(n) :
        /\ HoldersOf(n)' \subseteq HoldersOf(n) \ {c} /\ EntriesOf(n)' \subseteq EntriesOf(n)
        /\ spent'[n] \in {spent[n], SatSub(spent[n], Amount[intent[c]])} /\ loosed'[n] = loosed[n]

\* a call ends and leaves its entry, or is paid,
LeftBehind(n) ==
    \E c \in HoldersOf(n) :
        /\ HoldersOf(n)' \subseteq HoldersOf(n) \ {c}
        /\ EntriesOf(n)' \subseteq EntriesOf(n) \cup {intent[c]}
        /\ spent'[n] = spent[n] /\ loosed'[n] = loosed[n]

\* an entry nobody holds is dropped with its amount,
Dropped(n) ==
    \E i \in EntriesOf(n) :
        /\ HoldersOf(n)' \subseteq HoldersOf(n) /\ EntriesOf(n)' \subseteq EntriesOf(n) \ {i}
        /\ spent'[n] = SatSub(spent[n], Amount[i]) /\ loosed'[n] = loosed[n]

\* an amount is loosed,
Loosened(n) ==
    \E x \in Nat :
        /\ HoldersOf(n)' \subseteq HoldersOf(n) /\ EntriesOf(n)' \subseteq EntriesOf(n)
        /\ spent'[n] = SatSub(spent[n], x) /\ loosed'[n] = loosed[n] + x

\* a call reserves within the cap,
Promised(n) ==
    \E c \in Call :
        /\ HoldersOf(n)' \subseteq HoldersOf(n) \cup {c} /\ EntriesOf(n)' \subseteq EntriesOf(n)
        /\ spent'[n] = spent[n] + Amount[intent[c]] /\ spent[n] + Amount[intent[c]] <= MaxDay
        /\ loosed'[n] = loosed[n]

\* or all is forgotten.
Forgotten(n) == HoldersOf(n)' = {} /\ EntriesOf(n)' = {} /\ spent'[n] = 0

Follows(n) ==
    Quiet(n) \/ GivenBack(n) \/ LeftBehind(n) \/ Dropped(n) \/ Loosened(n) \/ Promised(n) \/ Forgotten(n)

\* Every one of these changes keeps the budget.
LEMMA BudgetStep ==
    ASSUME TypeOK, TypeOK', UNCHANGED asked, Budget, \A n \in Node : Follows(n)
    PROVE  Budget'
<1> SUFFICES ASSUME NEW n \in Node
             PROVE  /\ IsFiniteSet(HoldersOf(n)') /\ IsFiniteSet(EntriesOf(n)')
                    /\ Standing(n)' <= spent'[n] + loosed'[n]
                    /\ spent'[n] <= MaxDay
  BY DEF Budget
<1> DEFINE H == HoldersOf(n)
           K == HoldersOf(n)'
           E == EntriesOf(n)
           F == EntriesOf(n)'
           W == Worth
           S == spent[n]
           L == loosed[n]
           P == spent'[n]
           Q == loosed'[n]
<1>1. /\ W \in [Call -> Nat] /\ W' = W /\ \A c \in Call : W[c] = Amount[intent[c]]
      /\ Amount \in [Intent -> Nat] /\ MaxDay \in Nat
      /\ \A c \in Call : intent[c] \in Intent
  BY AmountAssumption DEF Worth, asked, TypeOK
<1>2. H \in SUBSET Call /\ K \in SUBSET Call /\ E \in SUBSET Intent /\ F \in SUBSET Intent
  BY DEF HoldersOf, EntriesOf, TypeOK
<1>3. /\ IsFiniteSet(H) /\ IsFiniteSet(E) /\ Sum(W, H) + Sum(Amount, E) <= S + L /\ S <= MaxDay
      /\ S \in Nat /\ L \in Nat /\ P \in Nat /\ Q \in Nat
  BY DEF Budget, Standing, TypeOK
<1>4. Standing(n)' = Sum(W, K) + Sum(Amount, F)
  <2>1. Standing(n)' = Sum(W', K) + Sum(Amount, F)
    BY DEF Standing
  <2> QED
    BY <1>1, <2>1
<1>5. Sum(W, H) \in Nat /\ Sum(Amount, E) \in Nat
  BY <1>1, <1>2, <1>3, SumType
<1>f. Follows(n)
  OBVIOUS
<1>c. /\ Quiet(n) => K \subseteq H /\ F \subseteq E /\ P = S /\ Q = L
      /\ GivenBack(n) => \E c \in H : /\ K \subseteq H \ {c} /\ F \subseteq E
                                      /\ P \in {S, SatSub(S, Amount[intent[c]])} /\ Q = L
      /\ LeftBehind(n) => \E c \in H : /\ K \subseteq H \ {c} /\ F \subseteq E \cup {intent[c]}
                                       /\ P = S /\ Q = L
      /\ Dropped(n) => \E i \in E : /\ K \subseteq H /\ F \subseteq E \ {i}
                                    /\ P = SatSub(S, Amount[i]) /\ Q = L
      /\ Loosened(n) => \E x \in Nat : /\ K \subseteq H /\ F \subseteq E
                                       /\ P = SatSub(S, x) /\ Q = L + x
      /\ Promised(n) => \E c \in Call : /\ K \subseteq H \cup {c} /\ F \subseteq E
                                        /\ P = S + Amount[intent[c]] /\ S + Amount[intent[c]] <= MaxDay
                                        /\ Q = L
      /\ Forgotten(n) => K = {} /\ F = {} /\ P = 0
  BY DEF Quiet, GivenBack, LeftBehind, Dropped, Loosened, Promised, Forgotten
<1> HIDE DEF H, K, E, F, W, S, L, P, Q
<1> DEFINE Goal == /\ IsFiniteSet(K) /\ IsFiniteSet(F)
                   /\ Sum(W, K) + Sum(Amount, F) <= P + Q
                   /\ P <= MaxDay
<1>k. K \subseteq H => IsFiniteSet(K) /\ Sum(W, K) \in Nat /\ Sum(W, K) <= Sum(W, H)
  BY <1>1, <1>2, <1>3, FS_Subset, SumGrows, SumType
<1>e. F \subseteq E => IsFiniteSet(F) /\ Sum(Amount, F) \in Nat /\ Sum(Amount, F) <= Sum(Amount, E)
  BY <1>1, <1>2, <1>3, FS_Subset, SumGrows, SumType
<1>6. ASSUME K \subseteq H, F \subseteq E, P = S, Q = L PROVE Goal
  BY <1>3, <1>5, <1>k, <1>e, <1>6
<1>7. ASSUME NEW c \in H, K \subseteq H \ {c}, F \subseteq E,
             P \in {S, SatSub(S, Amount[intent[c]])}, Q = L
      PROVE  Goal
  <2>1. IsFiniteSet(K) /\ Sum(W, K) + W[c] <= Sum(W, H) /\ Sum(W, K) \in Nat
    BY <1>1, <1>2, <1>3, <1>7, <1>k, SumDrops
  <2>2. W[c] = Amount[intent[c]] /\ W[c] \in Nat
    BY <1>1, <1>2
  <2>3. P = S \/ P = SatSub(S, W[c])
    BY <1>7, <2>2
  <2> QED
    BY <1>1, <1>3, <1>5, <1>e, <1>7, <2>1, <2>2, <2>3 DEF SatSub
<1>8. ASSUME NEW c \in H, K \subseteq H \ {c}, F \subseteq E \cup {intent[c]}, P = S, Q = L
      PROVE  Goal
  <2>1. IsFiniteSet(K) /\ Sum(W, K) + W[c] <= Sum(W, H) /\ Sum(W, K) \in Nat
    BY <1>1, <1>2, <1>3, <1>8, <1>k, SumDrops
  <2>2. W[c] = Amount[intent[c]] /\ W[c] \in Nat /\ intent[c] \in Intent
    BY <1>1, <1>2
  <2> DEFINE C == E \cup {intent[c]}
  <2>3. IsFiniteSet(C) /\ Sum(Amount, C) <= Sum(Amount, E) + Amount[intent[c]] /\ C \in SUBSET Intent
    BY <1>1, <1>2, <1>3, <2>2, SumAdds
  <2> HIDE DEF C
  <2>4. IsFiniteSet(F) /\ Sum(Amount, F) <= Sum(Amount, C) /\ Sum(Amount, F) \in Nat /\ Sum(Amount, C) \in Nat
    <3>1. F \in SUBSET C
      BY <1>8 DEF C
    <3> QED
      BY <1>1, <1>2, <2>3, <3>1, FS_Subset, SumGrows, SumType
  <2> QED
    BY <1>1, <1>3, <1>5, <1>8, <2>1, <2>2, <2>3, <2>4
<1>9. ASSUME NEW i \in E, K \subseteq H, F \subseteq E \ {i}, P = SatSub(S, Amount[i]), Q = L
      PROVE  Goal
  <2>1. IsFiniteSet(F) /\ Sum(Amount, F) + Amount[i] <= Sum(Amount, E) /\ Sum(Amount, F) \in Nat
    BY <1>1, <1>2, <1>3, <1>9, <1>e, SumDrops
  <2>2. Amount[i] \in Nat
    BY <1>1, <1>2
  <2> QED
    BY <1>1, <1>3, <1>5, <1>k, <1>9, <2>1, <2>2 DEF SatSub
<1>10. ASSUME NEW x \in Nat, K \subseteq H, F \subseteq E, P = SatSub(S, x), Q = L + x
       PROVE  Goal
  BY <1>1, <1>3, <1>5, <1>k, <1>e, <1>10 DEF SatSub
<1>11. ASSUME NEW c \in Call, K \subseteq H \cup {c}, F \subseteq E,
              P = S + Amount[intent[c]], S + Amount[intent[c]] <= MaxDay, Q = L
       PROVE  Goal
  <2> DEFINE C == H \cup {c}
  <2>1. IsFiniteSet(C) /\ Sum(W, C) <= Sum(W, H) + W[c] /\ C \in SUBSET Call
    BY <1>1, <1>2, <1>3, SumAdds
  <2> HIDE DEF C
  <2>2. IsFiniteSet(K) /\ Sum(W, K) <= Sum(W, C) /\ Sum(W, K) \in Nat /\ Sum(W, C) \in Nat
    <3>1. K \in SUBSET C
      BY <1>11 DEF C
    <3> QED
      BY <1>1, <1>2, <2>1, <3>1, FS_Subset, SumGrows, SumType
  <2>3. W[c] = Amount[intent[c]] /\ W[c] \in Nat
    BY <1>1
  <2> QED
    BY <1>1, <1>3, <1>5, <1>e, <1>11, <2>1, <2>2, <2>3
<1>12. ASSUME K = {}, F = {}, P = 0 PROVE Goal
  <2>1. IsFiniteSet({}) /\ Sum(W, {}) = 0 /\ Sum(Amount, {}) = 0
    BY FS_EmptySet, SumUnfolds
  <2> QED
    BY <1>1, <1>3, <1>12, <2>1
<1>13. Goal
  <2> HIDE DEF Goal
  <2> QED
    BY <1>f, <1>c, <1>6, <1>7, <1>8, <1>9, <1>10, <1>11, <1>12 DEF Follows
<1> QED
  BY <1>4, <1>13 DEF K, F, P, Q

SameHolders == UNCHANGED asked /\ \A d \in Call : Holder(d)' <=> Holder(d)
OneEnds(c) == /\ UNCHANGED asked /\ Holder(c) /\ ~Holder(c)'
              /\ \A d \in Call \ {c} : Holder(d)' <=> Holder(d)

\* The other calls stay where they are.
OthersWait(c) == UNCHANGED asked /\ \A d \in Call \ {c} : st'[d] = st[d]

\* What a call that moves alone does to the holders.
LEMMA OneMoves ==
    ASSUME NEW c \in Call, OthersWait(c)
    PROVE  /\ (Holder(c)' <=> Holder(c)) => SameHolders
           /\ Holder(c) /\ ~Holder(c)' => OneEnds(c)
<1>1. \A d \in Call \ {c} : Holder(d)' <=> Holder(d)
  BY DEF OthersWait, Holder, asked
<1> QED
  BY <1>1 DEF OthersWait, SameHolders, OneEnds

\* A call that stops holds nothing.
LEMMA OneStops ==
    ASSUME NEW c \in Call, OthersWait(c), st'[c] \notin Live
    PROVE  IF Holder(c) THEN OneEnds(c) ELSE SameHolders
<1>1. ~Holder(c)'
  BY DEF Holder, Live
<1> QED
  BY <1>1, OneMoves

LEMMA SameHoldersOf ==
    ASSUME SameHolders
    PROVE  \A n \in Node : HoldersOf(n)' = HoldersOf(n) /\ HeldBy(n)' = HeldBy(n)
  BY DEF SameHolders, HoldersOf, HeldBy, asked

LEMMA EndingHoldersOf ==
    ASSUME TypeOK, NEW c \in Call, OneEnds(c), NEW n \in Node
    PROVE  /\ n = node[c] => /\ c \in HoldersOf(n)
                             /\ HoldersOf(n)' \subseteq HoldersOf(n) \ {c}
                             /\ HeldBy(n) \subseteq HeldBy(n)' \cup {intent[c]}
           /\ n # node[c] => HoldersOf(n)' = HoldersOf(n) /\ HeldBy(n)' = HeldBy(n)
<1>1. UNCHANGED <<node, intent>> /\ Holder(c) /\ ~Holder(c)'
      /\ \A d \in Call \ {c} : Holder(d)' <=> Holder(d)
  BY DEF OneEnds, asked
<1>2. ASSUME n = node[c]
      PROVE  /\ c \in HoldersOf(n)
             /\ HoldersOf(n)' \subseteq HoldersOf(n) \ {c}
             /\ HeldBy(n) \subseteq HeldBy(n)' \cup {intent[c]}
  BY <1>1, <1>2 DEF HoldersOf, HeldBy
<1>3. ASSUME n # node[c]
      PROVE  HoldersOf(n)' = HoldersOf(n) /\ HeldBy(n)' = HeldBy(n)
  BY <1>1, <1>3 DEF HoldersOf, HeldBy
<1> QED
  BY <1>2, <1>3

\* Calls move on, entries may be burnt, and nothing else changes.
LEMMA QuietKeeps ==
    ASSUME TypeOK, TypeOK', CapInv, SameHolders, UNCHANGED <<paid, loosed, spent>>,
           \A n \in Node : own'[n] \subseteq own[n],
           BurntHasNoEntry', PaidIsBurnt'
    PROVE  CapInv'
<1>1. \A n \in Node : Quiet(n)
  BY SameHoldersOf DEF Quiet, EntriesOf
<1>2. Budget'
  BY <1>1, BudgetStep DEF CapInv, SameHolders, Follows
<1> QED
  BY <1>2 DEF CapInv

\* Calls move on and no table changes.
LEMMA CallKeepsCaps ==
    ASSUME TypeOK, TypeOK', CapInv, SameHolders, UNCHANGED <<tables, paid, loosed>>
    PROVE  CapInv'
<1>1. BurntHasNoEntry' /\ PaidIsBurnt'
  BY DEF CapInv, BurntHasNoEntry, PaidIsBurnt, tables
<1> QED
  BY <1>1, QuietKeeps DEF tables

\* A call that holds an amount ends: it leaves its entry, if it still has one, or is
\* paid for an intent that is burnt.
LEMMA EndKeepsCaps ==
    ASSUME TypeOK, TypeOK', CapInv, NEW c \in Call, OneEnds(c),
           UNCHANGED <<consumed, own, spent, loosed>>, BurntHasNoEntry',
           \/ UNCHANGED paid
           \/ /\ paid' = [paid EXCEPT ![node[c]] = @ \cup {intent[c]}]
              /\ consumed[node[c]][intent[c]] # NoCall
    PROVE  CapInv'
<1>0. node[c] \in Node /\ intent[c] \in Intent
  BY DEF TypeOK
<1>1. \A n \in Node : paid'[n] \subseteq IF n = node[c] THEN paid[n] \cup {intent[c]} ELSE paid[n]
  BY DEF TypeOK
<1>3. PaidIsBurnt'
  <2>1. CASE UNCHANGED paid
    BY <2>1 DEF CapInv, PaidIsBurnt
  <2>2. CASE consumed[node[c]][intent[c]] # NoCall
    BY <1>1, <2>2 DEF CapInv, PaidIsBurnt
  <2> QED
    BY <2>1, <2>2
<1>4. ASSUME NEW n \in Node PROVE Follows(n)
  <2>0. own'[n] = own[n] /\ spent'[n] = spent[n] /\ loosed'[n] = loosed[n]
    OBVIOUS
  <2>1. CASE n = node[c]
    <3>1. EntriesOf(n)' \subseteq EntriesOf(n) \cup {intent[c]}
      BY <1>1, <2>0, <2>1, EndingHoldersOf DEF EntriesOf
    <3>2. LeftBehind(n)
      BY <2>0, <2>1, <3>1, EndingHoldersOf DEF LeftBehind
    <3> QED
      BY <3>2 DEF Follows
  <2>2. CASE n # node[c]
    <3>1. Quiet(n)
      BY <1>1, <2>0, <2>2, EndingHoldersOf DEF Quiet, EntriesOf
    <3> QED
      BY <3>1 DEF Follows
  <2> QED
    BY <2>1, <2>2
<1>5. Budget'
  BY <1>4, BudgetStep DEF CapInv, OneEnds
<1> QED
  BY <1>3, <1>5 DEF CapInv

\* What release_reservation does to the tables, node by node.
LEMMA ReleaseByNode ==
    ASSUME TypeOK, NEW p \in Node, NEW i \in Intent, Release(p, i)
    PROVE  /\ \A n \in Node : /\ own'[n] = IF n = p THEN own[n] \ {i} ELSE own[n]
                              /\ reserved'[n] = IF n = p THEN reserved[n] \ {i} ELSE reserved[n]
                              /\ spent'[n] = IF n = p THEN SatSub(spent[n], Taken(n, i)) ELSE spent[n]
           /\ UNCHANGED consumed
           /\ Taken(p, i) \in {0, Amount[i]}
<1>1. /\ own \in [Node -> SUBSET Intent] /\ reserved \in [Node -> SUBSET Intent]
      /\ spent \in [Node -> Nat]
  BY DEF TypeOK
<1>2. /\ own' = [own EXCEPT ![p] = @ \ {i}]
      /\ reserved' = [reserved EXCEPT ![p] = @ \ {i}]
      /\ spent' = [spent EXCEPT ![p] = SatSub(@, Taken(p, i))]
      /\ UNCHANGED consumed
  BY DEF Release
<1>3. Taken(p, i) \in {0, Amount[i]}
  BY DEF Taken, Held
<1> QED
  BY <1>1, <1>2, <1>3

\* A call that ends gives its amount back: that of its entry, that which was burnt
\* or swept under it, or that of a second call's entry.
LEMMA ReleaseKeepsCaps ==
    ASSUME TypeOK, TypeOK', CapInv, NEW c \in Call, OneEnds(c),
           Release(node[c], intent[c]), UNCHANGED <<paid, loosed>>
    PROVE  CapInv'
<1> DEFINE p == node[c]
           i == intent[c]
<1>0. p \in Node /\ i \in Intent
  BY DEF TypeOK
<1> HIDE DEF p, i
<1>1. /\ \A n \in Node : /\ own'[n] = IF n = p THEN own[n] \ {i} ELSE own[n]
                         /\ reserved'[n] = IF n = p THEN reserved[n] \ {i} ELSE reserved[n]
                         /\ spent'[n] = IF n = p THEN SatSub(spent[n], Taken(n, i)) ELSE spent[n]
      /\ UNCHANGED consumed
      /\ Taken(p, i) \in {0, Amount[i]}
  BY <1>0, ReleaseByNode DEF p, i
<1>2. BurntHasNoEntry' /\ PaidIsBurnt'
  BY <1>1 DEF CapInv, BurntHasNoEntry, PaidIsBurnt
<1>3. ASSUME NEW n \in Node PROVE Follows(n)
  <2>1. CASE n = p
    <3>1. EntriesOf(n)' \subseteq EntriesOf(n)
      <4>1. HeldBy(n) \subseteq HeldBy(n)' \cup {i}
        BY <2>1, EndingHoldersOf DEF p, i
      <4>2. own'[n] = own[n] \ {i} /\ paid'[n] = paid[n]
        BY <1>1, <2>1
      <4> QED
        BY <4>1, <4>2 DEF EntriesOf
    <3>2. spent'[n] \in {spent[n], SatSub(spent[n], Amount[i])}
      <4>1. spent[n] \in Nat
        BY DEF TypeOK
      <4>2. spent'[n] = SatSub(spent[n], 0) \/ spent'[n] = SatSub(spent[n], Amount[i])
        BY <1>1, <2>1
      <4>3. SatSub(spent[n], 0) = spent[n]
        BY <4>1 DEF SatSub
      <4> QED
        BY <4>2, <4>3
    <3>3. GivenBack(n)
      BY <2>1, <3>1, <3>2, EndingHoldersOf DEF GivenBack, p, i
    <3> QED
      BY <3>3 DEF Follows
  <2>2. CASE n # p
    <3>1. Quiet(n)
      BY <1>1, <2>2, EndingHoldersOf DEF Quiet, EntriesOf, p
    <3> QED
      BY <3>1 DEF Follows
  <2> QED
    BY <2>1, <2>2
<1>4. Budget'
  BY <1>3, BudgetStep DEF CapInv, OneEnds
<1> QED
  BY <1>2, <1>4 DEF CapInv

\* A burn takes the entry and leaves the spending it stood for.
LEMMA BurnKeepsCaps ==
    ASSUME TypeOK, TypeOK', CapInv, NEW p \in Node, NEW c \in Call, SameHolders,
           consumed[p][intent[c]] = NoCall, Burn(p, c), UNCHANGED <<paid, loosed>>
    PROVE  CapInv'
<1>0. intent[c] \in Intent /\ c # NoCall
  BY CallAssumption DEF TypeOK
<1>1. /\ \A n \in Node, i \in Intent :
             consumed'[n][i] = IF n = p /\ i = intent[c] THEN c ELSE consumed[n][i]
      /\ \A n \in Node : /\ reserved'[n] = IF n = p THEN reserved[n] \ {intent[c]} ELSE reserved[n]
                         /\ own'[n] = IF n = p THEN own[n] \ {intent[c]} ELSE own[n]
      /\ spent' = spent
  <2>1. /\ consumed \in [Node -> [Intent -> Call \cup {NoCall}]]
        /\ own \in [Node -> SUBSET Intent] /\ reserved \in [Node -> SUBSET Intent]
    BY DEF TypeOK
  <2>2. /\ consumed' = [consumed EXCEPT ![p][intent[c]] = c]
        /\ reserved' = [reserved EXCEPT ![p] = @ \ {intent[c]}]
        /\ own' = [own EXCEPT ![p] = @ \ {intent[c]}]
        /\ spent' = spent
    BY DEF Burn
  <2>3. \A n \in Node, i \in Intent :
             consumed'[n][i] = IF n = p /\ i = intent[c] THEN c ELSE consumed[n][i]
    BY <1>0, <2>1, <2>2
  <2> QED
    BY <2>1, <2>2, <2>3
<1>2. BurntHasNoEntry'
  <2> SUFFICES ASSUME NEW n \in Node, NEW i \in Intent, i \in reserved'[n]
               PROVE  consumed'[n][i] = NoCall
    BY DEF BurntHasNoEntry
  <2>1. i \in reserved[n] /\ ~ (n = p /\ i = intent[c])
    BY <1>1
  <2> QED
    BY <1>1, <2>1 DEF CapInv, BurntHasNoEntry
<1>3. PaidIsBurnt'
  <2>1. \A n \in Node, i \in Intent : consumed[n][i] # NoCall => consumed'[n][i] # NoCall
    BY <1>0, <1>1
  <2>2. \A n \in Node : paid'[n] = paid[n] /\ paid[n] \subseteq Intent
    BY DEF TypeOK
  <2> QED
    BY <2>1, <2>2 DEF CapInv, PaidIsBurnt
<1>4. \A n \in Node : own'[n] \subseteq own[n]
  BY <1>1
<1> QED
  BY <1>1, <1>2, <1>3, <1>4, QuietKeeps

\* The peer's handler: a soft entry holds no amount, a durable prepare burns.
LEMMA PrepareKeepsCaps ==
    ASSUME TypeOK, TypeOK', CapInv, NEW p \in Node, NEW c \in Call, NEW durable \in BOOLEAN,
           SameHolders, Prepare(p, c, durable), UNCHANGED <<paid, loosed>>
    PROVE  CapInv'
<1>1. CASE AlreadySeen(p, intent[c], durable)
  BY <1>1, CallKeepsCaps DEF Prepare
<1>2. CASE ~AlreadySeen(p, intent[c], durable) /\ durable
  BY <1>2, BurnKeepsCaps DEF Prepare, AlreadySeen
<1>3. CASE ~AlreadySeen(p, intent[c], durable) /\ ~durable
  <2>1. /\ reserved' = [reserved EXCEPT ![p] = @ \cup {intent[c]}]
        /\ UNCHANGED <<consumed, own, spent>>
        /\ consumed[p][intent[c]] = NoCall
    BY <1>3 DEF Prepare, AlreadySeen
  <2>2. BurntHasNoEntry' /\ PaidIsBurnt'
    BY <2>1 DEF CapInv, BurntHasNoEntry, PaidIsBurnt, TypeOK
  <2> QED
    BY <2>1, <2>2, QuietKeeps
<1> QED
  BY <1>1, <1>2, <1>3

\* reserve_spend holds an amount that evaluate_intent found within the cap.
LEMMA ReserveKeepsCaps ==
    ASSUME TypeOK, TypeOK', CapInv, NEW c \in Call, ReserveLocal(c), st' = [st EXCEPT ![c] = "reserving"]
    PROVE  CapInv'
<1> DEFINE p == node[c]
           i == intent[c]
<1>0. p \in Node /\ i \in Intent
  BY DEF TypeOK
<1>1. /\ consumed[p][i] = NoCall /\ spent[p] + Amount[i] <= MaxDay
      /\ st'[c] = "reserving" /\ \A d \in Call \ {c} : st'[d] = st[d]
      /\ reserved' = [reserved EXCEPT ![p] = @ \cup {i}]
      /\ own' = [own EXCEPT ![p] = @ \cup {i}]
      /\ spent' = [spent EXCEPT ![p] = @ + Amount[i]]
      /\ UNCHANGED <<consumed, asked, paid, loosed>>
  <2>1. st'[c] = "reserving" /\ \A d \in Call \ {c} : st'[d] = st[d]
    BY DEF TypeOK
  <2>2. ~ (consumed[p][i] # NoCall \/ i \in reserved[p] \/ ~EvaluateIntent(i, spent[p]))
    BY <2>1 DEF ReserveLocal, TypeOK
  <2> QED
    BY <2>1, <2>2 DEF ReserveLocal, EvaluateIntent
<1> HIDE DEF p, i
<1>2. \A n \in Node : /\ own'[n] = IF n = p THEN own[n] \cup {i} ELSE own[n]
                      /\ reserved'[n] = IF n = p THEN reserved[n] \cup {i} ELSE reserved[n]
                      /\ spent'[n] = IF n = p THEN spent[n] + Amount[i] ELSE spent[n]
  <2>1. /\ own \in [Node -> SUBSET Intent] /\ reserved \in [Node -> SUBSET Intent]
        /\ spent \in [Node -> Nat]
    BY DEF TypeOK
  <2> QED
    BY <1>0, <1>1, <2>1
<1>3. \A d \in Call : d # c => (Holder(d)' <=> Holder(d))
  BY <1>1 DEF Holder, asked
<1>4. Holder(c)' /\ ~Holder(c) /\ UNCHANGED <<node, intent>>
  BY <1>1 DEF Holder, asked, ReserveLocal
<1>5. ASSUME NEW n \in Node
      PROVE  /\ n = p => HoldersOf(n)' \subseteq HoldersOf(n) \cup {c} /\ HeldBy(n) \cup {i} \subseteq HeldBy(n)'
             /\ n # p => HoldersOf(n)' = HoldersOf(n) /\ HeldBy(n)' = HeldBy(n)
  <2>1. CASE n = p
    BY <1>0, <1>3, <1>4, <2>1 DEF HoldersOf, HeldBy, p, i
  <2>2. CASE n # p
    BY <1>3, <1>4, <2>2 DEF HoldersOf, HeldBy, p
  <2> QED
    BY <2>1, <2>2
<1>6. BurntHasNoEntry' /\ PaidIsBurnt'
  BY <1>1, <1>2 DEF CapInv, BurntHasNoEntry, PaidIsBurnt
<1>7. ASSUME NEW n \in Node PROVE Follows(n)
  <2>1. CASE n = p
    <3>1. EntriesOf(n)' \subseteq EntriesOf(n)
      <4>1. own'[n] = own[n] \cup {i} /\ paid'[n] = paid[n] /\ HeldBy(n) \cup {i} \subseteq HeldBy(n)'
        BY <1>1, <1>2, <1>5, <2>1
      <4> QED
        BY <4>1 DEF EntriesOf
    <3>2. spent'[n] = spent[n] + Amount[i] /\ spent[n] + Amount[i] <= MaxDay /\ loosed'[n] = loosed[n]
      BY <1>1, <1>2, <2>1
    <3>3. Promised(n)
      BY <1>5, <2>1, <3>1, <3>2 DEF Promised, i
    <3> QED
      BY <3>3 DEF Follows
  <2>2. CASE n # p
    <3>1. Quiet(n)
      BY <1>1, <1>2, <1>5, <2>2 DEF Quiet, EntriesOf
    <3> QED
      BY <3>1 DEF Follows
  <2> QED
    BY <2>1, <2>2
<1>8. Budget'
  BY <1>1, <1>7, BudgetStep DEF CapInv
<1> QED
  BY <1>6, <1>8 DEF CapInv

\* x is taken off p's spending for i, of which y is on record as loosed: all of it,
\* or none if it is the amount of an entry nobody holds any more.
TakenFrom(p, i, x, y) ==
    /\ UNCHANGED <<consumed, paid>>
    /\ \A n \in Node : /\ own'[n] = IF n = p THEN own[n] \ {i} ELSE own[n]
                       /\ reserved'[n] = IF n = p THEN reserved[n] \ {i} ELSE reserved[n]
                       /\ spent'[n] = IF n = p THEN SatSub(spent[n], x) ELSE spent[n]
                       /\ loosed'[n] = IF n = p THEN loosed[n] + y ELSE loosed[n]
    /\ y = x \/ (y = 0 /\ i \in own[p] /\ i \notin HeldBy(p) /\ x = Amount[i])

\* An amount goes from node p, by a sweep or a client's release: that of an entry
\* nobody holds any more, nothing, or an amount that is then on record as loosed.
LEMMA TakenKeepsCaps ==
    ASSUME TypeOK, TypeOK', CapInv, SameHolders, NEW p \in Node, NEW i \in Intent,
           NEW x \in Nat, NEW y, TakenFrom(p, i, x, y)
    PROVE  CapInv'
<1> USE DEF TakenFrom
<1>1. BurntHasNoEntry' /\ PaidIsBurnt'
  BY DEF CapInv, BurntHasNoEntry, PaidIsBurnt
<1>2. spent[p] \in Nat /\ loosed[p] \in Nat /\ loosed'[p] = loosed[p] + y
  BY DEF TypeOK
<1>3. ASSUME NEW n \in Node PROVE Follows(n)
  <2>0. HoldersOf(n)' = HoldersOf(n) /\ HeldBy(n)' = HeldBy(n) /\ EntriesOf(n)' \subseteq EntriesOf(n)
    BY SameHoldersOf DEF EntriesOf
  <2>1. CASE n # p
    BY <2>0, <2>1 DEF Follows, Quiet
  <2>2. CASE n = p /\ y = x
    <3>1. Loosened(n)
      BY <1>2, <2>0, <2>2 DEF Loosened
    <3> QED
      BY <3>1 DEF Follows
  <2>3. CASE n = p /\ y = 0 /\ i \in own[p] /\ i \notin HeldBy(p) /\ x = Amount[i]
    <3>1. i \notin paid[n]
      BY <2>3 DEF CapInv, PaidIsBurnt, BurntHasNoEntry, TypeOK
    <3>2. i \in EntriesOf(n) /\ EntriesOf(n)' \subseteq EntriesOf(n) \ {i}
      <4>1. own'[n] = own[n] \ {i} /\ paid'[n] = paid[n] /\ HeldBy(n)' = HeldBy(n)
        BY <2>0, <2>3
      <4>2. i \in own[n] /\ i \notin HeldBy(n)
        BY <2>3
      <4> QED
        BY <3>1, <4>1, <4>2 DEF EntriesOf
    <3>3. loosed'[n] = loosed[n]
      <4>1. loosed[p] + 0 = loosed[p]
        BY <1>2
      <4> QED
        BY <1>2, <2>3, <4>1
    <3>4. Dropped(n)
      BY <2>0, <2>3, <3>2, <3>3 DEF Dropped
    <3> QED
      BY <3>4 DEF Follows
  <2> QED
    BY <2>1, <2>2, <2>3
<1>4. Budget'
  BY <1>3, BudgetStep DEF CapInv, SameHolders
<1> QED
  BY <1>1, <1>4 DEF CapInv

LEMMA ExpireKeepsCaps ==
    ASSUME TypeOK, TypeOK', CapInv, NEW p \in Node, NEW i \in Intent, Expire(p, i)
    PROVE  CapInv'
<1>0. PICK x \in Nat : x = Held(p, i)
  BY AmountAssumption DEF Held
<1>y. PICK y \in Nat : y = IF i \in HeldBy(p) THEN Held(p, i) ELSE 0
  BY <1>0
<1>1. SameHolders /\ UNCHANGED <<consumed, paid>>
  BY DEF Expire, SameHolders, Holder, asked
<1>2. /\ own \in [Node -> SUBSET Intent] /\ reserved \in [Node -> SUBSET Intent]
      /\ spent \in [Node -> Nat] /\ loosed \in [Node -> Nat]
  BY DEF TypeOK
<1>3. /\ own' = [own EXCEPT ![p] = @ \ {i}]
      /\ reserved' = [reserved EXCEPT ![p] = @ \ {i}]
      /\ spent' = [spent EXCEPT ![p] = SatSub(@, x)]
      /\ loosed' = [loosed EXCEPT ![p] = @ + y]
  BY <1>0, <1>y DEF Expire, Loose
<1>4. y = x \/ (y = 0 /\ i \in own[p] /\ i \notin HeldBy(p) /\ x = Amount[i])
  BY <1>0, <1>y DEF Held
<1>5. \A n \in Node : /\ own'[n] = IF n = p THEN own[n] \ {i} ELSE own[n]
                      /\ reserved'[n] = IF n = p THEN reserved[n] \ {i} ELSE reserved[n]
                      /\ spent'[n] = IF n = p THEN SatSub(spent[n], x) ELSE spent[n]
                      /\ loosed'[n] = IF n = p THEN loosed[n] + y ELSE loosed[n]
  BY <1>2, <1>3
<1>6. TakenFrom(p, i, x, y)
  BY <1>1, <1>4, <1>5 DEF TakenFrom
<1> QED
  BY <1>1, <1>6, TakenKeepsCaps

LEMMA ClientReleaseKeepsCaps ==
    ASSUME TypeOK, TypeOK', CapInv, NEW c \in Call, ReleaseCall(c)
    PROVE  CapInv'
<1> DEFINE p == node[c]
           i == intent[c]
<1>0. p \in Node /\ i \in Intent
  BY DEF TypeOK
<1>1. /\ UNCHANGED <<asked, paid>> /\ st[c] = "idle" /\ st' = [st EXCEPT ![c] = "released"]
      /\ Release(p, i)
      /\ Loose(p, IF i \notin reserved[p] \/ i \in HeldBy(p) THEN Taken(p, i) ELSE 0)
  BY DEF ReleaseCall
<1>2. SameHolders
  <2>1. ~Holder(c)
    BY <1>1 DEF Holder
  <2>2. OthersWait(c) /\ st'[c] = "released"
    BY <1>1 DEF OthersWait, TypeOK
  <2> QED
    BY <2>1, <2>2, OneStops DEF Live
<1> HIDE DEF p, i
<1>x. PICK x \in Nat : x = Taken(p, i)
  BY <1>0, AmountAssumption DEF Taken, Held
<1>y. PICK y \in Nat : y = IF i \notin reserved[p] \/ i \in HeldBy(p) THEN Taken(p, i) ELSE 0
  BY <1>x
<1>3. /\ \A n \in Node : /\ own'[n] = IF n = p THEN own[n] \ {i} ELSE own[n]
                         /\ reserved'[n] = IF n = p THEN reserved[n] \ {i} ELSE reserved[n]
                         /\ spent'[n] = IF n = p THEN SatSub(spent[n], x) ELSE spent[n]
      /\ UNCHANGED consumed
  BY <1>0, <1>1, <1>x, ReleaseByNode
<1>4. y = x \/ (y = 0 /\ i \in own[p] /\ i \notin HeldBy(p) /\ x = Amount[i])
  BY <1>x, <1>y DEF Taken, Held
<1>5. \A n \in Node : loosed'[n] = IF n = p THEN loosed[n] + y ELSE loosed[n]
  <2>1. loosed \in [Node -> Nat] /\ loosed' = [loosed EXCEPT ![p] = @ + y]
    BY <1>1, <1>y DEF Loose, TypeOK
  <2> QED
    BY <2>1
<1>6. TakenFrom(p, i, x, y)
  BY <1>1, <1>3, <1>4, <1>5 DEF TakenFrom
<1> QED
  BY <1>0, <1>2, <1>6, TakenKeepsCaps

\* A restart forgets the entries together with the spending.
LEMMA RestartKeepsCaps ==
    ASSUME TypeOK, TypeOK', CapInv, NEW p \in Node, CrashRestart(p)
    PROVE  CapInv'
<1>1. /\ \A c \in Call : st'[c] = IF node[c] = p /\ st[c] \in Live THEN "crashed" ELSE st[c]
      /\ UNCHANGED <<consumed, asked, node, intent>>
  BY DEF CrashRestart, asked
<1>2. \A n \in Node : /\ own'[n] = IF n = p THEN {} ELSE own[n]
                      /\ reserved'[n] = IF n = p THEN {} ELSE reserved[n]
                      /\ spent'[n] = IF n = p THEN 0 ELSE spent[n]
                      /\ paid'[n] = IF n = p THEN {} ELSE paid[n]
                      /\ loosed'[n] = IF n = p THEN 0 ELSE loosed[n]
  BY DEF CrashRestart, TypeOK
<1>3. \A c \in Call : Holder(c)' <=> Holder(c) /\ node[c] # p
  BY <1>1 DEF Holder, asked, Live
<1>4. BurntHasNoEntry' /\ PaidIsBurnt'
  BY <1>1, <1>2 DEF CapInv, BurntHasNoEntry, PaidIsBurnt
<1>5. ASSUME NEW n \in Node PROVE Follows(n)
  <2>1. CASE n = p
    <3>1. HoldersOf(n)' = {} /\ HeldBy(n)' = {}
      BY <1>1, <1>3, <2>1 DEF HoldersOf, HeldBy
    <3>2. Forgotten(n)
      BY <1>2, <2>1, <3>1 DEF Forgotten, EntriesOf
    <3> QED
      BY <3>2 DEF Follows
  <2>2. CASE n # p
    <3>1. HoldersOf(n)' = HoldersOf(n) /\ HeldBy(n)' = HeldBy(n)
      BY <1>1, <1>3, <2>2 DEF HoldersOf, HeldBy
    <3>2. Quiet(n)
      BY <1>2, <2>2, <3>1 DEF Quiet, EntriesOf
    <3> QED
      BY <3>2 DEF Follows
  <2> QED
    BY <2>1, <2>2
<1>6. Budget'
  BY <1>1, <1>5, BudgetStep DEF CapInv
<1> QED
  BY <1>4, <1>6 DEF CapInv

\* Every step keeps the caps.
LEMMA CapStep ==
    ASSUME IInv, TypeOK', CapInv, [Next]_vars
    PROVE  CapInv'
<1>T. TypeOK
  BY DEF IInv
<1> USE <1>T
<1>1. ASSUME NEW c \in Call, ReserveLocal(c) PROVE CapInv'
  <2>1. CASE st' = [st EXCEPT ![c] = "reserving"]
    BY <1>1, <2>1, ReserveKeepsCaps
  <2>2. CASE st' = [st EXCEPT ![c] = "no_reserve"] /\ UNCHANGED <<tables, fanout>>
    <3>1. UNCHANGED <<asked, tables, paid, loosed>> /\ ~Holder(c)
      BY <1>1, <2>2 DEF ReserveLocal, Holder
    <3>2. OthersWait(c) /\ st'[c] = "no_reserve"
      BY <2>2, <3>1 DEF OthersWait, TypeOK
    <3>3. SameHolders
      BY <3>1, <3>2, OneStops DEF Live
    <3> QED
      BY <3>1, <3>3, CallKeepsCaps DEF tables
  <2> QED
    BY <1>1, <2>1, <2>2 DEF ReserveLocal
<1>2. ASSUME NEW c \in Call, ReserveEnds(c) PROVE CapInv'
  <2>0. Holder(c) /\ UNCHANGED <<asked, paid, loosed>>
    BY <1>2 DEF ReserveEnds, history, Holder
  <2>1. CASE Refused(c)
    <3>1. Release(node[c], intent[c]) /\ st' = [st EXCEPT ![c] = "no_reserve"]
      BY <1>2, <2>1 DEF ReserveEnds
    <3>2. OthersWait(c) /\ st'[c] = "no_reserve"
      BY <2>0, <3>1 DEF OthersWait, TypeOK
    <3>3. OneEnds(c)
      BY <2>0, <3>2, OneStops DEF Live
    <3> QED
      BY <2>0, <3>1, <3>3, ReleaseKeepsCaps
  <2>2. CASE ~Refused(c)
    <3>1. UNCHANGED tables /\ st' = [st EXCEPT ![c] = Phase(c)]
      BY <1>2, <2>2 DEF ReserveEnds
    <3>2. SameHolders \/ OneEnds(c)
      <4>1. OthersWait(c)
        BY <2>0, <3>1 DEF OthersWait, TypeOK
      <4> QED
        BY <2>0, <4>1, OneMoves
    <3>3. BurntHasNoEntry'
      BY <3>1 DEF CapInv, BurntHasNoEntry, tables
    <3> QED
      BY <2>0, <3>1, <3>2, <3>3, CallKeepsCaps, EndKeepsCaps DEF tables
  <2> QED
    BY <2>1, <2>2
<1>3. ASSUME NEW c \in Call, SignFails(c) PROVE CapInv'
  <2>1. /\ Holder(c) /\ UNCHANGED <<asked, paid, loosed>>
        /\ Release(node[c], intent[c]) /\ st' = [st EXCEPT ![c] = "no_sign"]
    BY <1>3 DEF SignFails, history, Holder
  <2>2. OthersWait(c) /\ st'[c] = "no_sign"
    BY <2>1 DEF OthersWait, TypeOK
  <2>3. OneEnds(c)
    BY <2>1, <2>2, OneStops DEF Live
  <2> QED
    BY <2>1, <2>3, ReleaseKeepsCaps
<1>4. ASSUME NEW c \in Call, SignSucceeds(c) PROVE CapInv'
  <2>1. /\ Holder(c) /\ UNCHANGED <<asked, tables, paid, loosed>>
        /\ st' = [st EXCEPT ![c] = "accepted"]
    BY <1>4 DEF SignSucceeds, history, Holder
  <2>2. OthersWait(c) /\ st'[c] = "accepted"
    BY <2>1 DEF OthersWait, TypeOK
  <2>3. SameHolders
    BY <2>1, <2>2, OneMoves DEF Holder
  <2> QED
    BY <2>1, <2>3, CallKeepsCaps DEF tables
<1>5. ASSUME NEW c \in Call, CommitLocal(c) PROVE CapInv'
  <2>0. /\ UNCHANGED <<asked, tables, loosed>> /\ BurntHasNoEntry'
        /\ Holder(c) <=> kind[c] # "commit" \/ st[c] = "accepted"
    BY <1>5 DEF CommitLocal, ReadyToCommit, Holder, CapInv, BurntHasNoEntry, tables
  <2>1. CASE consumed[node[c]][intent[c]] # NoCall
    <3>1. st' = [st EXCEPT ![c] = "again"] /\ Pay(c, TRUE)
      BY <1>5, <2>1 DEF CommitLocal
    <3>2. IF Holder(c) THEN OneEnds(c) ELSE SameHolders
      <4>1. OthersWait(c) /\ st'[c] \notin Live
        BY <2>0, <3>1 DEF OthersWait, TypeOK, Live
      <4> QED
        BY <4>1, OneStops
    <3>3. \/ UNCHANGED paid
          \/ Holder(c) /\ paid' = [paid EXCEPT ![node[c]] = @ \cup {intent[c]}]
      BY <2>0, <3>1 DEF Pay
    <3> QED
      BY <2>0, <2>1, <3>2, <3>3, EndKeepsCaps, CallKeepsCaps DEF tables
  <2>2. CASE consumed[node[c]][intent[c]] = NoCall
    <3>1. st' = [st EXCEPT ![c] = "claiming"] /\ UNCHANGED paid
      BY <1>5, <2>2 DEF CommitLocal, Pay
    <3>2. SameHolders \/ OneEnds(c)
      <4>1. OthersWait(c) /\ st'[c] = "claiming"
        BY <2>0, <3>1 DEF OthersWait, TypeOK
      <4>2. Holder(c)' => Holder(c)
        BY <2>0, <4>1 DEF OthersWait, Holder, asked
      <4> QED
        BY <4>1, <4>2, OneMoves
    <3> QED
      BY <2>0, <3>1, <3>2, EndKeepsCaps, CallKeepsCaps DEF tables
  <2> QED
    BY <2>1, <2>2
<1>6. ASSUME NEW c \in Call, ClaimLocal(c) PROVE CapInv'
  <2>1. /\ st[c] = "claiming" /\ st' = [st EXCEPT ![c] = "committing"]
        /\ consumed[node[c]][intent[c]] = NoCall /\ Burn(node[c], c)
        /\ UNCHANGED <<asked, paid, loosed>> /\ node[c] \in Node
    BY <1>6 DEF ClaimLocal, history, TypeOK
  <2>2. SameHolders
    <3>1. OthersWait(c) /\ st'[c] = "committing"
      BY <2>1 DEF OthersWait, TypeOK
    <3>2. Holder(c)' <=> Holder(c)
      BY <2>1, <3>1 DEF OthersWait, Holder, asked
    <3> QED
      BY <3>1, <3>2, OneMoves
  <2> QED
    BY <2>1, <2>2, BurnKeepsCaps
\* A commit that fails gives its amount back, or leaves it.
<1>r. ASSUME NEW c \in Call, st[c] \in {"claiming", "committing"}, RollBack(c),
             st' = [st EXCEPT ![c] = "no_commit"], UNCHANGED <<asked, paid, loosed>>
      PROVE  CapInv'
  <2>0. IF Holder(c) THEN OneEnds(c) ELSE SameHolders
    <3>1. OthersWait(c) /\ st'[c] \notin Live
      BY <1>r DEF OthersWait, TypeOK, Live
    <3> QED
      BY <3>1, OneStops
  <2>1. CASE kind[c] = "execute"
    <3>1. Release(node[c], intent[c]) /\ Holder(c)
      BY <1>r, <2>1 DEF RollBack, Holder
    <3>2. OneEnds(c)
      BY <2>0, <3>1
    <3> QED
      BY <1>r, <3>1, <3>2, ReleaseKeepsCaps
  <2>2. CASE kind[c] # "execute"
    <3>1. UNCHANGED tables /\ BurntHasNoEntry'
      BY <1>r, <2>2 DEF RollBack, CapInv, BurntHasNoEntry, tables
    <3> QED
      BY <1>r, <2>0, <3>1, EndKeepsCaps, CallKeepsCaps DEF tables
  <2> QED
    BY <2>1, <2>2
<1>7. ASSUME NEW c \in Call, ClaimFails(c) PROVE CapInv'
  BY <1>7, <1>r DEF ClaimFails, history
<1>8. ASSUME NEW c \in Call, CommitEnds(c) PROVE CapInv'
  <2>0. /\ st[c] = "committing" /\ UNCHANGED <<asked, loosed>>
        /\ consumed[node[c]][intent[c]] # NoCall
    BY <1>8, CallAssumption DEF CommitEnds, IInv, OwnsLocal, Owning
  <2>1. CASE Refused(c)
    <3>1. RollBack(c) /\ st' = [st EXCEPT ![c] = "no_commit"] /\ UNCHANGED paid
      BY <1>8, <2>1 DEF CommitEnds, Pay
    <3> QED
      BY <2>0, <3>1, <1>r
  <2>2. CASE ~Refused(c)
    <3>1. /\ UNCHANGED tables /\ st' = [st EXCEPT ![c] = "fresh"] /\ Pay(c, TRUE)
          /\ BurntHasNoEntry'
      BY <1>8, <2>2 DEF CommitEnds, CapInv, BurntHasNoEntry, tables
    <3>2. IF Holder(c) THEN OneEnds(c) ELSE SameHolders
      <4>1. OthersWait(c) /\ st'[c] \notin Live
        BY <2>0, <3>1 DEF OthersWait, TypeOK, Live
      <4> QED
        BY <4>1, OneStops
    <3>3. \/ UNCHANGED paid
          \/ Holder(c) /\ paid' = [paid EXCEPT ![node[c]] = @ \cup {intent[c]}]
      BY <2>0, <3>1 DEF Pay, Holder
    <3> QED
      BY <2>0, <3>1, <3>2, <3>3, EndKeepsCaps, CallKeepsCaps DEF tables
  <2> QED
    BY <2>1, <2>2
<1>9. ASSUME NEW c \in Call, ReleaseCall(c) PROVE CapInv'
  BY <1>9, ClientReleaseKeepsCaps
<1>10. ASSUME NEW c \in Call, NEW p \in Node, PeerAnswers(c, p) PROVE CapInv'
  <2>1. /\ SameHolders /\ UNCHANGED <<paid, loosed>>
        /\ Prepare(p, c, Durable(c)) /\ Durable(c) \in BOOLEAN
    BY <1>10 DEF PeerAnswers, SameHolders, Holder, asked, history, Durable
  <2> QED
    BY <2>1, PrepareKeepsCaps
<1>11. ASSUME NEW c \in Call, NEW p \in Node, PeerSilent(c, p) PROVE CapInv'
  <2>1. SameHolders /\ UNCHANGED <<tables, paid, loosed>>
    BY <1>11 DEF PeerSilent, SameHolders, Holder, asked, history
  <2> QED
    BY <2>1, CallKeepsCaps
<1>12. ASSUME NEW c \in Call, NEW p \in Node, PeerGarbles(c, p) PROVE CapInv'
  <2>1. UNCHANGED <<asked, paid, loosed>> /\ Prepare(p, c, Durable(c)) /\ Durable(c) \in BOOLEAN
    BY <1>12 DEF PeerGarbles, history, Durable
  <2>2. CASE Durable(c)
    <3>1. st' = st
      BY <1>12, <2>2 DEF PeerGarbles, TypeOK
    <3>2. SameHolders
      BY <2>1, <3>1 DEF SameHolders, Holder, asked
    <3> QED
      BY <2>1, <3>2, PrepareKeepsCaps
  <2>3. CASE ~Durable(c)
    <3>1. Holder(c) /\ st' = [st EXCEPT ![c] = "cut_reserve"]
      BY <1>12, <2>3 DEF PeerGarbles, Durable, Holder
    <3>2. OneEnds(c)
      <4>1. OthersWait(c) /\ st'[c] = "cut_reserve"
        BY <2>1, <3>1 DEF OthersWait, TypeOK
      <4> QED
        BY <3>1, <4>1, OneStops DEF Live
    <3>3. UNCHANGED <<consumed, own, spent>> /\ BurntHasNoEntry'
      <4>1. CASE AlreadySeen(p, intent[c], FALSE)
        BY <2>1, <2>3, <4>1 DEF Prepare, CapInv, BurntHasNoEntry, tables
      <4>2. CASE ~AlreadySeen(p, intent[c], FALSE)
        <5>1. /\ reserved' = [reserved EXCEPT ![p] = @ \cup {intent[c]}]
              /\ UNCHANGED <<consumed, own, spent>> /\ consumed[p][intent[c]] = NoCall
          BY <2>1, <2>3, <4>2 DEF Prepare, AlreadySeen
        <5> QED
          BY <5>1 DEF CapInv, BurntHasNoEntry, TypeOK
      <4> QED
        BY <4>1, <4>2
    <3> QED
      BY <2>1, <3>2, <3>3, EndKeepsCaps
  <2> QED
    BY <2>2, <2>3
<1>13. ASSUME NEW c \in Call, ClientError(c) PROVE CapInv'
  <2>1. UNCHANGED <<asked, tables, paid, loosed>> /\ BurntHasNoEntry'
    BY <1>13 DEF ClientError, history, CapInv, BurntHasNoEntry, tables
  <2>2. CASE Durable(c)
    <3>1. st' = st
      BY <1>13, <2>2 DEF ClientError, TypeOK
    <3>2. SameHolders
      BY <2>1, <3>1 DEF SameHolders, Holder, asked
    <3> QED
      BY <2>1, <3>2, CallKeepsCaps
  <2>3. CASE ~Durable(c)
    <3>1. Holder(c) /\ st' = [st EXCEPT ![c] = "cut_reserve"]
      BY <1>13, <2>3 DEF ClientError, Durable, Holder
    <3>2. OneEnds(c)
      <4>1. OthersWait(c) /\ st'[c] = "cut_reserve"
        BY <2>1, <3>1 DEF OthersWait, TypeOK
      <4> QED
        BY <3>1, <4>1, OneStops DEF Live
    <3> QED
      BY <2>1, <3>2, EndKeepsCaps DEF tables
  <2> QED
    BY <2>2, <2>3
<1>14. ASSUME NEW m \in strays, StrayArrives(m) PROVE CapInv'
  <2>1. m.to \in Node /\ m.call \in Call /\ m.durable \in BOOLEAN
    BY DEF TypeOK, Stray
  <2>2. SameHolders /\ UNCHANGED <<paid, loosed>> /\ Prepare(m.to, m.call, m.durable)
    BY <1>14 DEF StrayArrives, SameHolders, Holder, asked, history
  <2> QED
    BY <2>1, <2>2, PrepareKeepsCaps
<1>15. ASSUME NEW n \in Node, NEW i \in Intent, Expire(n, i) PROVE CapInv'
  BY <1>15, ExpireKeepsCaps
<1>16. ASSUME NEW n \in Node, CrashRestart(n) PROVE CapInv'
  BY <1>16, RestartKeepsCaps
<1>17. CASE UNCHANGED vars
  <2>1. SameHolders /\ UNCHANGED <<tables, paid, loosed>>
    BY <1>17 DEF vars, SameHolders, Holder, asked, history
  <2> QED
    BY <2>1, CallKeepsCaps
<1> QED
  BY <1>1, <1>2, <1>3, <1>4, <1>5, <1>6, <1>7, <1>8, <1>9, <1>10, <1>11, <1>12, <1>13, <1>14,
     <1>15, <1>16, <1>17 DEF Next

\* Nothing stands at the start.
LEMMA CapInit == Init => CapInv
<1> SUFFICES ASSUME Init PROVE CapInv
  OBVIOUS
<1>1. BurntHasNoEntry /\ PaidIsBurnt
  BY DEF Init, BurntHasNoEntry, PaidIsBurnt
<1>2. ASSUME NEW n \in Node
      PROVE  HoldersOf(n) = {} /\ EntriesOf(n) = {} /\ spent[n] = 0 /\ loosed[n] = 0
  BY DEF Init, HoldersOf, EntriesOf, Holder
<1>3. /\ IsFiniteSet({}) /\ Sum(Worth, {}) = 0 /\ Sum(Amount, {}) = 0 /\ MaxDay \in Nat
  BY FS_EmptySet, SumUnfolds, AmountAssumption
<1>4. ASSUME NEW n \in Node
      PROVE  /\ IsFiniteSet(HoldersOf(n)) /\ IsFiniteSet(EntriesOf(n))
             /\ Standing(n) <= spent[n] + loosed[n] /\ spent[n] <= MaxDay
  <2>1. Standing(n) = 0
    BY <1>2, <1>3 DEF Standing
  <2> QED
    BY <1>2, <1>3, <2>1
<1> QED
  BY <1>1, <1>4 DEF Budget, CapInv

\* The intents some of these calls are about, together with a set of others, add up
\* to no more than the calls and the others.
LEMMA IntentsOfCalls ==
    ASSUME TypeOK, NEW H \in SUBSET Call, IsFiniteSet(H), NEW E \in SUBSET Intent, IsFiniteSet(E)
    PROVE  LET X == E \cup {intent[c] : c \in H} IN
           IsFiniteSet(X) /\ Sum(Amount, X) <= Sum(Worth, H) + Sum(Amount, E)
<1> DEFINE W == Worth
           X(s) == E \cup {intent[c] : c \in s}
           Good(s) == IsFiniteSet(X(s)) /\ Sum(Amount, X(s)) <= Sum(W, s) + Sum(Amount, E)
           Bad == {s \in SUBSET H : ~Good(s)}
<1>0. /\ W \in [Call -> Nat] /\ \A c \in Call : W[c] = Amount[intent[c]]
      /\ Amount \in [Intent -> Nat] /\ \A c \in Call : intent[c] \in Intent
  BY AmountAssumption DEF Worth, TypeOK
<1> HIDE DEF W
<1>1. SUFFICES ASSUME Bad # {} PROVE FALSE
  BY DEF W
<1>2. Bad \subseteq FiniteSubsetsOf(H)
  BY FS_Subset DEF FiniteSubsetsOf
<1>3. PICK s \in Bad : \A y \in Bad : y \subseteq s => y = s
  <2> HIDE DEF Bad
  <2> QED BY <1>1, <1>2, MinimalSet
<1>4. s \in SUBSET H /\ s \in SUBSET Call /\ IsFiniteSet(s) /\ ~Good(s)
  BY FS_Subset
<1>5. s # {}
  <2>1. SUFFICES ASSUME s = {} PROVE FALSE
    OBVIOUS
  <2>2. X(s) = E
    BY <2>1
  <2>3. Sum(W, s) = 0 /\ Sum(Amount, E) \in Nat
    BY <1>0, <2>1, SumUnfolds, SumType
  <2>4. Good(s)
    <3> HIDE DEF X
    <3> QED BY <2>2, <2>3
  <2> QED
    BY <1>4, <2>4
<1>6. PICK c \in s : TRUE
  BY <1>5
<1> DEFINE r == s \ {c}
<1>7. r \in SUBSET H /\ r # s /\ r \subseteq s
  BY <1>4, <1>6
<1>8. r \notin Bad
  BY <1>3, <1>7
<1>9. Good(r)
  BY <1>7, <1>8
<1>10. X(s) = X(r) \cup {intent[c]} /\ X(r) \in SUBSET Intent /\ intent[c] \in Intent
  BY <1>0, <1>4, <1>6
<1>11. IsFiniteSet(X(s)) /\ Sum(Amount, X(s)) <= Sum(Amount, X(r)) + Amount[intent[c]]
  <2>1. IsFiniteSet(X(r))
    BY <1>9
  <2> HIDE DEF X, r
  <2> QED BY <1>0, <1>10, <2>1, SumAdds
<1>12. Sum(W, s) = W[c] + Sum(W, r) /\ W[c] = Amount[intent[c]] /\ W[c] \in Nat
  BY <1>0, <1>4, <1>6, SumSplits
<1>13. /\ Sum(W, r) \in Nat /\ Sum(Amount, E) \in Nat
       /\ Sum(Amount, X(s)) \in Nat /\ Sum(Amount, X(r)) \in Nat
  <2>1. IsFiniteSet(r) /\ r \in SUBSET Call /\ X(s) \in SUBSET Intent
    BY <1>4, <1>10, FS_Subset
  <2>2. IsFiniteSet(X(r)) /\ X(r) \in SUBSET Intent
    BY <1>9, <1>10
  <2> HIDE DEF X, r
  <2> QED
    BY <1>0, <1>11, <2>1, <2>2, SumType
<1>14. Sum(Amount, X(r)) <= Sum(W, r) + Sum(Amount, E)
  BY <1>9
<1>15. Good(s)
  <2> HIDE DEF X, r
  <2> QED BY <1>11, <1>12, <1>13, <1>14
<1> QED
  BY <1>4, <1>15

\* What stands on a node is within what it counts and has loosed.
LEMMA CapsFollow == IInv /\ CapInv => CapsHold
<1> SUFFICES ASSUME IInv, CapInv, NEW n \in Node
             PROVE  Total(Charged(n)) <= spent[n] + loosed[n] /\ Total(Charged(n)) <= MaxDay + loosed[n]
  BY DEF CapsHold, AllIsCounted, DayCapHolds
<1> DEFINE H == HoldersOf(n)
           E == EntriesOf(n)
           X == E \cup {intent[c] : c \in H}
<1>1. /\ IsFiniteSet(H) /\ IsFiniteSet(E) /\ H \in SUBSET Call /\ E \in SUBSET Intent
      /\ Sum(Worth, H) + Sum(Amount, E) <= spent[n] + loosed[n]
      /\ spent[n] <= MaxDay /\ spent[n] \in Nat /\ loosed[n] \in Nat /\ MaxDay \in Nat /\ TypeOK
  BY AmountAssumption DEF CapInv, Budget, Standing, HoldersOf, EntriesOf, IInv, TypeOK
<1>2. Charged(n) = X
  BY DEF Charged, HoldersOf, EntriesOf, HeldBy, IInv, TypeOK
<1>3. IsFiniteSet(X) /\ Sum(Amount, X) <= Sum(Worth, H) + Sum(Amount, E)
  <2> HIDE DEF H, E
  <2> QED BY <1>1, IntentsOfCalls
<1>4. Sum(Worth, H) \in Nat /\ Sum(Amount, E) \in Nat /\ Sum(Amount, X) \in Nat
  <2>1. Worth \in [Call -> Nat] /\ Amount \in [Intent -> Nat] /\ X \in SUBSET Intent
    BY <1>1, AmountAssumption DEF Worth, TypeOK
  <2> HIDE DEF H, E, X
  <2> QED
    BY <1>1, <1>3, <2>1, SumType
<1>5. Total(Charged(n)) = Sum(Amount, X)
  BY <1>2 DEF Total, Sum
<1> HIDE DEF H, E, X
<1> QED
  BY <1>1, <1>3, <1>4, <1>5

\* Through every refusal, rollback, sweep, burn under a held reservation, lost
\* answer and restart, whatever calls outlive their reservation and whatever clients
\* release, a node counts all it promised and paid and stays under its day cap, but for
\* the amounts that a sweep under a running call, or a client's release of what it does
\* not hold, took off: for every mesh, policy, set of calls and set of amounts.
THEOREM CapsAreKept == Spec => []CapsHold
<1>1. Init => IInv /\ CapInv
  BY InitInv, CapInit
<1>2. (IInv /\ CapInv) /\ [Next]_vars => (IInv /\ CapInv)'
  <2>1. SUFFICES ASSUME IInv, CapInv, [Next]_vars PROVE IInv' /\ CapInv'
    OBVIOUS
  <2>2. IInv'
    BY <2>1, InvStep
  <2>3. TypeOK'
    BY <2>2 DEF IInv
  <2> QED
    BY <2>1, <2>2, <2>3, CapStep
<1>3. IInv /\ CapInv => CapsHold
  BY CapsFollow
<1> QED
  BY <1>1, <1>2, <1>3, PTL DEF Spec
====
