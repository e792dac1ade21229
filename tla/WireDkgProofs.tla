---------------------------- MODULE WireDkgProofs ----------------------------
(***************************************************************************)
(* Key generation over the wire, for every number of vaults, every set of  *)
(* constitutions operators may disagree on, and every number of calls,     *)
(* lost posts, late messages, failed writes and restarts.                  *)
(*                                                                         *)
(* That no session is wedged is not inductive: whether part2 accepts       *)
(* depends on packages that are still on their way.  The invariant follows *)
(* each package from the part1 run that made it, through the call or the   *)
(* message that carries it, to the session that keeps it: at every place   *)
(* the constitution it is labelled with has the threshold of the run it    *)
(* came from (Agrees).  A session keeps only packages with its own         *)
(* threshold, so part2 accepts once the roster is full, and a roster is    *)
(* full only if it has no one but seated vaults.                           *)
(***************************************************************************)
EXTENDS WireDkg, FiniteSetTheorems, NaturalsInduction, TLAPS

SessionSet == [con : Constitutions, phase : {"round1", "round2", "complete"}, secret1 : BOOLEAN,
               own : Versions, r1 : Keys, r2 : Keys, out : SUBSET Ids]
CallSet == [op : {"idle", "insert", "fan1", "fan2"}, ver : Versions,
            con : Constitutions \cup {NoKey}, todo : SUBSET Node]
MsgSet == [round : {1, 2}, from : Node, to : Node, ver : Versions, con : Constitutions]

\* Run v of vault n was made with the threshold of constitution k.
Agrees(n, v, k) == v \in DOMAIN made[n] /\ made[n][v].min = k.min

\* A call in progress carries the package of a run of its vault; only a fan-out has
\* peers to go to.
SoundCall(c) ==
    /\ call[c].op # "idle" => call[c].con \in Constitutions /\ Agrees(Owner[c], call[c].ver, call[c].con)
    /\ call[c].op \in {"idle", "insert"} => call[c].todo = {}

SoundMsg(m) == Agrees(m.from, m.ver, m.con)

\* A session holds its own package and those of vaults with its threshold, it has
\* packages for seated vaults only, and it is in round 1 with its secret.
SoundSession(n, s) ==
    /\ Agrees(n, s.own, s.con)
    /\ \A p \in Ids : s.r1[p] # 0 => p \in Node /\ Agrees(p, s.r1[p], s.con)
    /\ s.out \subseteq Node
    /\ s.phase = "round1" => s.secret1

Sound ==
    /\ \A c \in Call : SoundCall(c)
    /\ \A m \in stray : SoundMsg(m)
    /\ \A n \in Node : sess[n] # NoSession => SoundSession(n, sess[n])

\* The inductive invariant.
IInv == TypeOK /\ Sound /\ CompleteIsSealed

----
(***************************************************************************)
(* Types.                                                                  *)
(***************************************************************************)

\* The assumptions, and the numbers vaults have.
LEMMA Bounds ==
    /\ N \in Nat /\ N >= 2 /\ MaxParts \in Nat
    /\ Node \subseteq Nat /\ 0 \notin Node
    /\ \A k \in Constitutions : k.max \in Nat /\ k.min \in Nat /\ Node \subseteq 1 .. k.max /\ 1 .. k.max \subseteq Ids
    /\ Owner \in [Call -> Node]
<1>1. \A k \in Constitutions : k.max \in Nat /\ k.min \in Nat /\ N <= k.max
  BY WireDkgAssumption
<1>2. \A k \in Constitutions : 1 .. k.max \subseteq Ids
  BY DEF Ids
<1>3. N \in Nat /\ N >= 2 /\ MaxParts \in Nat /\ Owner \in [Call -> Node]
  BY WireDkgAssumption
<1>4. Node \subseteq Nat /\ 0 \notin Node
  BY <1>3 DEF Node
<1>5. \A k \in Constitutions : Node \subseteq 1 .. k.max
  BY <1>1, <1>3 DEF Node
<1> QED
  BY <1>1, <1>2, <1>3, <1>4, <1>5

\* The type invariant, by parts.
LEMMA Typing ==
    TypeOK <=>
    /\ hub \in Hubs
    /\ sess \in [Node -> SessionSet \cup {NoSession}]
    /\ made \in [Node -> UNION {[1 .. k -> Constitutions] : k \in Versions}]
    /\ call \in [Call -> CallSet]
    /\ stray \subseteq MsgSet
    /\ store \in [Node -> [share : Keys \cup {NoKey}, pub : Keys \cup {NoKey}, tail : Constitutions \cup {NoKey}]]
    /\ slot \in [Node -> [share : Keys, pub : Keys, tail : Constitutions] \cup {Empty}]
    /\ faults \in 0 .. MaxFaults
  BY DEF TypeOK, SessionSet, CallSet, MsgSet

\* A set of numbers has a least one.
LEMMA LeastOf ==
    ASSUME NEW S \in SUBSET Nat, S # {}
    PROVE  \E i \in S : \A j \in S : i <= j
<1>1. PICK i \in S : \A j \in S : ~ (<<j, i>> \in OpToRel(<, Nat))
  BY WFMin, NatLessThanWellFounded, Zenon
<1>2. \A j \in S : ~ (j < i)
  BY <1>1 DEF OpToRel
<1> QED
  BY <1>2

\* The part1 runs of a vault are numbered from 1.
LEMMA Runs ==
    ASSUME TypeOK, NEW n \in Node
    PROVE  \E k \in Versions : /\ made[n] \in [1 .. k -> Constitutions]
                               /\ DOMAIN made[n] = 1 .. k /\ Cardinality(DOMAIN made[n]) = k /\ k \in Nat
<1>1. PICK k \in Versions : made[n] \in [1 .. k -> Constitutions]
  BY Typing
<1>2. k \in Nat
  BY Bounds DEF Versions
<1>3. DOMAIN made[n] = 1 .. k
  BY <1>1
<1>4. Cardinality(1 .. k) = k
  BY <1>2, FS_Interval
<1> QED
  BY <1>1, <1>2, <1>3, <1>4

\* Equal transcripts have equal thresholds.
LEMMA BoundMin == ASSUME NEW k, NEW l, hub \in {"plain", "tr", "reshare"}, Bound(k) = Bound(l) PROVE k.min = l.min
  BY DEF Bound, Transcript, TranscriptTr, TranscriptReshare

\* The next post goes to a peer, with the package of the call.
LEMMA PostFacts ==
    ASSUME TypeOK, Sound, NEW c \in Call, call[c].todo # {}
    PROVE  /\ NextPost(c) \in MsgSet /\ SoundMsg(NextPost(c))
           /\ NextPost(c).to \in call[c].todo /\ NextPost(c).from = Owner[c]
<1>1. PICK p : p = CHOOSE i \in call[c].todo : \A j \in call[c].todo : i <= j
  OBVIOUS
<1>2. call[c] \in CallSet
  BY Typing
<1>3. call[c].todo \in SUBSET Nat /\ call[c].todo \subseteq Node
  BY <1>2, Bounds DEF CallSet
<1>4. p \in call[c].todo
  <2>1. \E i \in call[c].todo : \A j \in call[c].todo : i <= j
    BY <1>3, LeastOf
  <2> QED
    BY <1>1, <2>1
<1>5. call[c].op # "idle" /\ call[c].con \in Constitutions /\ Agrees(Owner[c], call[c].ver, call[c].con)
  BY DEF Sound, SoundCall
<1>6. PICK r : r = (IF call[c].op = "fan1" THEN 1 ELSE 2) /\ r \in {1, 2}
  OBVIOUS
<1>7. PICK m : m = [round |-> r, from |-> Owner[c], to |-> p, ver |-> call[c].ver, con |-> call[c].con]
  OBVIOUS
<1>8. NextPost(c) = m
  BY <1>1, <1>6, <1>7 DEF NextPost, Msg
<1>9. Owner[c] \in Node /\ p \in Node /\ call[c].ver \in Versions
  BY <1>2, <1>3, <1>4, Bounds DEF CallSet
<1>10. m \in MsgSet
  BY <1>5, <1>6, <1>7, <1>9 DEF MsgSet
<1>11. SoundMsg(m) /\ m.to = p /\ m.from = Owner[c]
  BY <1>5, <1>7 DEF SoundMsg
<1> QED
  BY <1>4, <1>8, <1>10, <1>11

----
(***************************************************************************)
(* What a message does to a session.                                       *)
(***************************************************************************)

\* A full round 1 goes to round 2: part2 cannot fail.
LEMMA AdvanceFacts ==
    ASSUME TypeOK, NEW n \in Node, NEW s \in SessionSet, SoundSession(n, s), s.phase # "complete"
    PROVE  /\ AdvanceIfFull(n, s) \in SessionSet /\ SoundSession(n, AdvanceIfFull(n, s))
           /\ AdvanceIfFull(n, s).phase # "complete" /\ AdvanceIfFull(n, s).con = s.con
           /\ s.secret1 => AdvanceIfFull(n, s).secret1 \/ AdvanceIfFull(n, s).phase = "round2"
<1>1. hub \in {"plain", "tr", "reshare"}
  BY WireDkgAssumption DEF TypeOK
<1>2. ASSUME ~ (Full(s) /\ s.secret1 /\ s.phase = "round1") PROVE AdvanceIfFull(n, s) = s
  BY <1>2 DEF AdvanceIfFull
<1>3. ASSUME Full(s), s.secret1, s.phase = "round1"
      PROVE  /\ AdvanceIfFull(n, s) \in SessionSet /\ SoundSession(n, AdvanceIfFull(n, s))
             /\ AdvanceIfFull(n, s).phase = "round2" /\ AdvanceIfFull(n, s).con = s.con
  <2>1. Roster(s) \subseteq Ids
    BY Bounds DEF SessionSet, Roster
  <2>2. \A q \in Roster(s) : q \in Node /\ Agrees(q, s.r1[q], s.con)
    BY <1>3, <2>1 DEF Full, SoundSession
  <2>3. Part2Accepts(s)
    BY <2>2 DEF Part2Accepts, Agrees
  <2>4. PICK t : t = [s EXCEPT !.secret1 = FALSE, !.phase = "round2", !.out = Roster(s) \ {n}]
    OBVIOUS
  <2>5. AdvanceIfFull(n, s) = t
    BY <1>1, <1>3, <2>3, <2>4 DEF AdvanceIfFull, AdvanceToRound2, AdvanceToRound2Tr, AdvanceToRound2Reshare
  <2>6. PICK o : o = Roster(s) \ {n} /\ o \in SUBSET Ids /\ o \subseteq Node
    BY <2>1, <2>2
  <2>7. t \in SessionSet
    BY <2>4, <2>6 DEF SessionSet
  <2>8. t.phase = "round2" /\ t.con = s.con /\ t.own = s.own /\ t.r1 = s.r1 /\ t.out = o
    BY <2>4, <2>6 DEF SessionSet
  <2>9. SoundSession(n, t)
    BY <2>6, <2>8 DEF SoundSession
  <2> QED
    BY <2>5, <2>7, <2>8, <2>9
<1> QED
  BY <1>2, <1>3

\* An accepted message leaves a sound session of the same constitution, and no
\* message completes one or changes a complete one.
LEMMA IngestFacts ==
    ASSUME TypeOK, Sound, NEW m \in MsgSet, SoundMsg(m), Accepts(m)
    PROVE  /\ Ingested(m) \in SessionSet /\ SoundSession(m.to, Ingested(m))
           /\ sess[m.to].phase = "complete" => Ingested(m) = sess[m.to]
           /\ Ingested(m).phase = "complete" => sess[m.to].phase = "complete"
           /\ sess[m.to].secret1 => Ingested(m).secret1 \/ Ingested(m).phase = "round2"
<1>1. PICK n, s : n = m.to /\ s = sess[n]
  OBVIOUS
<1>2. n \in Node /\ s \in SessionSet /\ s # NoSession /\ SoundSession(n, s)
  BY <1>1, Typing DEF MsgSet, Accepts, Sound
<1>3. hub \in {"plain", "tr", "reshare"}
  BY WireDkgAssumption DEF TypeOK
<1>4. s.con \in Constitutions /\ s.r1 \in Keys /\ s.r2 \in Keys /\ m.ver \in Versions /\ m.from \in Node /\ m.round \in {1, 2}
  BY <1>2 DEF SessionSet, MsgSet
<1>5. CASE Ingested(m) = s
  BY <1>1, <1>2, <1>5
<1>6. CASE m.round = 1 /\ Ingested(m) # s
  <2>1. s.phase # "complete" /\ Ingested(m) = AdvanceIfFull(n, [s EXCEPT !.r1[m.from] = m.ver])
    BY <1>1, <1>3, <1>6 DEF Ingested, IngestRound1, IngestRound1Tr, IngestRound1Reshare
  <2>2. Bound(m.con) = Bound(s.con)
    BY <1>1, <1>6, <2>1 DEF Accepts, Admits1
  <2>3. m.con.min = s.con.min
    BY <1>3, <2>2, BoundMin
  <2>4. Agrees(m.from, m.ver, s.con)
    BY <2>3 DEF SoundMsg, Agrees
  <2>5. PICK f : f = [s.r1 EXCEPT ![m.from] = m.ver]
    OBVIOUS
  <2>6. f \in Keys /\ \A q \in Ids : f[q] = IF q = m.from THEN m.ver ELSE s.r1[q]
    BY <1>4, <2>5 DEF Keys
  <2>7. PICK t : t = [s EXCEPT !.r1 = f]
    OBVIOUS
  <2>8. Ingested(m) = AdvanceIfFull(n, t)
    BY <2>1, <2>5, <2>7
  <2>9. t \in SessionSet /\ t.r1 = f /\ t.con = s.con /\ t.own = s.own /\ t.out = s.out /\ t.phase = s.phase
        /\ t.secret1 = s.secret1
    BY <1>2, <2>6, <2>7 DEF SessionSet
  <2>10. \A q \in Ids : f[q] # 0 => q \in Node /\ Agrees(q, f[q], s.con)
    BY <1>2, <1>4, <2>4, <2>6 DEF SoundSession
  <2>11. SoundSession(n, t)
    BY <1>2, <2>9, <2>10 DEF SoundSession
  <2>12. /\ AdvanceIfFull(n, t) \in SessionSet /\ SoundSession(n, AdvanceIfFull(n, t))
         /\ AdvanceIfFull(n, t).phase # "complete"
         /\ t.secret1 => AdvanceIfFull(n, t).secret1 \/ AdvanceIfFull(n, t).phase = "round2"
    BY <1>2, <2>1, <2>9, <2>11, AdvanceFacts
  <2> QED
    BY <1>1, <2>1, <2>8, <2>9, <2>12
<1>7. CASE m.round = 2 /\ Ingested(m) # s
  <2>1. s.phase # "complete" /\ Ingested(m) = [s EXCEPT !.r2[m.from] = m.ver]
    BY <1>1, <1>3, <1>7 DEF Ingested, IngestRound2, IngestRound2Tr, IngestRound2Reshare
  <2>2. PICK f : f = [s.r2 EXCEPT ![m.from] = m.ver]
    OBVIOUS
  <2>3. f \in Keys
    BY <1>4, <2>2 DEF Keys
  <2>4. Ingested(m) = [s EXCEPT !.r2 = f]
    BY <2>1, <2>2
  <2>5. PICK t : t = Ingested(m)
    OBVIOUS
  <2>6. t \in SessionSet /\ t.r1 = s.r1 /\ t.con = s.con /\ t.own = s.own /\ t.out = s.out /\ t.phase = s.phase
        /\ t.secret1 = s.secret1
    BY <1>2, <2>3, <2>4, <2>5 DEF SessionSet
  <2>7. SoundSession(n, t)
    BY <1>2, <2>6 DEF SoundSession
  <2> QED
    BY <1>1, <2>1, <2>5, <2>6, <2>7
<1> QED
  BY <1>4, <1>5, <1>6, <1>7

----
(***************************************************************************)
(* The steps.                                                              *)
(***************************************************************************)

\* New runs leave the old ones as they were.
Extends ==
    \A n \in Node : \A v \in DOMAIN made[n] : v \in DOMAIN made'[n] /\ made'[n][v] = made[n][v]

\* So what was sound before a new run of part1 is sound after it.
LEMMA StillSound ==
    ASSUME Extends
    PROVE  /\ \A n \in Node : \A v, k : Agrees(n, v, k) => Agrees(n, v, k)'
           /\ \A m \in MsgSet : SoundMsg(m) => SoundMsg(m)'
           /\ \A n \in Node : \A s : SoundSession(n, s) => SoundSession(n, s)'
<1>1. ASSUME NEW n \in Node, NEW v, NEW k, Agrees(n, v, k) PROVE Agrees(n, v, k)'
  BY <1>1 DEF Agrees, Extends
<1>2. ASSUME NEW m \in MsgSet, SoundMsg(m) PROVE SoundMsg(m)'
  BY <1>1, <1>2 DEF SoundMsg, MsgSet
<1>3. ASSUME NEW n \in Node, NEW s, SoundSession(n, s) PROVE SoundSession(n, s)'
  BY <1>1, <1>3 DEF SoundSession
<1> QED
  BY <1>1, <1>2, <1>3

\* A step that changes nothing but one session, the calls and the messages.
LEMMA StepSession ==
    ASSUME IInv, UNCHANGED <<hub, made, store, slot>>, faults' \in 0 .. MaxFaults,
           NEW n \in Node, NEW t,
           sess' = [sess EXCEPT ![n] = t],
           t # NoSession => /\ t \in SessionSet /\ SoundSession(n, t)
                            /\ t.phase = "complete" => t.r1 = store[n].share /\ t.r1 = store[n].pub,
           call' \in [Call -> CallSet], \A c \in Call : SoundCall(c)',
           stray' \subseteq MsgSet, \A m \in stray' : SoundMsg(m)
    PROVE  IInv'
<1>1. /\ sess \in [Node -> SessionSet \cup {NoSession}]
      /\ hub' = hub /\ made' = made /\ store' = store /\ slot' = slot
  BY Typing DEF IInv
<1>2. sess' \in [Node -> SessionSet \cup {NoSession}] /\ sess'[n] = t /\ \A q \in Node \ {n} : sess'[q] = sess[q]
  BY <1>1
<1>3. TypeOK'
  BY <1>1, <1>2, Typing DEF IInv, TypeOK, SessionSet, CallSet, MsgSet
<1>4. Extends
  BY <1>1 DEF Extends
<1>5. \A m \in stray' : SoundMsg(m)'
  BY <1>4, StillSound
<1>6. \A q \in Node : sess'[q] # NoSession => SoundSession(q, sess'[q])
  BY <1>2 DEF IInv, Sound
<1>8. \A q \in Node : (sess[q] # NoSession => SoundSession(q, sess[q]))'
  <2>1. ASSUME NEW q \in Node, (sess[q] # NoSession)' PROVE SoundSession(q, sess[q])'
    <3>1. PICK s : s = sess'[q] /\ SoundSession(q, s)
      BY <1>6, <2>1
    <3> QED
      BY <1>1, <3>1 DEF SoundSession, Agrees
  <2> QED
    BY <2>1
<1>9. Sound'
  BY <1>5, <1>8 DEF Sound
<1>10. CompleteIsSealed'
  BY <1>1, <1>2 DEF IInv, CompleteIsSealed
<1> QED
  BY <1>3, <1>9, <1>10 DEF IInv

\* One call moves, with the package of a run of its vault.
LEMMA CallStep ==
    ASSUME IInv, made' = made, NEW c \in Call, NEW r \in CallSet, call' = [call EXCEPT ![c] = r],
           r.op # "idle" => r.con \in Constitutions /\ Agrees(Owner[c], r.ver, r.con),
           r.op \in {"idle", "insert"} => r.todo = {}
    PROVE  call' \in [Call -> CallSet] /\ \A d \in Call : SoundCall(d)'
<1>1. call \in [Call -> CallSet]
  BY Typing DEF IInv
<1>2. call' \in [Call -> CallSet] /\ call'[c] = r /\ \A d \in Call \ {c} : call'[d] = call[d]
  BY <1>1
<1>3. ASSUME NEW d \in Call PROVE SoundCall(d)'
  <2>1. CASE d = c
    BY <1>2, <2>1 DEF SoundCall, Agrees
  <2>2. CASE d # c
    BY <1>2, <2>2 DEF IInv, Sound, SoundCall, Agrees
  <2> QED
    BY <2>1, <2>2
<1> QED
  BY <1>2, <1>3

\* A call that is over.
LEMMA IdleCall == Idle \in CallSet /\ Idle.op = "idle" /\ Idle.todo = {}
  BY Bounds DEF Idle, CallSet, Versions

\* Round 1 leaves the vault with the package of one of its runs.
LEMMA SendFacts ==
    ASSUME IInv, made' = made, NEW c \in Call, NEW v \in Versions, NEW k \in Constitutions, NEW f \in BOOLEAN,
           Agrees(Owner[c], v, k), SendRound1(c, Owner[c], v, k, f)
    PROVE  /\ call' \in [Call -> CallSet] /\ \A d \in Call : SoundCall(d)'
           /\ stray' \subseteq MsgSet /\ \A m \in stray' : SoundMsg(m)
<1>1. PICK n \in Node : n = Owner[c]
  BY Bounds
<1>2. stray \subseteq MsgSet /\ \A m \in stray : SoundMsg(m)
  BY Typing DEF IInv, Sound
<1>3. CASE f
  <2>1. PICK r : r = [op |-> "fan1", ver |-> v, con |-> k, todo |-> Node \ {n}]
    OBVIOUS
  <2>2. call' = [call EXCEPT ![c] = r] /\ stray' = stray
    BY <1>1, <1>3, <2>1 DEF SendRound1
  <2>3. r \in CallSet /\ r.op = "fan1" /\ r.con = k /\ r.ver = v
    BY <2>1 DEF CallSet
  <2> QED
    BY <1>2, <2>2, <2>3, CallStep
<1>4. CASE ~f
  <2>1. call' = [call EXCEPT ![c] = Idle] /\ stray' = stray \cup {Msg(1, n, q, v, k) : q \in Node \ {n}}
    BY <1>1, <1>4 DEF SendRound1
  <2>2. call' \in [Call -> CallSet] /\ \A d \in Call : SoundCall(d)'
    BY <2>1, IdleCall, CallStep
  <2>3. ASSUME NEW q \in Node PROVE Msg(1, n, q, v, k) \in MsgSet /\ SoundMsg(Msg(1, n, q, v, k))
    BY <1>1 DEF Msg, MsgSet, SoundMsg
  <2> QED
    BY <1>2, <2>1, <2>2, <2>3
<1> QED
  BY <1>3, <1>4

\* A part1 run adds to the runs of its vault.
LEMMA StepStart == ASSUME IInv, NEW c \in Call, NEW k \in Constitutions, Start(c, k) PROVE IInv'
<1>1. PICK n \in Node : n = Owner[c]
  BY Bounds
<1>2. PICK w \in Versions : made[n] \in [1 .. w -> Constitutions] /\ DOMAIN made[n] = 1 .. w
                            /\ Cardinality(DOMAIN made[n]) = w /\ w \in Nat
  BY Runs DEF IInv
<1>3. PICK v : v = w + 1 /\ v \in Nat /\ v \in 1 .. v
  BY <1>2
<1>4. PICK g : g = [i \in 1 .. v |-> IF i = v THEN k ELSE made[n][i]]
  OBVIOUS
<1>5. /\ v <= MaxParts /\ made' = [made EXCEPT ![n] = g]
      /\ UNCHANGED <<hub, sess, stray, store, slot, faults>>
      /\ call' = [call EXCEPT ![c] = [op |-> "insert", ver |-> v, con |-> k, todo |-> {}]]
  BY <1>1, <1>2, <1>3, <1>4 DEF Start
<1>6. v \in Versions
  BY <1>3, <1>5, Bounds DEF Versions
<1>7. g \in [1 .. v -> Constitutions] /\ g[v] = k /\ \A i \in 1 .. w : i \in DOMAIN g /\ g[i] = made[n][i]
  BY <1>2, <1>3, <1>4
<1>8. made \in [Node -> UNION {[1 .. l -> Constitutions] : l \in Versions}]
  BY Typing DEF IInv
<1>9. g \in UNION {[1 .. l -> Constitutions] : l \in Versions}
  BY <1>6, <1>7
<1>10. made' \in [Node -> UNION {[1 .. l -> Constitutions] : l \in Versions}]
       /\ made'[n] = g /\ \A q \in Node \ {n} : made'[q] = made[q]
  BY <1>5, <1>8, <1>9
<1>11. Extends
  BY <1>2, <1>7, <1>10 DEF Extends
<1>12. PICK r : r = [op |-> "insert", ver |-> v, con |-> k, todo |-> {}]
  OBVIOUS
<1>13. r \in CallSet /\ r.op = "insert" /\ r.ver = v /\ r.con = k /\ r.todo = {}
  BY <1>6, <1>12 DEF CallSet
<1>14. call \in [Call -> CallSet]
  BY Typing DEF IInv
<1>15. call' \in [Call -> CallSet] /\ call'[c] = r /\ \A d \in Call \ {c} : call'[d] = call[d]
  BY <1>5, <1>12, <1>13, <1>14
<1>16. TypeOK'
  BY <1>5, <1>10, <1>15 DEF IInv, TypeOK, CallSet
<1>17. ASSUME NEW d \in Call PROVE SoundCall(d)'
  <2>1. CASE d = c
    <3>1. Agrees(n, v, k)'
      BY <1>3, <1>7, <1>10 DEF Agrees
    <3> QED
      BY <1>1, <1>13, <1>15, <2>1, <3>1 DEF SoundCall
  <2>2. CASE d # c
    <3>1. Owner[d] \in Node
      BY Bounds
    <3>2. call'[d] = call[d] /\ SoundCall(d)
      BY <1>15, <2>2 DEF IInv, Sound
    <3> QED
      BY <1>11, <3>1, <3>2, StillSound DEF SoundCall
  <2> QED
    BY <2>1, <2>2
<1>18. \A m \in stray' : SoundMsg(m)'
  <2>1. stray' = stray /\ stray \subseteq MsgSet
    BY <1>5, Typing DEF IInv
  <2> QED
    BY <1>11, <2>1, StillSound DEF IInv, Sound
<1>19. \A q \in Node : (sess[q] # NoSession => SoundSession(q, sess[q]))'
  <2>1. ASSUME NEW q \in Node, sess[q] # NoSession PROVE SoundSession(q, sess[q])'
    <3>1. PICK s : s = sess[q] /\ s = sess'[q] /\ SoundSession(q, s)
      BY <1>5, <2>1 DEF IInv, Sound
    <3>2. SoundSession(q, s)'
      BY <1>11, <3>1, StillSound
    <3> QED
      BY <3>1, <3>2
  <2> QED
    BY <1>5, <2>1
<1>20. Sound'
  BY <1>17, <1>18, <1>19 DEF Sound
<1>21. CompleteIsSealed'
  BY <1>5 DEF IInv, CompleteIsSealed
<1> QED
  BY <1>16, <1>20, <1>21 DEF IInv

\* What is known of the session of a vault.
LEMMA SessionFacts ==
    ASSUME IInv, NEW n \in Node, sess[n] # NoSession
    PROVE  /\ sess[n] \in SessionSet /\ SoundSession(n, sess[n])
           /\ sess[n].phase = "complete" => sess[n].r1 = store[n].share /\ sess[n].r1 = store[n].pub
<1>1. sess[n] \in SessionSet
  BY Typing DEF IInv
<1> QED
  BY <1>1 DEF IInv, Sound, CompleteIsSealed

\* A step that leaves the sessions alone.
LEMMA StepCalls ==
    ASSUME IInv, UNCHANGED <<hub, sess, made, store, slot>>, faults' \in 0 .. MaxFaults,
           call' \in [Call -> CallSet], \A c \in Call : SoundCall(c)',
           stray' \subseteq MsgSet, \A m \in stray' : SoundMsg(m)
    PROVE  IInv'
<1>1. PICK n \in Node : TRUE
  BY Bounds DEF Node
<1>2. sess \in [Node -> SessionSet \cup {NoSession}] /\ sess' = sess
  BY Typing DEF IInv
<1>3. PICK t : t = sess[n]
  OBVIOUS
<1>4. sess' = [sess EXCEPT ![n] = t]
  BY <1>2, <1>3
<1>5. t # NoSession => /\ t \in SessionSet /\ SoundSession(n, t)
                       /\ t.phase = "complete" => t.r1 = store[n].share /\ t.r1 = store[n].pub
  BY <1>3, SessionFacts
<1> QED
  BY <1>4, <1>5, StepSession

\* The posts already on their way.
LEMMA Underway ==
    ASSUME IInv
    PROVE  /\ call \in [Call -> CallSet] /\ \A c \in Call : SoundCall(c)
           /\ stray \subseteq MsgSet /\ \A m \in stray : SoundMsg(m)
           /\ faults \in 0 .. MaxFaults /\ hub \in {"plain", "tr", "reshare"}
  BY Typing, WireDkgAssumption DEF IInv, Sound

\* The calls stay as they are.
LEMMA CallsStay ==
    ASSUME IInv, made' = made, call' = call
    PROVE  call' \in [Call -> CallSet] /\ \A c \in Call : SoundCall(c)'
  BY Underway DEF SoundCall, Agrees

\* A known session returns its package again.
LEMMA StepRestate ==
    ASSUME IInv, NEW c \in Call, NEW k \in Constitutions, NEW f \in BOOLEAN, Restate(c, k, f)
    PROVE  IInv'
<1>1. PICK n \in Node : n = Owner[c]
  BY Bounds
<1>2. PICK v : v = sess[n].own
  OBVIOUS
<1>3. /\ sess[n] # NoSession /\ Bound(k) = Bound(sess[n].con) /\ SendRound1(c, Owner[c], v, k, f)
      /\ hub' = hub /\ sess' = sess /\ made' = made /\ store' = store /\ slot' = slot /\ faults' = faults
  BY <1>1, <1>2 DEF Restate
<1>4. sess[n] \in SessionSet /\ SoundSession(n, sess[n])
  BY <1>3, SessionFacts
<1>5. k.min = sess[n].con.min
  BY <1>3, Underway, BoundMin
<1>6. v \in Versions /\ Agrees(Owner[c], v, k)
  BY <1>1, <1>2, <1>4, <1>5 DEF SessionSet, SoundSession, Agrees
<1>7. /\ call' \in [Call -> CallSet] /\ \A d \in Call : SoundCall(d)'
      /\ stray' \subseteq MsgSet /\ \A m \in stray' : SoundMsg(m)
  BY <1>3, <1>6, SendFacts
<1>8. faults' \in 0 .. MaxFaults
  BY <1>3, Underway
<1> QED
  BY <1>3, <1>7, <1>8, StepCalls

\* A new session holds its own package only.
LEMMA StepInsert == ASSUME IInv, NEW c \in Call, NEW f \in BOOLEAN, Insert(c, f) PROVE IInv'
<1>1. PICK n \in Node : n = Owner[c]
  BY Bounds
<1>2. PICK v, k : v = call[c].ver /\ k = call[c].con
  OBVIOUS
<1>3. /\ call[c].op = "insert" /\ sess' = [sess EXCEPT ![n] = NewSession(n, v, k)]
      /\ SendRound1(c, Owner[c], v, k, f)
      /\ hub' = hub /\ made' = made /\ store' = store /\ slot' = slot /\ faults' = faults
  BY <1>1, <1>2 DEF Insert
<1>4. k \in Constitutions /\ Agrees(Owner[c], v, k) /\ v \in Versions
  BY <1>2, <1>3, Underway DEF SoundCall, CallSet
<1>5. /\ call' \in [Call -> CallSet] /\ \A d \in Call : SoundCall(d)'
      /\ stray' \subseteq MsgSet /\ \A m \in stray' : SoundMsg(m)
  BY <1>3, <1>4, SendFacts
<1>6. PICK a, z : a = [p \in Ids |-> IF p = n THEN v ELSE 0] /\ z = [p \in Ids |-> 0]
  OBVIOUS
<1>7. a \in Keys /\ z \in Keys
  BY <1>4, <1>6, Bounds DEF Keys, Versions
<1>8. PICK t : t = [con |-> k, phase |-> "round1", secret1 |-> TRUE, own |-> v, r1 |-> a, r2 |-> z, out |-> {}]
  OBVIOUS
<1>9. NewSession(n, v, k) = t
  BY <1>6, <1>8 DEF NewSession
<1>10. t \in SessionSet /\ t.con = k /\ t.own = v /\ t.r1 = a /\ t.phase = "round1" /\ t.secret1 /\ t.out = {}
  BY <1>4, <1>7, <1>8 DEF SessionSet
<1>11. SoundSession(n, t)
  BY <1>1, <1>4, <1>6, <1>10 DEF SoundSession
<1>12. faults' \in 0 .. MaxFaults
  BY <1>3, Underway
<1> QED
  BY <1>3, <1>5, <1>9, <1>10, <1>11, <1>12, StepSession

\* Round 2 leaves with the package of the session.
LEMMA StepRound2 == ASSUME IInv, NEW c \in Call, NEW f \in BOOLEAN, DkgRound2Impl(c, f) PROVE IInv'
<1>1. PICK n \in Node : n = Owner[c]
  BY Bounds
<1>2. PICK s : s = sess[n]
  OBVIOUS
<1>3. s # NoSession /\ hub' = hub /\ made' = made /\ store' = store /\ slot' = slot /\ faults' = faults
  BY <1>1, <1>2 DEF DkgRound2Impl
<1>4. /\ s \in SessionSet /\ SoundSession(n, s)
      /\ s.phase = "complete" => s.r1 = store[n].share /\ s.r1 = store[n].pub
  BY <1>2, <1>3, SessionFacts
<1>5. PICK t : t = [s EXCEPT !.out = {}]
  OBVIOUS
<1>6. sess' = [sess EXCEPT ![n] = t]
  BY <1>1, <1>2, <1>5, Underway
     DEF DkgRound2Impl, TakeRound2Outbound, TakeRound2OutboundTr, TakeRound2OutboundReshare
<1>7. t \in SessionSet /\ t.con = s.con /\ t.own = s.own /\ t.r1 = s.r1 /\ t.phase = s.phase
      /\ t.secret1 = s.secret1 /\ t.out = {}
  BY <1>4, <1>5 DEF SessionSet
<1>8. SoundSession(n, t)
  BY <1>4, <1>7 DEF SoundSession
<1>9. s.own \in Versions /\ s.con \in Constitutions /\ s.out \subseteq Node /\ Agrees(n, s.own, s.con)
  BY <1>4 DEF SessionSet, SoundSession
<1>10. /\ call' \in [Call -> CallSet] /\ \A d \in Call : SoundCall(d)'
       /\ stray' \subseteq MsgSet /\ \A m \in stray' : SoundMsg(m)
  <2>1. CASE f
    <3>1. PICK r : r = [op |-> "fan2", ver |-> s.own, con |-> s.con, todo |-> s.out]
      OBVIOUS
    <3>2. call' = [call EXCEPT ![c] = r] /\ stray' = stray
      BY <1>1, <1>2, <2>1, <3>1 DEF DkgRound2Impl
    <3>3. r \in CallSet /\ r.op = "fan2" /\ r.ver = s.own /\ r.con = s.con
      BY <1>9, <3>1 DEF CallSet
    <3> QED
      BY <1>1, <1>3, <1>9, <3>2, <3>3, CallStep, Underway
  <2>2. CASE ~f
    <3>1. call' = call /\ stray' = stray \cup {Msg(2, n, q, s.own, s.con) : q \in s.out}
      BY <1>1, <1>2, <2>2 DEF DkgRound2Impl
    <3>2. ASSUME NEW q \in s.out PROVE Msg(2, n, q, s.own, s.con) \in MsgSet /\ SoundMsg(Msg(2, n, q, s.own, s.con))
      <4>1. q \in Node /\ n \in Node /\ 2 \in {1, 2}
        BY <1>9, <3>2
      <4>2. PICK e : e = [round |-> 2, from |-> n, to |-> q, ver |-> s.own, con |-> s.con]
        OBVIOUS
      <4>3. e \in MsgSet /\ SoundMsg(e)
        BY <1>9, <4>1, <4>2 DEF MsgSet, SoundMsg
      <4> QED
        BY <4>2, <4>3 DEF Msg
    <3>3. stray' \subseteq MsgSet /\ \A m \in stray' : SoundMsg(m)
      BY <3>1, <3>2, Underway
    <3> QED
      BY <1>3, <3>1, <3>3, CallsStay
  <2> QED
    BY <2>1, <2>2
<1>11. faults' \in 0 .. MaxFaults
  BY <1>3, Underway
<1> QED
  BY <1>3, <1>4, <1>6, <1>7, <1>8, <1>10, <1>11, StepSession

\* A message is handled.
LEMMA StepHandle ==
    ASSUME IInv, NEW m \in MsgSet, SoundMsg(m), Handle(m),
           UNCHANGED <<hub, made, store, slot, faults>>,
           call' \in [Call -> CallSet], \A c \in Call : SoundCall(c)',
           stray' \subseteq MsgSet, \A e \in stray' : SoundMsg(e)
    PROVE  IInv'
<1>0. faults' \in 0 .. MaxFaults
  BY Underway
<1>1. CASE ~Accepts(m)
  <2>1. sess' = sess
    BY <1>1 DEF Handle
  <2> QED
    BY <1>0, <2>1, StepCalls
<1>2. CASE Accepts(m)
  <2>1. PICK n, t : n = m.to /\ t = Ingested(m)
    OBVIOUS
  <2>2. sess' = [sess EXCEPT ![n] = t]
    BY <1>2, <2>1 DEF Handle
  <2>3. n \in Node /\ sess[n] # NoSession
    BY <1>2, <2>1 DEF MsgSet, Accepts
  <2>4. /\ t \in SessionSet /\ SoundSession(n, t)
        /\ sess[n].phase = "complete" => t = sess[n]
        /\ t.phase = "complete" => sess[n].phase = "complete"
    BY <1>2, <2>1, IngestFacts DEF IInv
  <2>5. t.phase = "complete" => t.r1 = store[n].share /\ t.r1 = store[n].pub
    BY <2>3, <2>4, SessionFacts
  <2> QED
    BY <1>0, <2>2, <2>3, <2>4, <2>5, StepSession
<1> QED
  BY <1>1, <1>2

\* The next post of a fan-out is delivered, and its answer ends or continues the call.
LEMMA StepFanOut == ASSUME IInv, NEW c \in Call, FanOut(c) PROVE IInv'
<1>1. PICK m : m = NextPost(c)
  OBVIOUS
<1>2. call[c].todo # {} /\ call[c].op \in {"fan1", "fan2"}
  BY DEF FanOut
<1>3. m \in MsgSet /\ SoundMsg(m)
  BY <1>1, <1>2, PostFacts DEF IInv
<1>4. Handle(m) /\ hub' = hub /\ made' = made /\ stray' = stray /\ store' = store /\ slot' = slot /\ faults' = faults
  BY <1>1 DEF FanOut
<1>5. PICK r : r = [call[c] EXCEPT !.todo = @ \ {m.to}]
  OBVIOUS
<1>6. call' = [call EXCEPT ![c] = r] \/ call' = [call EXCEPT ![c] = Idle]
  <2>1. PICK e : e = IF Succeeds(m) /\ call[c].todo # {m.to} THEN r ELSE Idle
    OBVIOUS
  <2>2. call' = [call EXCEPT ![c] = e]
    BY <1>1, <1>5, <2>1 DEF FanOut
  <2>3. CASE e = r
    BY <2>2, <2>3
  <2>4. CASE e = Idle
    BY <2>2, <2>4
  <2> QED
    BY <2>1, <2>3, <2>4
<1>7. call[c] \in CallSet /\ SoundCall(c)
  BY Underway
<1>8. r \in CallSet /\ r.op = call[c].op /\ r.ver = call[c].ver /\ r.con = call[c].con
  BY <1>5, <1>7 DEF CallSet
<1>9. call' \in [Call -> CallSet] /\ \A d \in Call : SoundCall(d)'
  <2>1. CASE call' = [call EXCEPT ![c] = r]
    BY <1>2, <1>4, <1>7, <1>8, <2>1, CallStep DEF SoundCall
  <2>2. CASE call' = [call EXCEPT ![c] = Idle]
    BY <1>4, <2>2, IdleCall, CallStep
  <2> QED
    BY <1>6, <2>1, <2>2
<1> QED
  BY <1>3, <1>4, <1>9, Underway, StepHandle

\* A post whose answer is lost ends the call; the message may still arrive.
LEMMA StepLosePost == ASSUME IInv, NEW c \in Call, LosePost(c) PROVE IInv'
<1>1. PICK m : m = NextPost(c)
  OBVIOUS
<1>2. call[c].todo # {} /\ faults < MaxFaults /\ faults' = faults + 1
  BY DEF LosePost
<1>3. m \in MsgSet /\ SoundMsg(m)
  BY <1>1, <1>2, PostFacts DEF IInv
<1>4. /\ hub' = hub /\ sess' = sess /\ made' = made /\ store' = store /\ slot' = slot
      /\ stray' = stray \cup {m} /\ call' = [call EXCEPT ![c] = Idle]
  BY <1>1 DEF LosePost
<1>5. faults' \in 0 .. MaxFaults
  BY <1>2, Underway, WireDkgAssumption
<1>6. call' \in [Call -> CallSet] /\ \A d \in Call : SoundCall(d)'
  BY <1>4, IdleCall, CallStep
<1> QED
  BY <1>3, <1>4, <1>5, <1>6, Underway, StepCalls

\* A late message arrives after the call that sent it has given up.
LEMMA StepArrive == ASSUME IInv, NEW m \in stray, Arrive(m) PROVE IInv'
<1>1. /\ Handle(m) /\ stray' = stray \ {m}
      /\ hub' = hub /\ made' = made /\ call' = call /\ store' = store /\ slot' = slot /\ faults' = faults
  BY DEF Arrive
<1>2. m \in MsgSet /\ SoundMsg(m)
  BY Underway
<1>3. call' \in [Call -> CallSet] /\ \A d \in Call : SoundCall(d)'
  BY <1>1, CallsStay
<1> QED
  BY <1>1, <1>2, <1>3, Underway, StepHandle

\* The pieces finalize writes are those of the session.
LEMMA SealedFacts ==
    ASSUME IInv, NEW n \in Node, sess[n] # NoSession, NEW cut \in 0 .. 3
    PROVE  /\ Sealed(n, sess[n], cut)
                \in [share : Keys \cup {NoKey}, pub : Keys \cup {NoKey}, tail : Constitutions \cup {NoKey}]
           /\ cut = 3 => Sealed(n, sess[n], cut).share = sess[n].r1 /\ Sealed(n, sess[n], cut).pub = sess[n].r1
<1>1. sess[n] \in SessionSet
  BY SessionFacts
<1>2. sess[n].r1 \in Keys /\ sess[n].con \in Constitutions
  BY <1>1 DEF SessionSet
<1>3. store[n] \in [share : Keys \cup {NoKey}, pub : Keys \cup {NoKey}, tail : Constitutions \cup {NoKey}]
  BY Typing DEF IInv
<1> QED
  BY <1>2, <1>3 DEF Sealed

\* Finalize, whole or cut: a session is complete only after its last write.
LEMMA StepFinalize ==
    ASSUME IInv, NEW n \in Node, FinalizeRound3(n) \/ \E cut \in 0 .. 2 : FinalizeFails(n, cut)
    PROVE  IInv'
<1>1. PICK s : s = sess[n]
  OBVIOUS
<1>2. s # NoSession /\ s.phase = "round2"
      /\ hub' = hub /\ made' = made /\ call' = call /\ stray' = stray /\ slot' = slot
  BY <1>1 DEF FinalizeRound3, FinalizeFails
<1>3. s \in SessionSet /\ SoundSession(n, s)
  BY <1>1, <1>2, SessionFacts
<1>4. PICK cut \in 0 .. 3 :
          /\ store' = [store EXCEPT ![n] = Sealed(n, s, cut)]
          /\ \/ cut = 3 /\ sess' = [sess EXCEPT ![n].phase = "complete"] /\ faults' = faults
             \/ sess' = sess /\ faults < MaxFaults /\ faults' = faults + 1
  <2>1. CASE FinalizeRound3(n)
    <3>1. 3 \in 0 .. 3
      OBVIOUS
    <3> QED
      BY <1>1, <2>1, <3>1 DEF FinalizeRound3
  <2>2. CASE \E cut \in 0 .. 2 : FinalizeFails(n, cut)
    <3>1. PICK cut \in 0 .. 2 : FinalizeFails(n, cut)
      BY <2>2
    <3>2. cut \in 0 .. 3
      OBVIOUS
    <3> QED
      BY <1>1, <3>1, <3>2 DEF FinalizeFails
  <2> QED
    BY <2>1, <2>2
<1> PICK d : d = Sealed(n, s, cut)
  OBVIOUS
<1>5. /\ d \in [share : Keys \cup {NoKey}, pub : Keys \cup {NoKey}, tail : Constitutions \cup {NoKey}]
      /\ cut = 3 => d.share = s.r1 /\ d.pub = s.r1
  BY <1>1, <1>2, <1>4, SealedFacts
<1>6. store \in [Node -> [share : Keys \cup {NoKey}, pub : Keys \cup {NoKey}, tail : Constitutions \cup {NoKey}]]
      /\ sess \in [Node -> SessionSet \cup {NoSession}]
  BY Typing DEF IInv
<1>7. /\ store' \in [Node -> [share : Keys \cup {NoKey}, pub : Keys \cup {NoKey}, tail : Constitutions \cup {NoKey}]]
      /\ store'[n] = d /\ \A q \in Node \ {n} : store'[q] = store[q]
  BY <1>4, <1>5, <1>6
<1>8. PICK t : t = [s EXCEPT !.phase = "complete"]
  OBVIOUS
<1>9. t \in SessionSet /\ t.con = s.con /\ t.own = s.own /\ t.r1 = s.r1 /\ t.out = s.out /\ t.phase = "complete"
  BY <1>3, <1>8 DEF SessionSet
<1>10. SoundSession(n, t)
  BY <1>3, <1>9 DEF SoundSession
<1>11. /\ sess' \in [Node -> SessionSet \cup {NoSession}]
       /\ \A q \in Node \ {n} : sess'[q] = sess[q]
       /\ sess'[n] = s \/ (cut = 3 /\ sess'[n] = t)
  BY <1>1, <1>4, <1>6, <1>8, <1>9
<1>12. faults' \in 0 .. MaxFaults
  BY <1>4, Underway, WireDkgAssumption
<1>13. TypeOK'
  BY <1>2, <1>7, <1>11, <1>12 DEF IInv, TypeOK, SessionSet
<1>14. \A q \in Node : sess'[q] # NoSession => SoundSession(q, sess'[q])
  BY <1>3, <1>10, <1>11 DEF IInv, Sound
<1>15. \A q \in Node : (sess[q] # NoSession => SoundSession(q, sess[q]))'
  <2>1. ASSUME NEW q \in Node, (sess[q] # NoSession)' PROVE SoundSession(q, sess[q])'
    <3>1. PICK e : e = sess'[q] /\ SoundSession(q, e)
      BY <1>14, <2>1
    <3> QED
      BY <1>2, <3>1 DEF SoundSession, Agrees
  <2> QED
    BY <2>1
<1>16. \A m \in stray' : SoundMsg(m)'
  BY <1>2, Underway DEF SoundMsg, Agrees
<1>17. Sound'
  BY <1>2, <1>15, <1>16, CallsStay DEF Sound
<1>18. CompleteIsSealed'
  <2>1. ASSUME NEW q \in Node, sess'[q] # NoSession, sess'[q].phase = "complete"
        PROVE  store'[q].share = sess'[q].r1 /\ store'[q].pub = sess'[q].r1
    <3>1. CASE q = n
      BY <1>2, <1>5, <1>7, <1>9, <1>11, <2>1, <3>1
    <3>2. CASE q # n
      BY <1>7, <1>11, <2>1, <3>2 DEF IInv, CompleteIsSealed
    <3> QED
      BY <3>1, <3>2
  <2> QED
    BY <2>1 DEF CompleteIsSealed
<1> QED
  BY <1>13, <1>17, <1>18 DEF IInv

\* A restart forgets the session and loads the sealed pieces, all or none.
LEMMA StepRestart == ASSUME IInv, NEW n \in Node, Restart(n) PROVE IInv'
<1>1. /\ hub' = hub /\ made' = made /\ stray' = stray /\ store' = store
      /\ faults < MaxFaults /\ faults' = faults + 1
      /\ sess' = [sess EXCEPT ![n] = NoSession]
      /\ call' = [c \in Call |-> IF Owner[c] = n THEN Idle ELSE call[c]]
      /\ slot' = [slot EXCEPT ![n] = Loaded(n)]
  BY DEF Restart
<1>2. /\ sess \in [Node -> SessionSet \cup {NoSession}]
      /\ slot \in [Node -> [share : Keys, pub : Keys, tail : Constitutions] \cup {Empty}]
      /\ store[n] \in [share : Keys \cup {NoKey}, pub : Keys \cup {NoKey}, tail : Constitutions \cup {NoKey}]
  BY Typing DEF IInv
<1>3. Loaded(n) \in [share : Keys, pub : Keys, tail : Constitutions] \cup {Empty}
  <2>1. PICK d : d = store[n]
    OBVIOUS
  <2>2. CASE \A piece \in DOMAIN d : d[piece] # NoKey
    <3>1. DOMAIN d = {"share", "pub", "tail"} /\ d = [share |-> d.share, pub |-> d.pub, tail |-> d.tail]
      BY <1>2, <2>1
    <3>2. d.share # NoKey /\ d.pub # NoKey /\ d.tail # NoKey
      BY <2>2, <3>1
    <3>3. d \in [share : Keys, pub : Keys, tail : Constitutions]
      BY <1>2, <2>1, <3>1, <3>2
    <3> QED
      BY <2>1, <3>3 DEF Loaded
  <2>3. CASE ~ \A piece \in DOMAIN d : d[piece] # NoKey
    BY <2>1, <2>3 DEF Loaded
  <2> QED
    BY <2>2, <2>3
<1>4. slot' \in [Node -> [share : Keys, pub : Keys, tail : Constitutions] \cup {Empty}]
  BY <1>1, <1>2, <1>3
<1>5. /\ sess' \in [Node -> SessionSet \cup {NoSession}]
      /\ sess'[n] = NoSession /\ \A q \in Node \ {n} : sess'[q] = sess[q]
  BY <1>1, <1>2
<1>6. call' \in [Call -> CallSet] /\ \A d \in Call : SoundCall(d)'
  <2>1. call \in [Call -> CallSet] /\ \A d \in Call : SoundCall(d)
    BY Underway
  <2>2. call' \in [Call -> CallSet] /\ \A d \in Call : call'[d] = call[d] \/ call'[d] = Idle
    BY <1>1, <2>1, IdleCall
  <2>3. ASSUME NEW d \in Call PROVE SoundCall(d)'
    <3>1. CASE call'[d] = call[d]
      BY <1>1, <2>1, <3>1 DEF SoundCall, Agrees
    <3>2. CASE call'[d] = Idle
      BY <3>2, IdleCall DEF SoundCall
    <3> QED
      BY <2>2, <3>1, <3>2
  <2> QED
    BY <2>2, <2>3
<1>7. faults' \in 0 .. MaxFaults
  BY <1>1, Underway, WireDkgAssumption
<1>8. TypeOK'
  BY <1>1, <1>4, <1>5, <1>6, <1>7 DEF IInv, TypeOK, SessionSet, CallSet
<1>9. \A q \in Node : (sess[q] # NoSession => SoundSession(q, sess[q]))'
  <2>1. ASSUME NEW q \in Node, (sess[q] # NoSession)' PROVE SoundSession(q, sess[q])'
    <3>1. PICK e : e = sess'[q] /\ SoundSession(q, e)
      BY <1>5, <2>1 DEF IInv, Sound
    <3> QED
      BY <1>1, <3>1 DEF SoundSession, Agrees
  <2> QED
    BY <2>1
<1>10. \A m \in stray' : SoundMsg(m)'
  BY <1>1, Underway DEF SoundMsg, Agrees
<1>11. Sound'
  BY <1>6, <1>9, <1>10 DEF Sound
<1>12. CompleteIsSealed'
  BY <1>1, <1>5 DEF IInv, CompleteIsSealed
<1> QED
  BY <1>8, <1>11, <1>12 DEF IInv

----
(***************************************************************************)
(* The theorems.                                                           *)
(***************************************************************************)

\* The initial state, without sessions, runs or messages.
LEMMA Initial == Init => IInv
<1> SUFFICES ASSUME Init PROVE IInv
  OBVIOUS
<1>1. \A n \in Node : made[n] = [v \in 1 .. 0 |-> 0] /\ 0 \in Versions
  BY Bounds DEF Init, Versions
<1>2. [v \in 1 .. 0 |-> 0] \in [1 .. 0 -> Constitutions]
  OBVIOUS
<1>3. made \in [Node -> UNION {[1 .. k -> Constitutions] : k \in Versions}]
  <2>1. [v \in 1 .. 0 |-> 0] \in UNION {[1 .. k -> Constitutions] : k \in Versions}
    <3>1. 0 \in Versions
      BY Bounds DEF Versions
    <3> QED
      BY <1>2, <3>1
  <2> QED
    BY <2>1 DEF Init
<1>4. call \in [Call -> CallSet] /\ \A c \in Call : SoundCall(c)
  BY IdleCall DEF Init, SoundCall
<1>5. Empty \in [share : Keys \cup {NoKey}, pub : Keys \cup {NoKey}, tail : Constitutions \cup {NoKey}]
  BY DEF Empty
<1>6. TypeOK
  BY <1>3, <1>4, <1>5, Typing, WireDkgAssumption DEF Init
<1> QED
  BY <1>4, <1>6 DEF Init, IInv, Sound, CompleteIsSealed

\* Every step keeps the invariant.
LEMMA Step == IInv /\ [Next]_vars => IInv'
<1> SUFFICES ASSUME IInv, [Next]_vars PROVE IInv'
  OBVIOUS
<1>1. CASE \E c \in Call, k \in Constitutions : StartAny(c, k)
  BY <1>1, StepStart DEF StartAny, StartTr, StartReshare
<1>2. CASE \E c \in Call, k \in Constitutions, f \in BOOLEAN : Restate(c, k, f)
  BY <1>2, StepRestate
<1>3. CASE \E c \in Call, f \in BOOLEAN : Insert(c, f) \/ DkgRound2Impl(c, f)
  BY <1>3, StepInsert, StepRound2
<1>4. CASE \E c \in Call : FanOutAny(c) \/ LosePost(c)
  BY <1>4, StepFanOut, StepLosePost DEF FanOutAny, FanOutTr, FanOutReshare
<1>5. CASE \E m \in stray : Arrive(m)
  BY <1>5, StepArrive
<1>6. CASE \E n \in Node : DkgRound3Impl(n) \/ Restart(n)
  BY <1>6, StepFinalize, StepRestart DEF DkgRound3Impl, FinalizeRound3Tr
<1>7. CASE \E n \in Node, cut \in 0 .. 2 : FinalizeFails(n, cut)
  BY <1>7, StepFinalize
<1>8. CASE UNCHANGED vars
  <2>1. /\ hub' = hub /\ sess' = sess /\ made' = made /\ call' = call /\ stray' = stray
        /\ store' = store /\ slot' = slot /\ faults' = faults
    BY <1>8 DEF vars
  <2>2. faults' \in 0 .. MaxFaults /\ stray' \subseteq MsgSet /\ \A m \in stray' : SoundMsg(m)
    BY <2>1, Underway
  <2> QED
    BY <2>1, <2>2, CallsStay, StepCalls
<1> QED
  BY <1>1, <1>2, <1>3, <1>4, <1>5, <1>6, <1>7, <1>8 DEF Next

\* The inductive invariant holds in every reachable state.
THEOREM Invariance == Spec => []IInv
  BY Initial, Step, PTL DEF Spec

\* No session loses its round 1 secret without reaching round 2, although
\* advance_to_round2 takes it before part2 may fail: for any mesh and any
\* disagreement of operators about the constitution.
THEOREM NeverWedged == Spec => []NoWedgedSession
<1>1. IInv => NoWedgedSession
  BY DEF IInv, Sound, SoundSession, NoWedgedSession
<1> QED
  BY <1>1, Invariance, PTL

\* The types of sessions, packages and stores, and a complete session is sealed
\* (finalize_round3, load_tr_shares).
THEOREM CompleteMeansSealed == Spec => []SealedSound
<1>1. IInv => SealedSound
  BY DEF IInv, SealedSound
<1> QED
  BY <1>1, Invariance, PTL

\* On the DKG hubs a post on its way is refused by a vault that holds the session
\* only when the two disagree about the constitution (ingest_round1, ingest_round2).
THEOREM RefusalIsDrift == Spec => []RefusedForDriftOnly
<1>1. IInv => RefusedForDriftOnly
  <2> SUFFICES ASSUME IInv, hub \in {"plain", "tr"},
                      NEW m \in stray \cup {NextPost(c) : c \in {d \in Call : call[d].todo # {}}},
                      sess[m.to] # NoSession, sess[m.to].con = m.con
               PROVE  Succeeds(m)
    BY DEF RefusedForDriftOnly
  <2>1. m \in MsgSet /\ SoundMsg(m)
    BY Underway, PostFacts DEF IInv
  <2>2. m.from \in Node /\ m.to \in Node /\ m.con \in Constitutions /\ m.round \in {1, 2}
    BY <2>1 DEF MsgSet
  <2>3. m.from \in Roster(sess[m.to]) /\ SenderOk(m.from)
    BY <2>2, Bounds DEF Roster, SenderOk, SenderIdentifier, IdentifierToU16
  <2>4. Accepts(m)
    BY <2>2, <2>3 DEF Accepts, Admits1, Admits2
  <2> QED
    BY <2>1, <2>4, IngestFacts DEF IInv, Succeeds
<1> QED
  BY <1>1, Invariance, PTL
=============================================================================
