---- MODULE AntiNonceProofs ----
(***************************************************************************)
(* Proofs about AntiNonce for every set of nodes, sessions and claims,     *)
(* every number of retries and of runtime threads.                         *)
(*                                                                         *)
(* The argument: an acknowledgement that says "not seen" comes from a node *)
(* whose log holds the id because of this very claim, and a log entry      *)
(* never changes hands.  A claim that returned Ok therefore owns the entry *)
(* on a quorum; two quorums of ceil(2n/3) nodes share a node, and the      *)
(* entry of that node has one owner.                                       *)
(***************************************************************************)
EXTENDS AntiNonce, ConsumedLog, FiniteSetTheorems, TLAPS

\* A claim past its local burn owns the entry of its own node.
OwnsLocal ==
    \A c \in Claim : st[c] \in Running \cup {"ok"} => log[node[c]][sess[c]] = c

\* It never counts its own node among the peers.
PeersAreOthers ==
    \A c \in Claim :
        /\ node[c] \notin todo[c]
        /\ node[c] \notin acks[c]
        /\ st[c] = "waiting" => peer[c] # node[c]

\* Unless some answer said already_seen, every acknowledging peer's entry is
\* owned by the claim.
AcksAreOwned ==
    \A c \in Claim : ~seen[c] => \A p \in acks[c] : log[p][sess[c]] = c

\* So is the entry behind a "not seen" answer that is still unread.
FreshIsOwned ==
    \A c \in Claim : resp[c] = "fresh" => st[c] = "waiting" /\ log[peer[c]][sess[c]] = c

\* The verdict's conditions hold of every claim that returned Ok.
WinnerCounted ==
    \A c \in Claim : st[c] = "ok" => ~seen[c] /\ 1 + Cardinality(acks[c]) >= QuorumT

IInv ==
    /\ TypeOK
    /\ OwnsLocal
    /\ PeersAreOthers
    /\ AcksAreOwned
    /\ FreshIsOwned
    /\ WinnerCounted
    /\ FailedClaimStaysBurnt

\* A burnt id keeps its owner: no step erases or overwrites a log entry.
Monotone == \A n \in Node, s \in Session : log[n][s] # NoClaim => log'[n][s] = log[n][s]

----
\* The quorum of QuorumAntiNonce::from_local is a number, and two of them
\* exceed the cluster.
LEMMA QuorumIntersects == QuorumT \in Nat /\ 2 * QuorumT > Cardinality(Node)
<1>1. Cardinality(Node) \in Nat
  BY NodeAssumption, FS_CardinalityType
<1>2. Cardinality(Node) # 0
  BY NodeAssumption, FS_EmptySet
<1> QED
  BY <1>1, <1>2 DEF QuorumT, QuorumTwoThirds

\* Two disjoint sets of nodes cannot both hold a quorum.
LEMMA QuorumsMeet ==
    ASSUME NEW A, NEW B, A \subseteq Node, B \subseteq Node,
           Cardinality(A) >= QuorumT, Cardinality(B) >= QuorumT
    PROVE  A \cap B # {}
<1>1. IsFiniteSet(A) /\ IsFiniteSet(B) /\ IsFiniteSet(A \cup B)
  BY NodeAssumption, FS_Subset
<1>2. Cardinality(A \cup B) <= Cardinality(Node)
  <2>1. A \cup B \subseteq Node
    OBVIOUS
  <2> QED
    BY <2>1, NodeAssumption, FS_Subset
<1>3. Cardinality(A \cup B) = Cardinality(A) + Cardinality(B) - Cardinality(A \cap B)
  BY <1>1, FS_Union
<1>4. /\ Cardinality(A) \in Nat /\ Cardinality(B) \in Nat
      /\ Cardinality(A \cup B) \in Nat /\ Cardinality(Node) \in Nat
  BY <1>1, NodeAssumption, FS_CardinalityType
<1>5. SUFFICES ASSUME A \cap B = {} PROVE FALSE
  OBVIOUS
<1>6. Cardinality(A \cap B) = 0
  BY <1>5, FS_EmptySet
<1> QED
  BY <1>2, <1>3, <1>4, <1>6, QuorumIntersects

----
\* The initial states satisfy the invariant.
LEMMA InitInv == Init => IInv
<1> SUFFICES ASSUME Init PROVE IInv
  OBVIOUS
<1> USE DEF Init
<1>1. TypeOK
  BY BoundAssumption DEF TypeOK, Running, Returned, Answer, Request
<1>2. OwnsLocal /\ PeersAreOthers /\ AcksAreOwned /\ FreshIsOwned
  BY DEF OwnsLocal, PeersAreOthers, AcksAreOwned, FreshIsOwned, Running
<1>3. WinnerCounted /\ FailedClaimStaysBurnt
  BY DEF WinnerCounted, FailedClaimStaysBurnt, Running
<1> QED
  BY <1>1, <1>2, <1>3 DEF IInv

----
\* Every step keeps the types.
LEMMA TypeStep == TypeOK /\ [Next]_vars => TypeOK'
<1> SUFFICES ASSUME TypeOK, [Next]_vars PROVE TypeOK'
  OBVIOUS
<1> USE DEF TypeOK, Running, Returned, Answer, Request, claimVars
<1>1. ASSUME NEW c \in Claim, BurnLocal(c) PROVE TypeOK'
  <2>1. CASE log[node[c]][sess[c]] # NoClaim
    BY <1>1, <2>1 DEF BurnLocal
  <2>2. CASE log[node[c]][sess[c]] = NoClaim
    <3>1. /\ log' = [log EXCEPT ![node[c]][sess[c]] = c]
          /\ soft' = [soft EXCEPT ![node[c]] = @ \ {sess[c]}]
          /\ st' = [st EXCEPT ![c] = "fanout"]
          /\ todo' = [todo EXCEPT ![c] = Node \ {node[c]}]
          /\ UNCHANGED <<node, sess, peer, try, acks, seen, lost, reqs, resp>>
      BY <1>1, <2>2 DEF BurnLocal
    <3>2. log' \in [Node -> [Session -> Claim \cup {NoClaim}]]
      BY <3>1
    <3> QED
      BY <3>1, <3>2
  <2> QED
    BY <2>1, <2>2
<1>2. ASSUME NEW c \in Claim, LocalAppendError(c) PROVE TypeOK'
  BY <1>2 DEF LocalAppendError
<1>3. ASSUME NEW c \in Claim, NEW p \in Node, SendPrepare(c, p) PROVE TypeOK'
  BY <1>3, BoundAssumption DEF SendPrepare
<1>4. ASSUME NEW c \in Claim, ReceiveAck(c) PROVE TypeOK'
  BY <1>4 DEF ReceiveAck
<1>5. ASSUME NEW c \in Claim, ReceiveTruncated(c) PROVE TypeOK'
  BY <1>5 DEF ReceiveTruncated
<1>6. ASSUME NEW c \in Claim, ReceiveRefusal(c) PROVE TypeOK'
  BY <1>6 DEF ReceiveRefusal
<1>7. ASSUME NEW c \in Claim, AttemptFails(c) PROVE TypeOK'
  <2>1. CASE try[c] < MaxRetries
    <3>1. try[c] + 1 \in 1..MaxRetries /\ peer[c] \in Node
      BY <1>7, <2>1, BoundAssumption DEF AttemptFails
    <3>2. reqs' \subseteq Request /\ try' \in [Claim -> 1..MaxRetries]
      BY <1>7, <2>1, <3>1 DEF AttemptFails
    <3> QED
      BY <1>7, <2>1, <3>2 DEF AttemptFails
  <2>2. CASE ~(try[c] < MaxRetries)
    BY <1>7, <2>2 DEF AttemptFails
  <2> QED
    BY <2>1, <2>2
<1>8. ASSUME NEW c \in Claim, FinishClaim(c) PROVE TypeOK'
  BY <1>8 DEF FinishClaim, Verdict
<1>9. ASSUME NEW r \in reqs, HandlePrepare(r) PROVE TypeOK'
  <2>1. r.claim \in Claim /\ r.to \in Node /\ sess[r.claim] \in Session
    OBVIOUS
  <2>2. log' \in [Node -> [Session -> Claim \cup {NoClaim}]] /\ soft' \in [Node -> SUBSET Session]
    <3>1. CASE log[r.to][sess[r.claim]] = NoClaim
      <4>1. /\ log' = [log EXCEPT ![r.to][sess[r.claim]] = r.claim]
            /\ soft' = [soft EXCEPT ![r.to] = @ \ {sess[r.claim]}]
        BY <1>9, <3>1 DEF HandlePrepare
      <4> QED
        BY <2>1, <4>1
    <3>2. CASE log[r.to][sess[r.claim]] # NoClaim
      BY <1>9, <3>2 DEF HandlePrepare
    <3> QED
      BY <3>1, <3>2
  <2>3. resp' \in [Claim -> Answer \cup {"none"}]
    BY <1>9, <2>1 DEF HandlePrepare, Reply
  <2> QED
    BY <1>9, <2>2, <2>3 DEF HandlePrepare
<1>10. ASSUME NEW r \in reqs, RefusePrepare(r) PROVE TypeOK'
  BY <1>10 DEF RefusePrepare, Reply, Current
<1>11. ASSUME NEW n \in Node, NEW s \in Session, SoftPrepare(n, s) PROVE TypeOK'
  BY <1>11 DEF SoftPrepare
<1>12. ASSUME NEW n \in Node, NEW s \in Session, SoftExpires(n, s) PROVE TypeOK'
  BY <1>12 DEF SoftExpires
<1>13. ASSUME NEW n \in Node, CrashRestart(n) PROVE TypeOK'
  BY <1>13 DEF CrashRestart
<1>14. ASSUME UNCHANGED vars PROVE TypeOK'
  BY <1>14 DEF vars
<1>15. ASSUME NEW c \in Claim, ClientError(c) PROVE TypeOK'
  BY <1>15 DEF ClientError
<1> QED
  BY <1>1, <1>2, <1>3, <1>4, <1>5, <1>6, <1>7, <1>8, <1>9, <1>10, <1>11, <1>12, <1>13, <1>14, <1>15 DEF Next, Step

----
\* The step from a burnt entry to the next state keeps its owner, whatever
\* the action: both writers check the entry under the ledger's lock.
LEMMA LogIsMonotone == TypeOK /\ [Next]_vars => Monotone
<1> SUFFICES ASSUME TypeOK, [Next]_vars,
                    NEW n \in Node, NEW s \in Session, log[n][s] # NoClaim
             PROVE  log'[n][s] = log[n][s]
  BY DEF Monotone
<1> USE DEF TypeOK, Request
<1>1. ASSUME NEW c \in Claim, BurnLocal(c) PROVE log'[n][s] = log[n][s]
  <2>1. CASE log[node[c]][sess[c]] # NoClaim
    BY <1>1, <2>1 DEF BurnLocal
  <2>2. CASE log[node[c]][sess[c]] = NoClaim
    <3>1. log' = [log EXCEPT ![node[c]][sess[c]] = c]
      BY <1>1, <2>2 DEF BurnLocal
    <3> QED
      BY <2>2, <3>1
  <2> QED
    BY <2>1, <2>2
<1>2. ASSUME NEW r \in reqs, HandlePrepare(r) PROVE log'[n][s] = log[n][s]
  BY <1>2 DEF HandlePrepare
<1>3. CASE UNCHANGED log
  BY <1>3
<1> QED
  BY <1>1, <1>2, <1>3 DEF Next, Step, vars, LocalAppendError, ClientError, SendPrepare, ReceiveAck,
     ReceiveTruncated, ReceiveRefusal, AttemptFails, FinishClaim, RefusePrepare,
     SoftPrepare, SoftExpires, CrashRestart

\* Every step keeps the invariant.
LEMMA InvStep == IInv /\ [Next]_vars => IInv'
<1> SUFFICES ASSUME IInv, [Next]_vars PROVE IInv'
  OBVIOUS
<1> USE DEF IInv
<1>a. TypeOK'
  BY TypeStep
<1>b. Monotone
  BY LogIsMonotone
<1>c. \A d \in Claim, m \in Node : log[m][sess[d]] = d => log'[m][sess[d]] = d
  BY <1>b, ClaimAssumption DEF Monotone, TypeOK
<1> USE <1>a, <1>b
<1>1. ASSUME NEW c \in Claim, BurnLocal(c) PROVE IInv'
  <2>a. UNCHANGED <<node, sess, peer, try, acks, seen, lost, reqs, resp>> /\ st[c] = "idle"
    BY <1>1 DEF BurnLocal
  <2>b. \/ /\ log[node[c]][sess[c]] # NoClaim
           /\ st' = [st EXCEPT ![c] = "reuse"]
           /\ UNCHANGED <<log, todo>>
        \/ /\ log[node[c]][sess[c]] = NoClaim
           /\ log' = [log EXCEPT ![node[c]][sess[c]] = c]
           /\ st' = [st EXCEPT ![c] = "fanout"]
           /\ todo' = [todo EXCEPT ![c] = Node \ {node[c]}]
    BY <1>1 DEF BurnLocal
  <2>1. OwnsLocal'
    BY <2>a, <2>b, ClaimAssumption DEF OwnsLocal, TypeOK, Monotone, Running
  <2>2. PeersAreOthers'
    <3> SUFFICES ASSUME NEW d \in Claim
                 PROVE  /\ node[d] \notin todo'[d]
                        /\ node[d] \notin acks[d]
                        /\ st'[d] = "waiting" => peer[d] # node[d]
      BY <2>a DEF PeersAreOthers
    <3>0. node[d] \notin todo[d]
      BY DEF PeersAreOthers
    <3>1. node[d] \notin todo'[d]
      <4>1. todo'[d] = todo[d] \/ todo'[d] = Node \ {node[d]}
        BY <2>b DEF TypeOK
      <4> QED
        BY <3>0, <4>1
    <3>2. st'[d] = "waiting" => st[d] = "waiting"
      BY <2>b DEF TypeOK
    <3> QED
      BY <3>1, <3>2 DEF PeersAreOthers
  <2>3. AcksAreOwned'
    BY <2>a, <1>c DEF AcksAreOwned, TypeOK
  <2>4. FreshIsOwned'
    BY <2>a, <2>b, ClaimAssumption DEF FreshIsOwned, TypeOK, Monotone, Running
  <2>5. WinnerCounted'
    BY <2>a, <2>b, ClaimAssumption DEF WinnerCounted, TypeOK, Monotone, Running
  <2>6. FailedClaimStaysBurnt'
    BY <2>a, <2>b, ClaimAssumption DEF FailedClaimStaysBurnt, TypeOK, Monotone, Running
  <2> QED
    BY <2>1, <2>2, <2>3, <2>4, <2>5, <2>6
<1>2. ASSUME NEW c \in Claim, LocalAppendError(c) PROVE IInv'
  <2>1. OwnsLocal'
    BY <1>2 DEF LocalAppendError, OwnsLocal, TypeOK, Monotone, Running, claimVars
  <2>2. PeersAreOthers'
    BY <1>2 DEF LocalAppendError, PeersAreOthers, TypeOK, Monotone, Running, claimVars
  <2>3. AcksAreOwned'
    BY <1>2 DEF LocalAppendError, AcksAreOwned, TypeOK, Monotone, Running, claimVars
  <2>4. FreshIsOwned'
    BY <1>2 DEF LocalAppendError, FreshIsOwned, TypeOK, Monotone, Running, claimVars
  <2>5. WinnerCounted'
    BY <1>2 DEF LocalAppendError, WinnerCounted, TypeOK, Monotone, Running, claimVars
  <2>6. FailedClaimStaysBurnt'
    BY <1>2 DEF LocalAppendError, FailedClaimStaysBurnt, TypeOK, Monotone, Running, claimVars
  <2> QED
    BY <2>1, <2>2, <2>3, <2>4, <2>5, <2>6
<1>3. ASSUME NEW c \in Claim, NEW p \in Node, SendPrepare(c, p) PROVE IInv'
  <2>1. OwnsLocal'
    BY <1>3 DEF SendPrepare, OwnsLocal, TypeOK, Monotone, Running, claimVars
  <2>2. PeersAreOthers'
    BY <1>3 DEF SendPrepare, PeersAreOthers, TypeOK, Monotone, Running, claimVars
  <2>3. AcksAreOwned'
    BY <1>3 DEF SendPrepare, AcksAreOwned, TypeOK, Monotone, Running, claimVars
  <2>4. FreshIsOwned'
    BY <1>3 DEF SendPrepare, FreshIsOwned, TypeOK, Monotone, Running, claimVars
  <2>5. WinnerCounted'
    BY <1>3 DEF SendPrepare, WinnerCounted, TypeOK, Monotone, Running, claimVars
  <2>6. FailedClaimStaysBurnt'
    BY <1>3 DEF SendPrepare, FailedClaimStaysBurnt, TypeOK, Monotone, Running, claimVars
  <2> QED
    BY <2>1, <2>2, <2>3, <2>4, <2>5, <2>6
<1>4. ASSUME NEW c \in Claim, ReceiveAck(c) PROVE IInv'
  <2>1. OwnsLocal'
    BY <1>4 DEF ReceiveAck, OwnsLocal, TypeOK, Monotone, Running, claimVars
  <2>2. PeersAreOthers'
    BY <1>4 DEF ReceiveAck, PeersAreOthers, TypeOK, Monotone, Running, claimVars
  <2>3. AcksAreOwned'
    <3> SUFFICES ASSUME NEW d \in Claim, ~seen'[d], NEW q \in acks'[d]
                 PROVE  log[q][sess[d]] = d
      BY <1>4 DEF ReceiveAck, AcksAreOwned
    <3>1. CASE d = c
      <4>1. ~seen[c] /\ resp[c] # "seen"
        BY <1>4, <3>1 DEF ReceiveAck, TypeOK
      <4>2. resp[c] = "fresh" /\ log[peer[c]][sess[c]] = c
        BY <1>4, <4>1 DEF ReceiveAck, FreshIsOwned
      <4> QED
        BY <1>4, <3>1, <4>1, <4>2 DEF ReceiveAck, AcksAreOwned, TypeOK
    <3>2. CASE d # c
      BY <1>4, <3>2 DEF ReceiveAck, AcksAreOwned, TypeOK
    <3> QED
      BY <3>1, <3>2
  <2>4. FreshIsOwned'
    BY <1>4 DEF ReceiveAck, FreshIsOwned, TypeOK, Monotone, Running, claimVars
  <2>5. WinnerCounted'
    BY <1>4 DEF ReceiveAck, WinnerCounted, TypeOK, Monotone, Running, claimVars
  <2>6. FailedClaimStaysBurnt'
    BY <1>4 DEF ReceiveAck, FailedClaimStaysBurnt, TypeOK, Monotone, Running, claimVars
  <2> QED
    BY <2>1, <2>2, <2>3, <2>4, <2>5, <2>6
<1>5. ASSUME NEW c \in Claim, ReceiveTruncated(c) PROVE IInv'
  <2>1. OwnsLocal'
    BY <1>5 DEF ReceiveTruncated, OwnsLocal, TypeOK, Monotone, Running, claimVars
  <2>2. PeersAreOthers'
    BY <1>5 DEF ReceiveTruncated, PeersAreOthers, TypeOK, Monotone, Running, claimVars
  <2>3. AcksAreOwned'
    BY <1>5 DEF ReceiveTruncated, AcksAreOwned, TypeOK, Monotone, Running, claimVars
  <2>4. FreshIsOwned'
    BY <1>5 DEF ReceiveTruncated, FreshIsOwned, TypeOK, Monotone, Running, claimVars
  <2>5. WinnerCounted'
    BY <1>5 DEF ReceiveTruncated, WinnerCounted, TypeOK, Monotone, Running, claimVars
  <2>6. FailedClaimStaysBurnt'
    BY <1>5 DEF ReceiveTruncated, FailedClaimStaysBurnt, TypeOK, Monotone, Running, claimVars
  <2> QED
    BY <2>1, <2>2, <2>3, <2>4, <2>5, <2>6
<1>6. ASSUME NEW c \in Claim, ReceiveRefusal(c) PROVE IInv'
  <2>1. OwnsLocal'
    BY <1>6 DEF ReceiveRefusal, OwnsLocal, TypeOK, Monotone, Running, claimVars
  <2>2. PeersAreOthers'
    BY <1>6 DEF ReceiveRefusal, PeersAreOthers, TypeOK, Monotone, Running, claimVars
  <2>3. AcksAreOwned'
    BY <1>6 DEF ReceiveRefusal, AcksAreOwned, TypeOK, Monotone, Running, claimVars
  <2>4. FreshIsOwned'
    BY <1>6 DEF ReceiveRefusal, FreshIsOwned, TypeOK, Monotone, Running, claimVars
  <2>5. WinnerCounted'
    BY <1>6 DEF ReceiveRefusal, WinnerCounted, TypeOK, Monotone, Running, claimVars
  <2>6. FailedClaimStaysBurnt'
    BY <1>6 DEF ReceiveRefusal, FailedClaimStaysBurnt, TypeOK, Monotone, Running, claimVars
  <2> QED
    BY <2>1, <2>2, <2>3, <2>4, <2>5, <2>6
<1>7. ASSUME NEW c \in Claim, AttemptFails(c) PROVE IInv'
  <2>1. OwnsLocal'
    BY <1>7 DEF AttemptFails, OwnsLocal, TypeOK, Monotone, Running, claimVars
  <2>2. PeersAreOthers'
    BY <1>7 DEF AttemptFails, PeersAreOthers, TypeOK, Monotone, Running, claimVars
  <2>3. AcksAreOwned'
    BY <1>7 DEF AttemptFails, AcksAreOwned, TypeOK, Monotone, Running, claimVars
  <2>4. FreshIsOwned'
    BY <1>7 DEF AttemptFails, FreshIsOwned, TypeOK, Monotone, Running, claimVars
  <2>5. WinnerCounted'
    BY <1>7 DEF AttemptFails, WinnerCounted, TypeOK, Monotone, Running, claimVars
  <2>6. FailedClaimStaysBurnt'
    BY <1>7 DEF AttemptFails, FailedClaimStaysBurnt, TypeOK, Monotone, Running, claimVars
  <2> QED
    BY <2>1, <2>2, <2>3, <2>4, <2>5, <2>6
<1>8. ASSUME NEW c \in Claim, FinishClaim(c) PROVE IInv'
  <2>1. OwnsLocal'
    BY <1>8 DEF FinishClaim, Verdict, OwnsLocal, TypeOK, Monotone, Running, claimVars
  <2>2. PeersAreOthers'
    BY <1>8 DEF FinishClaim, Verdict, PeersAreOthers, TypeOK, Monotone, Running, claimVars
  <2>3. AcksAreOwned'
    BY <1>8 DEF FinishClaim, Verdict, AcksAreOwned, TypeOK, Monotone, Running, claimVars
  <2>4. FreshIsOwned'
    BY <1>8 DEF FinishClaim, Verdict, FreshIsOwned, TypeOK, Monotone, Running, claimVars
  <2>5. WinnerCounted'
    <3>1. Cardinality(acks[c]) \in Nat
      BY NodeAssumption, FS_Subset, FS_CardinalityType DEF TypeOK
    <3>2. st'[c] = "ok" => ~seen[c] /\ 1 + Cardinality(acks[c]) >= QuorumT
      BY <1>8, <3>1, QuorumIntersects DEF FinishClaim, Verdict, TypeOK
    <3>3. \A d \in Claim \ {c} : st'[d] = st[d]
      BY <1>8 DEF FinishClaim, TypeOK
    <3> QED
      BY <1>8, <3>2, <3>3 DEF FinishClaim, WinnerCounted, claimVars
  <2>6. FailedClaimStaysBurnt'
    BY <1>8 DEF FinishClaim, Verdict, FailedClaimStaysBurnt, TypeOK, Monotone, Running, claimVars
  <2> QED
    BY <2>1, <2>2, <2>3, <2>4, <2>5, <2>6
<1>9. ASSUME NEW r \in reqs, HandlePrepare(r) PROVE IInv'
  <2>1. OwnsLocal'
    BY <1>9, <1>c DEF HandlePrepare, OwnsLocal, TypeOK, claimVars
  <2>2. PeersAreOthers'
    BY <1>9, ClaimAssumption DEF HandlePrepare, Reply, Current, PeersAreOthers, TypeOK, Monotone, Running, claimVars
  <2>3. AcksAreOwned'
    BY <1>9, <1>c DEF HandlePrepare, AcksAreOwned, TypeOK, claimVars
  <2>4. FreshIsOwned'
    BY <1>9, ClaimAssumption DEF HandlePrepare, Reply, Current, FreshIsOwned, TypeOK, Monotone, Running, claimVars
  <2>5. WinnerCounted'
    BY <1>9, ClaimAssumption DEF HandlePrepare, Reply, Current, WinnerCounted, TypeOK, Monotone, Running, claimVars
  <2>6. FailedClaimStaysBurnt'
    BY <1>9, ClaimAssumption DEF HandlePrepare, Reply, Current, FailedClaimStaysBurnt, TypeOK, Monotone, Running, claimVars
  <2> QED
    BY <2>1, <2>2, <2>3, <2>4, <2>5, <2>6
<1>10. ASSUME NEW r \in reqs, RefusePrepare(r) PROVE IInv'
  <2>1. OwnsLocal'
    BY <1>10 DEF RefusePrepare, Reply, Current, OwnsLocal, TypeOK, Monotone, Running, claimVars
  <2>2. PeersAreOthers'
    BY <1>10 DEF RefusePrepare, Reply, Current, PeersAreOthers, TypeOK, Monotone, Running, claimVars
  <2>3. AcksAreOwned'
    BY <1>10 DEF RefusePrepare, Reply, Current, AcksAreOwned, TypeOK, Monotone, Running, claimVars
  <2>4. FreshIsOwned'
    BY <1>10 DEF RefusePrepare, Reply, Current, FreshIsOwned, TypeOK, Monotone, Running, claimVars
  <2>5. WinnerCounted'
    BY <1>10 DEF RefusePrepare, Reply, Current, WinnerCounted, TypeOK, Monotone, Running, claimVars
  <2>6. FailedClaimStaysBurnt'
    BY <1>10 DEF RefusePrepare, Reply, Current, FailedClaimStaysBurnt, TypeOK, Monotone, Running, claimVars
  <2> QED
    BY <2>1, <2>2, <2>3, <2>4, <2>5, <2>6
<1>11. ASSUME NEW n \in Node, NEW s \in Session, SoftPrepare(n, s) PROVE IInv'
  <2>1. OwnsLocal'
    BY <1>11 DEF SoftPrepare, OwnsLocal, TypeOK, Monotone, Running, claimVars
  <2>2. PeersAreOthers'
    BY <1>11 DEF SoftPrepare, PeersAreOthers, TypeOK, Monotone, Running, claimVars
  <2>3. AcksAreOwned'
    BY <1>11 DEF SoftPrepare, AcksAreOwned, TypeOK, Monotone, Running, claimVars
  <2>4. FreshIsOwned'
    BY <1>11 DEF SoftPrepare, FreshIsOwned, TypeOK, Monotone, Running, claimVars
  <2>5. WinnerCounted'
    BY <1>11 DEF SoftPrepare, WinnerCounted, TypeOK, Monotone, Running, claimVars
  <2>6. FailedClaimStaysBurnt'
    BY <1>11 DEF SoftPrepare, FailedClaimStaysBurnt, TypeOK, Monotone, Running, claimVars
  <2> QED
    BY <2>1, <2>2, <2>3, <2>4, <2>5, <2>6
<1>12. ASSUME NEW n \in Node, NEW s \in Session, SoftExpires(n, s) PROVE IInv'
  <2>1. OwnsLocal'
    BY <1>12 DEF SoftExpires, OwnsLocal, TypeOK, Monotone, Running, claimVars
  <2>2. PeersAreOthers'
    BY <1>12 DEF SoftExpires, PeersAreOthers, TypeOK, Monotone, Running, claimVars
  <2>3. AcksAreOwned'
    BY <1>12 DEF SoftExpires, AcksAreOwned, TypeOK, Monotone, Running, claimVars
  <2>4. FreshIsOwned'
    BY <1>12 DEF SoftExpires, FreshIsOwned, TypeOK, Monotone, Running, claimVars
  <2>5. WinnerCounted'
    BY <1>12 DEF SoftExpires, WinnerCounted, TypeOK, Monotone, Running, claimVars
  <2>6. FailedClaimStaysBurnt'
    BY <1>12 DEF SoftExpires, FailedClaimStaysBurnt, TypeOK, Monotone, Running, claimVars
  <2> QED
    BY <2>1, <2>2, <2>3, <2>4, <2>5, <2>6
<1>13. ASSUME NEW n \in Node, CrashRestart(n) PROVE IInv'
  <2>1. OwnsLocal'
    BY <1>13 DEF CrashRestart, OwnsLocal, TypeOK, Monotone, Running, claimVars
  <2>2. PeersAreOthers'
    BY <1>13 DEF CrashRestart, PeersAreOthers, TypeOK, Monotone, Running, claimVars
  <2>3. AcksAreOwned'
    BY <1>13 DEF CrashRestart, AcksAreOwned, TypeOK, Monotone, Running, claimVars
  <2>4. FreshIsOwned'
    BY <1>13 DEF CrashRestart, FreshIsOwned, TypeOK, Monotone, Running, claimVars
  <2>5. WinnerCounted'
    BY <1>13 DEF CrashRestart, WinnerCounted, TypeOK, Monotone, Running, claimVars
  <2>6. FailedClaimStaysBurnt'
    BY <1>13 DEF CrashRestart, FailedClaimStaysBurnt, TypeOK, Monotone, Running, claimVars
  <2> QED
    BY <2>1, <2>2, <2>3, <2>4, <2>5, <2>6
<1>14. CASE UNCHANGED vars
  BY <1>14 DEF vars, claimVars, OwnsLocal, PeersAreOthers, AcksAreOwned, FreshIsOwned, WinnerCounted, FailedClaimStaysBurnt
<1>15. ASSUME NEW c \in Claim, ClientError(c) PROVE IInv'
  <2>1. OwnsLocal'
    BY <1>15 DEF ClientError, OwnsLocal, TypeOK, Monotone, Running, claimVars
  <2>2. PeersAreOthers'
    BY <1>15 DEF ClientError, PeersAreOthers, TypeOK, Monotone, Running, claimVars
  <2>3. AcksAreOwned'
    BY <1>15 DEF ClientError, AcksAreOwned, TypeOK, Monotone, Running, claimVars
  <2>4. FreshIsOwned'
    BY <1>15 DEF ClientError, FreshIsOwned, TypeOK, Monotone, Running, claimVars
  <2>5. WinnerCounted'
    BY <1>15 DEF ClientError, WinnerCounted, TypeOK, Monotone, Running, claimVars
  <2>6. FailedClaimStaysBurnt'
    BY <1>15 DEF ClientError, FailedClaimStaysBurnt, TypeOK, Monotone, Running, claimVars
  <2> QED
    BY <2>1, <2>2, <2>3, <2>4, <2>5, <2>6
<1> QED
  BY <1>1, <1>2, <1>3, <1>4, <1>5, <1>6, <1>7, <1>8, <1>9, <1>10, <1>11, <1>12, <1>13, <1>14, <1>15 DEF Next, Step

----
\* The quorum rests on this claim's own burns.
LEMMA InvImpliesQuorum == IInv => WinnerHoldsQuorum
<1> SUFFICES ASSUME IInv, NEW c \in Claim, st[c] = "ok"
             PROVE  Cardinality(BurntBy(c)) >= QuorumT
  BY DEF WinnerHoldsQuorum
<1>1. acks[c] \cup {node[c]} \subseteq BurntBy(c)
  BY DEF IInv, BurntBy, WinnerCounted, AcksAreOwned, OwnsLocal, TypeOK
<1>2. IsFiniteSet(acks[c]) /\ IsFiniteSet(BurntBy(c))
  BY NodeAssumption, FS_Subset DEF IInv, TypeOK, BurntBy
<1>3. Cardinality(acks[c] \cup {node[c]}) = Cardinality(acks[c]) + 1
  BY <1>2, FS_AddElement DEF IInv, PeersAreOthers
<1>4. Cardinality(acks[c] \cup {node[c]}) <= Cardinality(BurntBy(c))
  BY <1>1, <1>2, FS_Subset
<1>5. 1 + Cardinality(acks[c]) >= QuorumT
  BY DEF IInv, WinnerCounted
<1>6. Cardinality(acks[c]) \in Nat /\ Cardinality(BurntBy(c)) \in Nat /\ QuorumT \in Nat
  BY <1>2, FS_CardinalityType, QuorumIntersects
<1> QED
  BY <1>3, <1>4, <1>5, <1>6

\* Two winners of one id would own the same entry of a common node.
LEMMA InvImpliesOneWinner == IInv => AtMostOneWinner
<1> SUFFICES ASSUME IInv, NEW c \in Claim, NEW d \in Claim,
                    st[c] = "ok", st[d] = "ok", sess[c] = sess[d]
             PROVE  c = d
  BY DEF AtMostOneWinner
<1>1. Cardinality(BurntBy(c)) >= QuorumT /\ Cardinality(BurntBy(d)) >= QuorumT
  BY InvImpliesQuorum DEF WinnerHoldsQuorum
<1>2. BurntBy(c) \subseteq Node /\ BurntBy(d) \subseteq Node
  BY DEF BurntBy
<1>3. PICK n \in Node : n \in BurntBy(c) /\ n \in BurntBy(d)
  BY <1>1, <1>2, QuorumsMeet
<1> QED
  BY <1>3 DEF BurntBy

\* The inductive invariant holds in every reachable state.
THEOREM Invariance == Spec => []IInv
<1> QED
  BY InitInv, InvStep, PTL DEF Spec

\* Type correctness of the ledger and of the calls in progress.
THEOREM TypeCorrect == Spec => []TypeOK
<1>1. IInv => TypeOK
  BY DEF IInv
<1> QED
  BY <1>1, Invariance, PTL

\* claim_session returns Ok at most once per session id in the whole mesh.
THEOREM OneWinner == Spec => []AtMostOneWinner
<1> QED
  BY InvImpliesOneWinner, Invariance, PTL

\* Every Ok is backed by a quorum of durable logs that this call wrote.
THEOREM QuorumIsDurable == Spec => []WinnerHoldsQuorum
<1> QED
  BY InvImpliesQuorum, Invariance, PTL

\* A call that got past its local burn leaves the id unusable on its node,
\* however it ended.
THEOREM BurntForGood == Spec => []FailedClaimStaysBurnt
<1>1. IInv => FailedClaimStaysBurnt
  BY DEF IInv
<1> QED
  BY <1>1, Invariance, PTL

----
(***************************************************************************)
(* Why a claim is refused as a reuse.                                      *)
(***************************************************************************)
Cause(c) == lost[c] \/ \E d \in Claim \ {c} : sess[d] = sess[c] /\ st[d] # "idle"

\* Log entries and requests belong to calls that started, of the entry's session.
BurnsHaveCalls ==
    \A n \in Node, s \in Session :
        log[n][s] # NoClaim => sess[log[n][s]] = s /\ st[log[n][s]] # "idle"
RequestsHaveCalls == \A r \in reqs : st[r.claim] # "idle"

\* A call that lost no answer asked each peer at most once, and no peer burnt the
\* id for it before it is asked or while the request is on its way.
AskedOnce ==
    \A c \in Claim : ~lost[c] =>
        /\ \A p \in todo[c] : log[p][sess[c]] # c
        /\ \A r \in reqs : r.claim = c => r.try = 1 /\ r.to \notin todo[c] /\ log[r.to][sess[c]] # c

\* An answer "seen", read or unread, has a cause.
SeenHasCause == \A c \in Claim : seen[c] \/ resp[c] = "seen" => Cause(c)

CauseInv ==
    /\ BurnsHaveCalls
    /\ RequestsHaveCalls
    /\ AskedOnce
    /\ SeenHasCause
    /\ RefusalHasCause

\* Calls do not become idle again and losses stay on record.
Onward ==
    /\ sess' = sess
    /\ \A c \in Claim : (st[c] # "idle" => st'[c] # "idle") /\ (lost[c] => lost'[c])

LEMMA CausesStay ==
    ASSUME Onward, NEW c \in Claim, Cause(c)
    PROVE  Cause(c)'
  BY DEF Onward, Cause

LEMMA CauseInit == Init => CauseInv
<1> SUFFICES ASSUME Init PROVE CauseInv
  OBVIOUS
<1> USE DEF Init
<1>1. BurnsHaveCalls /\ RequestsHaveCalls
  BY DEF BurnsHaveCalls, RequestsHaveCalls
<1>2. AskedOnce /\ SeenHasCause /\ RefusalHasCause
  BY DEF AskedOnce, SeenHasCause, RefusalHasCause
<1> QED
  BY <1>1, <1>2 DEF CauseInv

\* Verdicts and answers that were there before, or follow from such, have a cause.
LEMMA VerdictsStay ==
    ASSUME CauseInv, Onward,
           \A c \in Claim : seen'[c] \/ resp'[c] = "seen" => seen[c] \/ resp[c] = "seen" \/ Cause(c),
           \A c \in Claim : st'[c] = "reuse" => st[c] = "reuse" \/ seen[c] \/ Cause(c)
    PROVE  SeenHasCause' /\ RefusalHasCause'
<1>1. SeenHasCause'
  <2> SUFFICES ASSUME NEW c \in Claim, seen'[c] \/ resp'[c] = "seen" PROVE Cause(c)'
    BY DEF SeenHasCause
  <2>1. Cause(c)
    BY DEF CauseInv, SeenHasCause
  <2> QED
    BY <2>1, CausesStay
<1>2. RefusalHasCause'
  <2> SUFFICES ASSUME NEW c \in Claim, st'[c] = "reuse" PROVE Cause(c)'
    BY DEF RefusalHasCause, Cause
  <2>1. Cause(c)
    BY DEF CauseInv, SeenHasCause, RefusalHasCause, Cause
  <2> QED
    BY <2>1, CausesStay
<1> QED
  BY <1>1, <1>2

\* A step that writes no log and sends nothing.
LEMMA QuietStep ==
    ASSUME TypeOK, CauseInv, Onward, log' = log, reqs' \subseteq reqs,
           \A c \in Claim : todo'[c] \subseteq todo[c],
           \A c \in Claim : seen'[c] \/ resp'[c] = "seen" => seen[c] \/ resp[c] = "seen" \/ Cause(c),
           \A c \in Claim : st'[c] = "reuse" => st[c] = "reuse" \/ seen[c] \/ Cause(c)
    PROVE  CauseInv'
<1>1. BurnsHaveCalls'
  BY DEF CauseInv, BurnsHaveCalls, Onward, TypeOK
<1>2. RequestsHaveCalls'
  BY DEF CauseInv, RequestsHaveCalls, Onward, TypeOK, Request
<1>3. AskedOnce'
  <2> SUFFICES ASSUME NEW c \in Claim, ~lost'[c]
               PROVE  /\ \A p \in todo'[c] : log[p][sess[c]] # c
                      /\ \A r \in reqs' : r.claim = c =>
                            r.try = 1 /\ r.to \notin todo'[c] /\ log[r.to][sess[c]] # c
    BY DEF AskedOnce, Onward
  <2>1. ~lost[c]
    BY DEF Onward
  <2> QED
    BY <2>1 DEF CauseInv, AskedOnce
<1>4. SeenHasCause' /\ RefusalHasCause'
  BY VerdictsStay
<1> QED
  BY <1>1, <1>2, <1>3, <1>4 DEF CauseInv

\* The id is burnt on node n for call c, which asks nobody there any more.
LEMMA BurnStep ==
    ASSUME TypeOK, TypeOK', CauseInv, Onward, NEW c \in Claim, NEW n \in Node,
           log' = [log EXCEPT ![n][sess[c]] = c], log[n][sess[c]] = NoClaim,
           reqs' \subseteq reqs, st'[c] # "idle",
           \A d \in Claim : todo'[d] = todo[d] \/ (d = c /\ st[c] = "idle"),
           ~lost[c] => n \notin todo'[c] /\ \A r \in reqs' : r.claim = c => r.to # n,
           \A d \in Claim : seen'[d] \/ resp'[d] = "seen" => seen[d] \/ resp[d] = "seen" \/ Cause(d),
           \A d \in Claim : st'[d] = "reuse" => st[d] = "reuse" \/ seen[d] \/ Cause(d)
    PROVE  CauseInv'
<1>0. sess[c] \in Session /\ sess' = sess /\ c # NoClaim /\ todo'[c] \in SUBSET todo'[c]
  BY ClaimAssumption DEF TypeOK, Onward
<1>1. \A m \in Node, s \in Session :
          log'[m][s] = IF m = n /\ s = sess[c] THEN c ELSE log[m][s]
  BY <1>0 DEF TypeOK
<1>2. BurnsHaveCalls'
  <2> SUFFICES ASSUME NEW m \in Node, NEW s \in Session, log'[m][s] # NoClaim
               PROVE  sess[log'[m][s]] = s /\ st'[log'[m][s]] # "idle"
    BY <1>0 DEF BurnsHaveCalls
  <2>1. CASE m = n /\ s = sess[c]
    BY <1>1, <2>1
  <2>2. CASE ~ (m = n /\ s = sess[c])
    <3>1. log'[m][s] = log[m][s] /\ log[m][s] \in Claim
      BY <1>1, <2>2 DEF TypeOK
    <3> QED
      BY <3>1 DEF CauseInv, BurnsHaveCalls, Onward
  <2> QED
    BY <2>1, <2>2
<1>3. RequestsHaveCalls'
  BY DEF CauseInv, RequestsHaveCalls, Onward, TypeOK, Request
<1>4. AskedOnce'
  <2> SUFFICES ASSUME NEW d \in Claim, ~lost'[d]
               PROVE  /\ \A p \in todo'[d] : p \in Node => log'[p][sess[d]] # d
                      /\ \A r \in reqs' : r.claim = d =>
                            r.try = 1 /\ r.to \notin todo'[d] /\ log'[r.to][sess[d]] # d
    BY <1>0 DEF AskedOnce, TypeOK
  <2>1. ~lost[d] /\ sess[d] \in Session
    BY DEF Onward, TypeOK
  <2>2. ASSUME NEW p \in todo'[d], p \in Node PROVE log'[p][sess[d]] # d
    <3>1. CASE todo'[d] = todo[d]
      BY <1>1, <2>1, <2>2, <3>1 DEF CauseInv, AskedOnce
    <3>2. CASE d = c /\ st[c] = "idle"
      <4>1. p # n
        BY <2>1, <2>2, <3>2
      <4>2. log[p][sess[c]] # c
        BY <1>0, <2>2, <3>2 DEF CauseInv, BurnsHaveCalls
      <4> QED
        BY <1>1, <2>1, <2>2, <3>2, <4>1, <4>2
    <3> QED
      BY <3>1, <3>2
  <2>3. ASSUME NEW r \in reqs', r.claim = d
        PROVE  r.try = 1 /\ r.to \notin todo'[d] /\ log'[r.to][sess[d]] # d
    <3>1. r \in reqs /\ r.to \in Node /\ st[d] # "idle"
      BY <2>3 DEF TypeOK, Request, CauseInv, RequestsHaveCalls
    <3>2. r.try = 1 /\ r.to \notin todo[d] /\ log[r.to][sess[d]] # d
      BY <2>1, <2>3, <3>1 DEF CauseInv, AskedOnce
    <3>3. todo'[d] = todo[d] /\ ~ (d = c /\ r.to = n)
      BY <2>1, <2>3, <3>1
    <3> QED
      BY <1>1, <2>1, <3>1, <3>2, <3>3
  <2> QED
    BY <2>2, <2>3
<1>5. SeenHasCause' /\ RefusalHasCause'
  BY VerdictsStay
<1> QED
  BY <1>2, <1>3, <1>4, <1>5 DEF CauseInv

\* Every step of the ledger keeps the causes.
LEMMA CauseStep ==
    ASSUME TypeOK, TypeOK', CauseInv, [Next]_vars
    PROVE  CauseInv'
<1>1. ASSUME NEW c \in Claim, BurnLocal(c) PROVE CauseInv'
  <2> USE <1>1 DEF BurnLocal
  <2>1. /\ st[c] = "idle" /\ sess' = sess /\ lost' = lost /\ seen' = seen /\ resp' = resp
        /\ reqs' = reqs /\ node[c] \in Node /\ sess[c] \in Session
        /\ st \in [Claim -> {"idle", "crashed"} \cup Running \cup Returned]
    BY DEF TypeOK
  <2>2. ASSUME log[node[c]][sess[c]] # NoClaim PROVE CauseInv'
    <3> DEFINE d == log[node[c]][sess[c]]
    <3>1. d \in Claim /\ sess[d] = sess[c] /\ st[d] # "idle"
      BY <2>1, <2>2 DEF TypeOK, CauseInv, BurnsHaveCalls
    <3>2. Cause(c)
      BY <2>1, <3>1 DEF Cause
    <3>3. st' = [st EXCEPT ![c] = "reuse"] /\ log' = log /\ todo' = todo
      BY <2>2
    <3>4. Onward
      BY <2>1, <3>3 DEF Onward
    <3>5. \A e \in Claim : st'[e] = "reuse" => st[e] = "reuse" \/ seen[e] \/ Cause(e)
      BY <2>1, <3>2, <3>3
    <3> QED
      BY <2>1, <3>3, <3>4, <3>5, QuietStep
  <2>3. ASSUME log[node[c]][sess[c]] = NoClaim PROVE CauseInv'
    <3>1. /\ st' = [st EXCEPT ![c] = "fanout"]
          /\ log' = [log EXCEPT ![node[c]][sess[c]] = c]
          /\ todo' = [todo EXCEPT ![c] = Node \ {node[c]}]
      BY <2>3
    <3>2. st'[c] = "fanout" /\ \A e \in Claim \ {c} : st'[e] = st[e]
      BY <2>1, <3>1
    <3>3. Onward
      BY <2>1, <3>2 DEF Onward
    <3>4. node[c] \notin todo'[c] /\ \A e \in Claim : todo'[e] = todo[e] \/ (e = c /\ st[c] = "idle")
      BY <2>1, <3>1 DEF TypeOK
    <3>5. \A r \in reqs' : r.claim # c
      BY <2>1 DEF CauseInv, RequestsHaveCalls
    <3>6. \A e \in Claim : st'[e] = "reuse" => st[e] = "reuse" \/ seen[e] \/ Cause(e)
      BY <3>2
    <3>7. PICK n \in Node : n = node[c]
      BY <2>1
    <3> HIDE <1>1 DEF BurnLocal
    <3>8. log' = [log EXCEPT ![n][sess[c]] = c] /\ log[n][sess[c]] = NoClaim /\ n \notin todo'[c]
      BY <2>3, <3>1, <3>4, <3>7
    <3>9. reqs' \subseteq reqs /\ st'[c] # "idle"
      BY <2>1, <3>2
    <3>10. \A e \in Claim : seen'[e] \/ resp'[e] = "seen" => seen[e] \/ resp[e] = "seen" \/ Cause(e)
      BY <2>1
    <3> QED
      BY <3>3, <3>4, <3>5, <3>6, <3>8, <3>9, <3>10, BurnStep
  <2> QED
    BY <2>2, <2>3
<1>2. ASSUME NEW c \in Claim, NEW p \in Node, SendPrepare(c, p) PROVE CauseInv'
  <2> USE <1>2 DEF SendPrepare
  <2>1. /\ st[c] = "fanout" /\ p \in todo[c] /\ log' = log /\ sess' = sess /\ lost' = lost
        /\ seen' = seen /\ resp' = resp
        /\ st'[c] = "waiting" /\ \A e \in Claim \ {c} : st'[e] = st[e]
        /\ \A e \in Claim : todo'[e] \subseteq todo[e]
        /\ p \notin todo'[c]
        /\ sess[c] \in Session
    BY DEF TypeOK
  <2>2. \A r \in reqs' : r \in reqs \/ (r.claim = c /\ r.to = p /\ r.try = 1)
    OBVIOUS
  <2> HIDE <1>2 DEF SendPrepare
  <2>3. Onward
    BY <2>1 DEF Onward
  <2>4. BurnsHaveCalls'
    BY <2>1, <2>3 DEF CauseInv, BurnsHaveCalls, Onward, TypeOK
  <2>5. RequestsHaveCalls'
    <3> SUFFICES ASSUME NEW r \in reqs' PROVE st'[r.claim] # "idle"
      BY DEF RequestsHaveCalls
    <3>1. CASE r \in reqs
      BY <2>3, <3>1 DEF CauseInv, RequestsHaveCalls, Onward, TypeOK, Request
    <3>2. CASE r.claim = c
      BY <2>1, <3>2
    <3> QED
      BY <2>2, <3>1, <3>2
  <2>6. AskedOnce'
    <3> SUFFICES ASSUME NEW e \in Claim, ~lost[e]
                 PROVE  /\ \A q \in todo'[e] : log[q][sess[e]] # e
                        /\ \A r \in reqs' : r.claim = e =>
                              r.try = 1 /\ r.to \notin todo'[e] /\ log[r.to][sess[e]] # e
      BY <2>1 DEF AskedOnce
    <3>1. \A q \in todo[e] : log[q][sess[e]] # e
      BY DEF CauseInv, AskedOnce
    <3>2. ASSUME NEW r \in reqs', r.claim = e
          PROVE  r.try = 1 /\ r.to \notin todo'[e] /\ log[r.to][sess[e]] # e
      <4>1. CASE r \in reqs
        BY <2>1, <3>2, <4>1 DEF CauseInv, AskedOnce
      <4>2. CASE r.claim = c /\ r.to = p /\ r.try = 1
        BY <2>1, <3>1, <3>2, <4>2
      <4> QED
        BY <2>2, <4>1, <4>2
    <3> QED
      BY <2>1, <3>1, <3>2
  <2>7. SeenHasCause' /\ RefusalHasCause'
    BY <2>1, <2>3, VerdictsStay
  <2> QED
    BY <2>4, <2>5, <2>6, <2>7 DEF CauseInv
<1>3. ASSUME NEW c \in Claim, AttemptFails(c) PROVE CauseInv'
  <2> USE <1>3 DEF AttemptFails
  <2>1. /\ st[c] = "waiting" /\ log' = log /\ sess' = sess /\ todo' = todo /\ seen' = seen
        /\ lost'[c] /\ \A e \in Claim \ {c} : lost'[e] = lost[e]
        /\ \A e \in Claim : resp'[e] = "seen" => resp[e] = "seen"
    BY DEF TypeOK
  <2>2. st'[c] \in Running /\ \A e \in Claim \ {c} : st'[e] = st[e]
    BY DEF TypeOK, Running
  <2>3. \A r \in reqs' : r \in reqs \/ r.claim = c
    OBVIOUS
  <2> HIDE <1>3 DEF AttemptFails
  <2>4. Onward
    BY <2>1, <2>2 DEF Onward, Running
  <2>5. BurnsHaveCalls'
    BY <2>1, <2>4 DEF CauseInv, BurnsHaveCalls, Onward, TypeOK
  <2>6. RequestsHaveCalls'
    <3> SUFFICES ASSUME NEW r \in reqs' PROVE st'[r.claim] # "idle"
      BY DEF RequestsHaveCalls
    <3>1. CASE r \in reqs
      BY <2>4, <3>1 DEF CauseInv, RequestsHaveCalls, Onward, TypeOK, Request
    <3>2. CASE r.claim = c
      BY <2>2, <3>2 DEF Running
    <3> QED
      BY <2>3, <3>1, <3>2
  <2>7. AskedOnce'
    <3> SUFFICES ASSUME NEW e \in Claim, ~lost'[e]
                 PROVE  /\ \A q \in todo[e] : log[q][sess[e]] # e
                        /\ \A r \in reqs' : r.claim = e =>
                              r.try = 1 /\ r.to \notin todo[e] /\ log[r.to][sess[e]] # e
      BY <2>1 DEF AskedOnce
    <3>1. e # c /\ ~lost[e]
      BY <2>1
    <3> QED
      BY <2>3, <3>1 DEF CauseInv, AskedOnce
  <2>8. SeenHasCause' /\ RefusalHasCause'
    <3>1. \A e \in Claim : st'[e] = "reuse" => st[e] = "reuse"
      BY <2>2 DEF Running
    <3> QED
      BY <2>1, <2>4, <3>1, VerdictsStay
  <2> QED
    BY <2>5, <2>6, <2>7, <2>8 DEF CauseInv
<1>4. ASSUME NEW c \in Claim, LocalAppendError(c) \/ ClientError(c) \/ FinishClaim(c) PROVE CauseInv'
  <2> USE <1>4 DEF LocalAppendError, ClientError, FinishClaim, claimVars
  <2>1. /\ log' = log /\ sess' = sess /\ lost' = lost /\ seen' = seen /\ todo' = todo
        /\ reqs' = reqs /\ resp' = resp
    OBVIOUS
  <2>2. \A e \in Claim \ {c} : st'[e] = st[e]
    BY DEF TypeOK
  <2>3. st'[c] # "idle" /\ (st'[c] = "reuse" => seen[c])
    BY DEF TypeOK, Verdict
  <2>4. Onward
    BY <2>1, <2>2, <2>3 DEF Onward
  <2> HIDE <1>4 DEF LocalAppendError, ClientError, FinishClaim
  <2> QED
    BY <2>1, <2>2, <2>3, <2>4, QuietStep
<1>5. ASSUME NEW c \in Claim, ReceiveAck(c) \/ ReceiveTruncated(c) \/ ReceiveRefusal(c) PROVE CauseInv'
  <2> USE <1>5 DEF ReceiveAck, ReceiveTruncated, ReceiveRefusal, claimVars
  <2>1. log' = log /\ sess' = sess /\ todo' = todo /\ reqs' = reqs
    OBVIOUS
  <2>2. st'[c] # "idle" /\ st'[c] # "reuse" /\ \A e \in Claim \ {c} : st'[e] = st[e]
    BY DEF TypeOK
  <2>3. \A e \in Claim : lost[e] => lost'[e]
    BY DEF TypeOK
  <2>4. \A e \in Claim : resp'[e] = "seen" => resp[e] = "seen"
    BY DEF TypeOK
  <2>5. \A e \in Claim : seen'[e] => seen[e] \/ resp[e] = "seen"
    BY DEF TypeOK
  <2>6. Onward
    BY <2>1, <2>2, <2>3 DEF Onward
  <2> HIDE <1>5 DEF ReceiveAck, ReceiveTruncated, ReceiveRefusal
  <2> QED
    BY <2>1, <2>2, <2>4, <2>5, <2>6, QuietStep
<1>6. ASSUME NEW r \in reqs, HandlePrepare(r) PROVE CauseInv'
  <2> USE <1>6 DEF HandlePrepare, claimVars
  <2>1. /\ r.claim \in Claim /\ r.to \in Node /\ r.try \in 1..MaxRetries
        /\ r = [claim |-> r.claim, to |-> r.to, try |-> r.try]
        /\ sess[r.claim] \in Session
    BY DEF TypeOK, Request
  <2>2. /\ st' = st /\ sess' = sess /\ lost' = lost /\ seen' = seen /\ todo' = todo
        /\ reqs' = reqs \ {r}
    OBVIOUS
  <2>3. Onward
    BY <2>2 DEF Onward
  <2>4. st[r.claim] # "idle"
    BY DEF CauseInv, RequestsHaveCalls
  <2>5. ASSUME log[r.to][sess[r.claim]] # NoClaim PROVE CauseInv'
    <3> DEFINE d == log[r.to][sess[r.claim]]
    <3>1. log' = log /\ Reply(r, "seen")
      BY <2>5
    <3>2. d \in Claim /\ sess[d] = sess[r.claim] /\ st[d] # "idle"
      BY <2>1, <2>5 DEF TypeOK, CauseInv, BurnsHaveCalls
    <3>3. d = r.claim => lost[r.claim]
      BY <2>1 DEF CauseInv, AskedOnce
    <3>4. Cause(r.claim)
      BY <2>1, <3>2, <3>3 DEF Cause
    <3>5. \A e \in Claim : resp'[e] = "seen" => resp[e] = "seen" \/ e = r.claim
      BY <2>1, <3>1 DEF Reply, TypeOK
    <3> HIDE <1>6 DEF HandlePrepare
    <3> QED
      BY <2>2, <2>3, <3>1, <3>4, <3>5, QuietStep
  <2>6. ASSUME log[r.to][sess[r.claim]] = NoClaim PROVE CauseInv'
    <3>1. log' = [log EXCEPT ![r.to][sess[r.claim]] = r.claim] /\ Reply(r, "fresh")
      BY <2>6
    <3> HIDE <1>6 DEF HandlePrepare
    <3>2. \A e \in Claim : resp'[e] = "seen" => resp[e] = "seen"
      BY <2>1, <3>1 DEF Reply, TypeOK
    <3>3. ASSUME ~lost[r.claim]
          PROVE  r.to \notin todo'[r.claim] /\ \A q \in reqs' : q.claim = r.claim => q.to # r.to
      <4>1. r.try = 1 /\ r.to \notin todo[r.claim]
        BY <2>1, <3>3, <1>6 DEF CauseInv, AskedOnce
      <4>2. ASSUME NEW q \in reqs', q.claim = r.claim PROVE q.to # r.to
        <5>1. q \in reqs /\ q # r /\ q = [claim |-> q.claim, to |-> q.to, try |-> q.try]
          BY <2>2 DEF TypeOK, Request
        <5>2. q.try = 1
          BY <2>1, <3>3, <4>2, <5>1 DEF CauseInv, AskedOnce
        <5> QED
          BY <2>1, <4>1, <4>2, <5>1, <5>2
      <4> QED
        BY <2>2, <4>1, <4>2
    <3>4. \A e \in Claim : todo'[e] = todo[e]
      BY <2>2
    <3>5. PICK c \in Claim, n \in Node : c = r.claim /\ n = r.to
      BY <2>1
    <3>6. /\ log' = [log EXCEPT ![n][sess[c]] = c] /\ log[n][sess[c]] = NoClaim
          /\ st'[c] # "idle" /\ reqs' \subseteq reqs
      BY <2>2, <2>4, <2>6, <3>1, <3>5
    <3>7. ~lost[c] => n \notin todo'[c] /\ \A q \in reqs' : q.claim = c => q.to # n
      BY <3>3, <3>5
    <3>8. /\ \A e \in Claim : seen'[e] \/ resp'[e] = "seen" => seen[e] \/ resp[e] = "seen" \/ Cause(e)
          /\ \A e \in Claim : st'[e] = "reuse" => st[e] = "reuse" \/ seen[e] \/ Cause(e)
      BY <2>2, <3>2
    <3> QED
      BY <2>3, <3>4, <3>6, <3>7, <3>8, BurnStep
  <2> QED
    BY <2>5, <2>6
<1>7. ASSUME NEW r \in reqs, RefusePrepare(r) PROVE CauseInv'
  <2>1. /\ st' = st /\ sess' = sess /\ lost' = lost /\ seen' = seen /\ todo' = todo
        /\ reqs' \subseteq reqs /\ log' = log
    BY <1>7 DEF RefusePrepare, claimVars
  <2>2. \A e \in Claim : resp'[e] = "seen" => resp[e] = "seen"
    BY <1>7 DEF RefusePrepare, Reply, TypeOK, Request
  <2>3. Onward
    BY <2>1 DEF Onward
  <2> QED
    BY <2>1, <2>2, <2>3, QuietStep
<1>8. ASSUME NEW n \in Node, CrashRestart(n) PROVE CauseInv'
  <2>1. /\ sess' = sess /\ lost' = lost /\ seen' = seen /\ todo' = todo
        /\ reqs' = reqs /\ log' = log
        /\ \A e \in Claim : resp'[e] = "seen" => resp[e] = "seen"
        /\ \A e \in Claim : st'[e] = st[e] \/ st'[e] = "crashed"
    BY <1>8 DEF CrashRestart, claimVars
  <2>2. Onward
    BY <2>1 DEF Onward
  <2> QED
    BY <2>1, <2>2, QuietStep
<1>9. CASE UNCHANGED <<log, st, claimVars, reqs, resp>>
  <2>1. Onward
    BY <1>9 DEF Onward, claimVars
  <2> QED
    BY <1>9, <2>1, QuietStep DEF claimVars
<1>10. ASSUME NEW n \in Node, NEW s \in Session, SoftPrepare(n, s) \/ SoftExpires(n, s) PROVE CauseInv'
  BY <1>9, <1>10 DEF SoftPrepare, SoftExpires
<1> QED
  BY <1>1, <1>2, <1>3, <1>4, <1>5, <1>6, <1>7, <1>8, <1>9, <1>10 DEF Next, Step, vars

\* A claim is refused as a reuse only because another call of the same session
\* id started, or because it lost an answer and met its own burn on the retry.
THEOREM RefusalsHaveCauses == Spec => []RefusalHasCause
<1>1. Init => TypeOK /\ CauseInv
  BY InitInv, CauseInit DEF IInv
<1>2. TypeOK /\ CauseInv /\ [Next]_vars => (TypeOK /\ CauseInv)'
  BY TypeStep, CauseStep
<1>3. CauseInv => RefusalHasCause
  BY DEF CauseInv
<1> QED
  BY <1>1, <1>2, <1>3, PTL DEF Spec

----
(***************************************************************************)
(* AntiNonce implements SessionGrant.                                      *)
(***************************************************************************)

\* What GrantedTo returns, without its CHOOSE.
GrantFacts ==
    \A s \in Session :
        /\ \A c \in Claim : st[c] = "ok" /\ sess[c] = s => GrantedTo(s) = c
        /\ (\A c \in Claim : ~(st[c] = "ok" /\ sess[c] = s)) => GrantedTo(s) = NoClaim

\* With one winner at most, GrantedTo names that winner.
LEMMA GrantIsWinner == AtMostOneWinner => GrantFacts
<1> SUFFICES ASSUME AtMostOneWinner, NEW s \in Session
             PROVE  /\ \A c \in Claim : st[c] = "ok" /\ sess[c] = s => GrantedTo(s) = c
                    /\ (\A c \in Claim : ~(st[c] = "ok" /\ sess[c] = s)) => GrantedTo(s) = NoClaim
  BY DEF GrantFacts
<1>1. ASSUME NEW c \in Claim, st[c] = "ok", sess[c] = s PROVE GrantedTo(s) = c
  <2>1. GrantedTo(s) = CHOOSE d \in Claim : st[d] = "ok" /\ sess[d] = s
    BY <1>1 DEF GrantedTo
  <2>2. GrantedTo(s) \in Claim /\ st[GrantedTo(s)] = "ok" /\ sess[GrantedTo(s)] = s
    BY <1>1, <2>1
  <2> QED
    BY <1>1, <2>2 DEF AtMostOneWinner
<1>2. ASSUME \A c \in Claim : ~(st[c] = "ok" /\ sess[c] = s) PROVE GrantedTo(s) = NoClaim
  BY <1>2 DEF GrantedTo
<1> QED
  BY <1>1, <1>2

\* An Ok is never taken back, and one step returns Ok to one claim at most.
LEMMA WinnersOnlyGrow ==
    ASSUME TypeOK, [Next]_vars
    PROVE  /\ sess' = sess
           /\ \/ \A c \in Claim : st'[c] = "ok" <=> st[c] = "ok"
              \/ \E d \in Claim :
                    /\ st[d] # "ok" /\ st'[d] = "ok"
                    /\ \A c \in Claim \ {d} : st'[c] = st[c]
<1> USE DEF TypeOK, Running, claimVars
<1>1. ASSUME NEW c \in Claim, FinishClaim(c)
      PROVE  /\ sess' = sess
             /\ st[c] # "ok"
             /\ \A e \in Claim \ {c} : st'[e] = st[e]
  BY <1>1 DEF FinishClaim
<1>2. ASSUME NEW n \in Node, CrashRestart(n)
      PROVE  sess' = sess /\ \A c \in Claim : st'[c] = "ok" <=> st[c] = "ok"
  BY <1>2 DEF CrashRestart
<1>3. ASSUME NEW c \in Claim, Step(c), ~FinishClaim(c)
      PROVE  sess' = sess /\ \A e \in Claim : st'[e] = "ok" <=> st[e] = "ok"
  <2>1. CASE BurnLocal(c)
    <3>1. sess' = sess /\ st[c] = "idle" /\ (st' = [st EXCEPT ![c] = "reuse"] \/ st' = [st EXCEPT ![c] = "fanout"])
      BY <2>1 DEF BurnLocal
    <3> QED
      BY <3>1
  <2>2. CASE AttemptFails(c)
    <3>1. sess' = sess /\ st[c] = "waiting" /\ (st' = st \/ st' = [st EXCEPT ![c] = "fanout"])
      BY <2>2 DEF AttemptFails
    <3> QED
      BY <3>1
  <2>3. CASE LocalAppendError(c) \/ ClientError(c)
    BY <2>3 DEF LocalAppendError, ClientError
  <2>4. ASSUME NEW p \in Node, SendPrepare(c, p)
        PROVE  sess' = sess /\ \A e \in Claim : st'[e] = "ok" <=> st[e] = "ok"
    BY <2>4 DEF SendPrepare
  <2>5. CASE ReceiveAck(c)
    BY <2>5 DEF ReceiveAck
  <2>6. CASE ReceiveTruncated(c) \/ ReceiveRefusal(c)
    BY <2>6 DEF ReceiveTruncated, ReceiveRefusal
  <2> QED
    BY <1>3, <2>1, <2>2, <2>3, <2>4, <2>5, <2>6 DEF Step
<1>4. CASE UNCHANGED <<sess, st>>
  BY <1>4
<1> QED
  BY <1>1, <1>2, <1>3, <1>4 DEF Next, vars, HandlePrepare, RefusePrepare, SoftPrepare, SoftExpires

\* One step of the ledger is one grant of a session nobody had, or a stutter.
LEMMA GrantStep ==
    ASSUME TypeOK, AtMostOneWinner, AtMostOneWinner', GrantFacts, GrantFacts', [Next]_vars
    PROVE  [Abstract!GrantNext]_([s \in Session |-> GrantedTo(s)])
<1> DEFINE g == [s \in Session |-> GrantedTo(s)]
<1>1. sess' = sess
  BY WinnersOnlyGrow
<1>2. CASE \A c \in Claim : st'[c] = "ok" <=> st[c] = "ok"
  <2>1. ASSUME NEW s \in Session PROVE GrantedTo(s)' = GrantedTo(s)
    <3>1. CASE \E c \in Claim : st[c] = "ok" /\ sess[c] = s
      BY <1>1, <1>2, <3>1 DEF GrantFacts
    <3>2. CASE \A c \in Claim : ~(st[c] = "ok" /\ sess[c] = s)
      BY <1>1, <1>2, <3>2 DEF GrantFacts
    <3> QED
      BY <3>1, <3>2
  <2>2. g' = g
    BY <2>1
  <2> QED
    BY <2>2
<1>3. ASSUME NEW d \in Claim, st[d] # "ok", st'[d] = "ok",
             \A c \in Claim \ {d} : st'[c] = st[c]
      PROVE  Abstract!GrantNext
  <2>1. sess[d] \in Session
    BY DEF TypeOK
  <2>2. \A c \in Claim : ~(st[c] = "ok" /\ sess[c] = sess[d])
    BY <1>1, <1>3 DEF AtMostOneWinner
  <2>3. GrantedTo(sess[d]) = NoClaim
    BY <2>1, <2>2 DEF GrantFacts
  <2>6. \A s \in Session : s = sess[d] => GrantedTo(s)' = d
    BY <1>1, <1>3 DEF GrantFacts
  <2>4. ASSUME NEW s \in Session, s # sess[d] PROVE GrantedTo(s)' = GrantedTo(s)
    <3>1. CASE \E c \in Claim : st[c] = "ok" /\ sess[c] = s
      BY <1>1, <1>3, <2>4, <3>1 DEF GrantFacts
    <3>2. CASE \A c \in Claim : ~(st[c] = "ok" /\ sess[c] = s)
      BY <1>1, <1>3, <2>4, <3>2 DEF GrantFacts
    <3> QED
      BY <3>1, <3>2
  <2>5. g' = [g EXCEPT ![sess[d]] = d]
    <3>1. \A s \in Session : GrantedTo(s)' = [g EXCEPT ![sess[d]] = d][s]
      BY <2>1, <2>4, <2>6
    <3> QED
      BY <3>1
  <2> QED
    BY <2>1, <2>3, <2>5 DEF Abstract!GrantNext, Abstract!Grant
<1> QED
  BY <1>2, <1>3, WinnersOnlyGrow

\* The anti-nonce protocol implements the abstract grant of session ids: a
\* session is granted once in the mesh and never changes hands.
THEOREM Refinement == Spec => ImplementsGrant
<1>1. Init => Abstract!GrantInit
  BY DEF Init, Abstract!GrantInit, GrantedTo
<1>2. IInv => TypeOK /\ AtMostOneWinner /\ GrantFacts
  BY InvImpliesOneWinner, GrantIsWinner DEF IInv
<1>3. TypeOK /\ AtMostOneWinner /\ AtMostOneWinner' /\ GrantFacts /\ GrantFacts' /\ [Next]_vars
        => [Abstract!GrantNext]_([s \in Session |-> GrantedTo(s)])
  BY GrantStep
<1> QED
  BY <1>1, <1>2, <1>3, Invariance, PTL DEF Spec, ImplementsGrant, Abstract!GrantSpec
----
(***************************************************************************)
(* The append that AntiNonce takes as one step, for both logs.             *)
(*                                                                         *)
(* An id that was reported as not seen is on the disk alone on its line,   *)
(* or its text met that of another id on an unfinished line.  Where the    *)
(* mutex is held an unfinished line is the running append's or what a cut  *)
(* append left, so that each cut spoils one id at most: the debris it left *)
(* pays for the id that is appended to it.                                 *)
(***************************************************************************)

\* The mutex: at most one thread is between its check and its insert.
OneWriter == held => \A v, w \in Writer : pc[v] # "idle" /\ pc[w] # "idle" => v = w

\* How far the id of a thread got.
Progressed ==
    \A w \in Writer :
        /\ pc[w] # "idle" => arg[w] \in Id
        /\ pc[w] = "write_newline" => arg[w] \in lines \cup spoilt \/ tail = <<arg[w]>>
        /\ pc[w] \in {"sync", "insert"} => arg[w] \in lines \cup spoilt
        /\ pc[w] = "insert" => arg[w] \in disk.lines \cup spoilt

FreshHasLine == fresh \subseteq lines \cup spoilt /\ fresh \subseteq disk.lines \cup spoilt

\* What a cut append left on the unfinished line, with the mutex held.
Debris == tail # <<>> /\ \A w \in Writer : pc[w] # "write_newline"

CutsPay ==
    /\ held => IsFiniteSet(spoilt)
    /\ held => disk.tail = <<>>
    /\ held => \A w \in Writer : pc[w] = "sync" => tail = <<>>
    /\ held => Cardinality(spoilt) + (IF Debris THEN 1 ELSE 0) <= cuts

LogIInv == LogTypeOK /\ OneWriter /\ Progressed /\ FreshHasLine /\ CutsPay

\* The empty log satisfies the invariant.
LEMMA LogInitInv == LogInit => LogIInv
<1> SUFFICES ASSUME LogInit PROVE LogIInv
  OBVIOUS
<1>1. LogTypeOK
  BY DEF LogInit, LogTypeOK
<1>2. OneWriter /\ Progressed /\ FreshHasLine
  BY DEF LogInit, OneWriter, Progressed, FreshHasLine
<1>3. CutsPay
  BY FS_EmptySet DEF LogInit, CutsPay, Debris
<1> QED
  BY <1>1, <1>2, <1>3 DEF LogIInv

\* Every step keeps the types.
LEMMA LogTypeStep ==
    ASSUME LogTypeOK, Progressed, [LogNext]_logVars
    PROVE  LogTypeOK'
<1> USE DEF LogTypeOK, Goto
<1>1. ASSUME NEW w \in Writer, NEW i \in Id, Check(w, i) PROVE LogTypeOK'
  BY <1>1 DEF Check
<1>2. ASSUME NEW w \in Writer, WriteId(w) PROVE LogTypeOK'
  <2>1. arg[w] \in Id /\ tail' \in Seq(Id)
    BY <1>2 DEF WriteId, Progressed
  <2>2. \A v \in Waiting : arg[v] \in Id
    BY DEF Waiting, Progressed
  <2>3. spoilt' \subseteq Id
    BY <1>2, <2>1, <2>2 DEF WriteId
  <2> QED
    BY <1>2, <2>1, <2>3 DEF WriteId
<1>3. ASSUME NEW w \in Writer, WriteNewline(w) PROVE LogTypeOK'
  BY <1>3 DEF WriteNewline, Load
<1>4. ASSUME NEW w \in Writer, Sync(w) PROVE LogTypeOK'
  BY <1>4 DEF Sync
<1>5. ASSUME NEW w \in Writer, Insert(w) PROVE LogTypeOK'
  <2>1. arg[w] \in Id
    BY <1>5 DEF Insert, Progressed
  <2> QED
    BY <1>5, <2>1 DEF Insert
<1>6. ASSUME NEW w \in Writer, AppendError(w) PROVE LogTypeOK'
  BY <1>6 DEF AppendError, Cut
<1>7. CASE ProcessDies
  BY <1>7 DEF ProcessDies, Restart, Cut, Load
<1>8. CASE PowerFails
  BY <1>8 DEF PowerFails, Restart, Cut, Load
<1> QED
  BY <1>1, <1>2, <1>3, <1>4, <1>5, <1>6, <1>7, <1>8 DEF LogNext, logVars

\* Every step keeps the mutex and where an id is.
LEMMA LogLinesStep ==
    ASSUME LogTypeOK, OneWriter, Progressed, FreshHasLine, CutsPay, [LogNext]_logVars
    PROVE  OneWriter' /\ Progressed' /\ FreshHasLine'
<1> DEFINE Kept == OneWriter' /\ Progressed' /\ FreshHasLine'
<1> USE DEF LogTypeOK, Goto
<1>1. ASSUME NEW w \in Writer, NEW i \in Id, Check(w, i) PROVE Kept
  BY <1>1 DEF Check, OneWriter, Progressed, FreshHasLine
<1>2. ASSUME NEW w \in Writer, WriteId(w) PROVE Kept
  <2>1. OneWriter' /\ FreshHasLine'
    BY <1>2 DEF WriteId, OneWriter, FreshHasLine
  <2>2. arg[w] \in Id /\ (tail = <<>> => tail' = <<arg[w]>>)
    <3>1. arg[w] \in Id /\ tail' = Append(tail, arg[w])
      BY <1>2 DEF WriteId, Progressed
    <3>2. Append(<<>>, arg[w]) = <<arg[w]>>
      BY <3>1
    <3> QED
      BY <3>1, <3>2
  <2>3. ASSUME NEW v \in Writer, v # w, pc[v] = "write_newline"
        PROVE  arg[v] \in lines \cup spoilt'
    <3>1. CASE arg[v] \in lines \cup spoilt
      BY <3>1, <1>2 DEF WriteId
    <3>2. CASE tail = <<arg[v]>>
      <4>1. 1 \in DOMAIN tail /\ tail[1] = arg[v] /\ tail # <<>>
        BY <3>2
      <4>2. v \in Waiting
        BY <2>3, <4>1 DEF Waiting
      <4> QED
        BY <1>2, <4>1, <4>2 DEF WriteId
    <3> QED
      BY <2>3, <3>1, <3>2 DEF Progressed
  <2>4. arg[w] \in spoilt' \/ tail' = <<arg[w]>>
    BY <1>2, <2>2 DEF WriteId
  <2>5. spoilt \subseteq spoilt' /\ UNCHANGED <<lines, disk, arg>>
        /\ pc' = [pc EXCEPT ![w] = "write_newline"]
    BY <1>2 DEF WriteId
  <2>6. Progressed'
    BY <2>2, <2>3, <2>4, <2>5 DEF Progressed
  <2> QED
    BY <2>1, <2>6
<1>3. ASSUME NEW w \in Writer, WriteNewline(w) PROVE Kept
  <2>1. arg[w] \in lines' \cup spoilt
    BY <1>3 DEF WriteNewline, Load, Progressed
  <2>2. \A v \in Writer : pc[v] = "write_newline" => arg[v] \in lines' \cup spoilt
    BY <1>3 DEF WriteNewline, Load, Progressed
  <2>3. Progressed'
    BY <1>3, <2>1, <2>2 DEF WriteNewline, Load, Progressed
  <2>4. OneWriter' /\ FreshHasLine'
    BY <1>3 DEF WriteNewline, Load, OneWriter, FreshHasLine
  <2> QED
    BY <2>3, <2>4
<1>4. ASSUME NEW w \in Writer, Sync(w) PROVE Kept
  <2>1. disk'.lines = lines
    BY <1>4 DEF Sync
  <2> QED
    BY <1>4, <2>1 DEF Sync, OneWriter, Progressed, FreshHasLine
<1>5. ASSUME NEW w \in Writer, Insert(w) PROVE Kept
  <2>1. arg[w] \in lines \cup spoilt /\ arg[w] \in disk.lines \cup spoilt
    BY <1>5 DEF Insert, Progressed
  <2>2. OneWriter' /\ Progressed'
    BY <1>5 DEF Insert, OneWriter, Progressed
  <2>3. FreshHasLine'
    BY <1>5, <2>1 DEF Insert, FreshHasLine
  <2> QED
    BY <2>2, <2>3
<1>6. ASSUME NEW w \in Writer, AppendError(w) PROVE Kept
  BY <1>6 DEF AppendError, OneWriter, Progressed, FreshHasLine
<1>7. CASE ProcessDies
  BY <1>7 DEF ProcessDies, Restart, OneWriter, Progressed, FreshHasLine
<1>8. CASE PowerFails
  BY <1>8 DEF PowerFails, Restart, OneWriter, Progressed, FreshHasLine
<1>9. CASE UNCHANGED logVars
  BY <1>9 DEF logVars, OneWriter, Progressed, FreshHasLine
<1> QED
  BY <1>1, <1>2, <1>3, <1>4, <1>5, <1>6, <1>7, <1>8, <1>9 DEF LogNext

\* Every step keeps the account of the cuts.
LEMMA LogCutsStep ==
    ASSUME LogTypeOK, OneWriter, Progressed, CutsPay, [LogNext]_logVars
    PROVE  CutsPay'
<1> USE DEF LogTypeOK, Goto
<1>0. held => Cardinality(spoilt) \in Nat /\ IsFiniteSet(spoilt)
  BY FS_CardinalityType DEF CutsPay
<1>1. ASSUME NEW w \in Writer, NEW i \in Id, Check(w, i) PROVE CutsPay'
  <2>1. Debris' => Debris
    BY <1>1 DEF Check, Debris
  <2> QED
    BY <1>0, <1>1, <2>1 DEF Check, CutsPay
<1>2. ASSUME NEW w \in Writer, WriteId(w) PROVE CutsPay'
  <2>1. ~Debris'
    BY <1>2 DEF WriteId, Debris
  <2>2. CASE tail = <<>>
    <3>1. held => \A v \in Writer : pc'[v] # "sync"
      BY <1>2 DEF WriteId, OneWriter
    <3> QED
      BY <1>0, <1>2, <2>1, <2>2, <3>1 DEF WriteId, CutsPay
  <2>3. CASE tail # <<>> /\ held
    <3>1. \A v \in Writer : pc[v] # "write_newline"
      BY <1>2, <2>3 DEF WriteId, OneWriter
    <3>2. Debris /\ Waiting = {}
      BY <2>3, <3>1 DEF Debris, Waiting
    <3>3. spoilt' = spoilt \cup {arg[w]}
      BY <1>2, <2>3, <3>2 DEF WriteId
    <3>4. IsFiniteSet(spoilt') /\ Cardinality(spoilt') <= Cardinality(spoilt) + 1
      <4>1. IsFiniteSet(spoilt \cup {arg[w]})
            /\ Cardinality(spoilt \cup {arg[w]}) =
                 IF arg[w] \in spoilt THEN Cardinality(spoilt) ELSE Cardinality(spoilt) + 1
        BY <1>0, <2>3, FS_AddElement
      <4> HIDE DEF LogTypeOK, Goto
      <4> QED
        BY <1>0, <2>3, <3>3, <4>1
    <3>5. Cardinality(spoilt') \in Nat
      BY <3>4, FS_CardinalityType
    <3>6. Cardinality(spoilt) + 1 <= cuts /\ UNCHANGED <<cuts, held, disk>>
      BY <1>2, <2>3, <3>2 DEF WriteId, CutsPay
    <3>7. \A v \in Writer : pc'[v] # "sync"
      BY <1>2, <2>3 DEF WriteId, OneWriter
    <3> QED
      BY <1>0, <2>1, <2>3, <3>4, <3>5, <3>6, <3>7 DEF CutsPay
  <2>4. CASE tail # <<>> /\ ~held
    BY <1>2, <2>4 DEF WriteId, CutsPay
  <2> QED
    BY <2>2, <2>3, <2>4
<1>3. ASSUME NEW w \in Writer, WriteNewline(w) PROVE CutsPay'
  <2>1. ~Debris'
    BY <1>3 DEF WriteNewline, Debris
  <2> QED
    BY <1>0, <1>3, <2>1 DEF WriteNewline, CutsPay
<1>4. ASSUME NEW w \in Writer, Sync(w) PROVE CutsPay'
  <2>1. Debris' <=> Debris
    BY <1>4 DEF Sync, Debris
  <2>2. held => Cardinality(spoilt) + (IF Debris THEN 1 ELSE 0) <= cuts
    BY DEF CutsPay
  <2>3. held => tail = <<>>
    BY <1>4 DEF Sync, CutsPay
  <2> QED
    BY <1>0, <1>4, <2>1, <2>2, <2>3 DEF Sync, CutsPay
<1>5. ASSUME NEW w \in Writer, Insert(w) PROVE CutsPay'
  <2>1. Debris' <=> Debris
    BY <1>5 DEF Insert, Debris
  <2> QED
    BY <1>0, <1>5, <2>1 DEF Insert, CutsPay
<1>6. ASSUME NEW w \in Writer, AppendError(w) PROVE CutsPay'
  <2>1. CASE pc[w] = "write_newline"
    <3>1. ~Debris /\ cuts' = cuts + 1
      BY <1>6, <2>1 DEF AppendError, Cut, Debris
    <3> QED
      BY <1>0, <1>6, <2>1, <3>1 DEF AppendError, CutsPay
  <2>2. CASE pc[w] # "write_newline"
    <3>1. (Debris' <=> Debris) /\ cuts' = cuts
      BY <1>6, <2>2 DEF AppendError, Cut, Debris
    <3> QED
      BY <1>0, <1>6, <2>2, <3>1 DEF AppendError, CutsPay
  <2> QED
    BY <2>1, <2>2
<1>7. ASSUME NEW tl, tl = tail \/ tl = disk.tail, NEW ls, Restart(ls, tl) PROVE CutsPay'
  <2>1. CASE \E w \in Writer : pc[w] = "write_newline"
    <3>1. ~Debris /\ cuts' = cuts + 1
      BY <1>7, <2>1 DEF Restart, Cut, Debris
    <3> QED
      BY <1>0, <1>7, <3>1 DEF Restart, CutsPay
  <2>2. CASE \A w \in Writer : pc[w] # "write_newline"
    <3>1. cuts' = cuts /\ (Debris' /\ held => Debris)
      BY <1>7, <2>2 DEF Restart, Cut, Debris, CutsPay
    <3> QED
      BY <1>0, <1>7, <3>1 DEF Restart, CutsPay
  <2> QED
    BY <2>1, <2>2
<1>8. CASE ProcessDies
  BY <1>7, <1>8 DEF ProcessDies
<1>9. CASE PowerFails
  BY <1>7, <1>9 DEF PowerFails
<1>10. CASE UNCHANGED logVars
  BY <1>10 DEF logVars, CutsPay, Debris
<1> QED
  BY <1>1, <1>2, <1>3, <1>4, <1>5, <1>6, <1>8, <1>9, <1>10 DEF LogNext

\* An id that a prepare reported as not seen survives every restart, by a
\* crash of the process or of the machine, in both logs, unless its text met
\* that of another id on an unfinished line; where the mutex is held that
\* happens once at most for each append cut before its newline.
THEOREM LogSurvives == LogSpec => []FreshSurvives
<1>1. LogIInv /\ [LogNext]_logVars => LogIInv'
  BY LogTypeStep, LogLinesStep, LogCutsStep DEF LogIInv
<1>2. LogIInv => FreshSurvives
  <2> SUFFICES ASSUME LogIInv PROVE FreshSurvives
    OBVIOUS
  <2>1. fresh \ Load(lines, tail) \subseteq spoilt /\ fresh \ Load(disk.lines, disk.tail) \subseteq spoilt
    BY DEF LogIInv, FreshHasLine, Load
  <2>2. held => Cardinality(spoilt) <= cuts
    BY FS_CardinalityType DEF LogIInv, LogTypeOK, CutsPay
  <2> QED
    BY <2>1, <2>2 DEF FreshSurvives
<1> QED
  BY <1>1, <1>2, LogInitInv, PTL DEF LogSpec
====
