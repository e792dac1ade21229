---- MODULE TrCosignProofs ----
(***************************************************************************)
(* No signing nonce produces two shares, a signature is aggregated from    *)
(* exactly min_signers shares, and a call fails only for a cause, for any  *)
(* mesh, any calls and any repeated, late and competing requests.          *)
(*                                                                         *)
(* A nonce is used from two places: the pending map of a peer and the      *)
(* local variable of a coordinator in its first round.  The argument is    *)
(* that a nonce is in at most one place at a time, that a nonce in either  *)
(* place has made no share, and that using it takes it out of its place.   *)
(* For the calls: the trim of a full set of commitments is exact, and as   *)
(* long as nothing was lost and no request of the session came across,     *)
(* every peer keeps the very nonce the package names.                      *)
(***************************************************************************)
EXTENDS TrCosign, FiniteSetTheorems, TLAPS

Own(c) == commits[c][Coord[c]]

\* A pending nonce was drawn, made no share, and is pending once.
PendingIsFresh ==
    \A n \in Node, s \in Session : pending[n][s] # NoNonce =>
        /\ pending[n][s] <= drawn[n]
        /\ made[n][pending[n][s]] = 0
PendingDiffers ==
    \A n \in Node, s, t \in Session : pending[n][s] # NoNonce /\ pending[n][s] = pending[n][t] => s = t

\* So is the nonce of a coordinator that has not signed yet, and no peer holds it.
OwnIsFresh ==
    \A c \in Call : pc[c] = "commit" =>
        /\ Own(c) \in Nonce
        /\ Own(c) <= drawn[Coord[c]]
        /\ made[Coord[c]][Own(c)] = 0
        /\ \A s \in Session : pending[Coord[c]][s] # Own(c)
OwnDiffers ==
    \A c, d \in Call :
        pc[c] = "commit" /\ pc[d] = "commit" /\ Coord[c] = Coord[d] /\ Own(c) = Own(d) => c = d

\* A peer still to be asked is not the coordinator; a nonce not drawn made nothing.
AsksOthers == \A c \in Call : Coord[c] \notin todo[c]
UndrawnIsUnused == \A n \in Node, i \in Nonce : i > drawn[n] => made[n][i] = 0

NonceInv ==
    /\ PendingIsFresh
    /\ PendingDiffers
    /\ OwnIsFresh
    /\ OwnDiffers
    /\ AsksOthers
    /\ UndrawnIsUnused
    /\ NonceSignsOnce

----
\* The initial state: nothing drawn, nothing pending.
LEMMA InitInv == Init => TypeOK /\ NonceInv
<1> SUFFICES ASSUME Init PROVE TypeOK /\ NonceInv
  OBVIOUS
<1>1. TypeOK
  BY BoundAssumption DEF Init, TypeOK, Where, Running, NoCommits, Request
<1>2. NonceInv
  BY DEF Init, NonceInv, PendingIsFresh, PendingDiffers, OwnIsFresh, OwnDiffers, AsksOthers,
         UndrawnIsUnused, NonceSignsOnce
<1> QED
  BY <1>1, <1>2

\* The number a node gives to its next nonce is one it has not used.
LEMMA NextNonce ==
    ASSUME TypeOK, NEW n \in Node, Draw(n)
    PROVE  /\ drawn[n] + 1 \in Nonce
           /\ drawn[n] + 1 > drawn[n]
           /\ drawn' = [drawn EXCEPT ![n] = drawn[n] + 1]
           /\ drawn' \in [Node -> 0..MaxNonces]
           /\ drawn'[n] = drawn[n] + 1
           /\ \A m \in Node : drawn[m] <= drawn'[m]
  BY BoundAssumption DEF TypeOK, Draw, Nonce

\* The handlers keep the types of what they write.
LEMMA HandleCommitType ==
    ASSUME TypeOK, NEW n \in Node, NEW s \in Session, HandleCommit(n, s)
    PROVE  /\ pending' \in [Node -> [Session -> Nonce \cup {NoNonce}]]
           /\ drawn' \in [Node -> 0..MaxNonces]
           /\ drawn[n] + 1 \in Nonce
<1>1. drawn[n] + 1 \in Nonce /\ drawn' \in [Node -> 0..MaxNonces]
  BY NextNonce DEF HandleCommit
<1> QED
  BY <1>1 DEF HandleCommit, TypeOK

LEMMA SignWithType ==
    ASSUME TypeOK, NEW n \in Node, NEW i \in Nonce, SignWith(n, i)
    PROVE  made' \in [Node -> [Nonce -> Nat]]
<1>1. made[n] \in [Nonce -> Nat] /\ made[n][i] + 1 \in Nat
  BY DEF TypeOK
<1>2. [made[n] EXCEPT ![i] = made[n][i] + 1] \in [Nonce -> Nat]
  BY <1>1
<1>3. made' = [made EXCEPT ![n] = [made[n] EXCEPT ![i] = made[n][i] + 1]]
  BY DEF SignWith
<1> QED
  BY <1>2, <1>3 DEF TypeOK

LEMMA HandleSignShareType ==
    ASSUME TypeOK, NEW n \in Node, NEW c \in Call, HandleSignShare(n, c)
    PROVE  /\ pending' \in [Node -> [Session -> Nonce \cup {NoNonce}]]
           /\ made' \in [Node -> [Nonce -> Nat]]
<1>1. pending' \in [Node -> [Session -> Nonce \cup {NoNonce}]]
  BY DEF HandleSignShare, TypeOK
<1>2. CASE Matches(n, c)
  <2>1. pending[n][sess[c]] \in Nonce
    BY <1>2 DEF Matches, TypeOK
  <2>2. SignWith(n, pending[n][sess[c]])
    BY <1>2 DEF HandleSignShare
  <2> QED
    BY <1>1, <2>1, <2>2, SignWithType
<1>3. CASE ~Matches(n, c)
  BY <1>1, <1>3 DEF HandleSignShare, TypeOK
<1> QED
  BY <1>2, <1>3

\* Every step keeps the types.
LEMMA TypeStep == TypeOK /\ OwnIsFresh /\ [Next]_vars => TypeOK'
<1> SUFFICES ASSUME TypeOK, OwnIsFresh, [Next]_vars PROVE TypeOK'
  OBVIOUS
<1> USE DEF callVars
<1>0. \A c \in Call : Coord[c] \in Node /\ sess[c] \in Session
  BY CoordAssumption DEF TypeOK
<1>1. ASSUME NEW c \in Call, Start(c) PROVE TypeOK'
  <2>1. drawn[Coord[c]] + 1 \in Nonce /\ drawn' \in [Node -> 0..MaxNonces]
    BY <1>0, <1>1, NextNonce DEF Start
  <2>2. commits' \in [Call -> [Node -> Nonce \cup {NoNonce}]]
    BY <1>0, <1>1, <2>1 DEF Start, TypeOK
  <2>3. met' \in [Call -> BOOLEAN]
    BY <1>1 DEF Start
  <2> QED
    BY <1>1, <2>1, <2>2, <2>3 DEF Start, TypeOK, Where, Running
<1>2. ASSUME NEW c \in Call, Pack(c) PROVE TypeOK'
  <2>1. made' \in [Node -> [Nonce -> Nat]]
    BY <1>0, <1>2, SignWithType DEF Pack, OwnIsFresh, Own
  <2>2. [p \in Node |-> IF p \in Selected(c) THEN commits[c][p] ELSE NoNonce]
            \in [Node -> Nonce \cup {NoNonce}]
    BY DEF TypeOK
  <2>3. commits' \in [Call -> [Node -> Nonce \cup {NoNonce}]]
    BY <1>2, <2>2 DEF Pack, TypeOK
  <2>4. Selected(c) \subseteq Node
    BY DEF Selected, Committed
  <2> QED
    BY <1>0, <1>2, <2>1, <2>3, <2>4 DEF Pack, TypeOK, Where, Running
<1>3. ASSUME NEW c \in Call, Finish(c) PROVE TypeOK'
  BY <1>3 DEF Finish, TypeOK, Where
<1>4. ASSUME NEW c \in Call, NEW p \in Node, CommitAnswered(c, p) PROVE TypeOK'
  <2>1. /\ pending' \in [Node -> [Session -> Nonce \cup {NoNonce}]]
        /\ drawn' \in [Node -> 0..MaxNonces] /\ drawn[p] + 1 \in Nonce
    BY <1>0, <1>4, HandleCommitType DEF CommitAnswered
  <2>2. commits' \in [Call -> [Node -> Nonce \cup {NoNonce}]]
    BY <1>4, <2>1 DEF CommitAnswered, TypeOK
  <2> QED
    BY <1>4, <2>1, <2>2 DEF CommitAnswered, TypeOK
<1>5. ASSUME NEW c \in Call, NEW p \in Node, AttemptTimesOut(c, p) PROVE TypeOK'
  <2>1. [round |-> pc[c], to |-> p, call |-> c] \in Request
    BY <1>5 DEF AttemptTimesOut, Request
  <2> QED
    BY <1>5, <2>1 DEF AttemptTimesOut, TypeOK
<1>6. ASSUME NEW c \in Call, NEW p \in Node, PeerFails(c, p) PROVE TypeOK'
  BY <1>6 DEF PeerFails, TypeOK, Where
<1>7. ASSUME NEW c \in Call, NEW p \in Node, ShareAnswered(c, p) PROVE TypeOK'
  BY <1>7, HandleSignShareType DEF ShareAnswered, TypeOK
<1>8. ASSUME NEW c \in Call, NEW p \in Node, ShareRefused(c, p) PROVE TypeOK'
  BY <1>8, HandleSignShareType DEF ShareRefused, TypeOK, Where
<1>9. ASSUME NEW r \in strays, StrayArrives(r) PROVE TypeOK'
  <2>1. r.to \in Node /\ r.call \in Call /\ sess[r.call] \in Session
    BY <1>0 DEF TypeOK, Request
  <2>2. /\ pending' \in [Node -> [Session -> Nonce \cup {NoNonce}]]
        /\ drawn' \in [Node -> 0..MaxNonces]
        /\ made' \in [Node -> [Nonce -> Nat]]
    <3>1. CASE HandleCommit(r.to, sess[r.call]) /\ made' = made
      BY <2>1, <3>1, HandleCommitType DEF TypeOK
    <3>2. CASE HandleSignShare(r.to, r.call) /\ drawn' = drawn
      BY <2>1, <3>2, HandleSignShareType DEF TypeOK
    <3> QED
      BY <1>9, <3>1, <3>2 DEF StrayArrives
  <2>3. met' \in [Call -> BOOLEAN] /\ strays' \subseteq Request
    BY <1>9 DEF StrayArrives, TypeOK
  <2> QED
    BY <1>9, <2>2, <2>3 DEF StrayArrives, TypeOK
<1>10. ASSUME NEW n \in Node, CrashRestart(n) PROVE TypeOK'
  <2>1. pending' \in [Node -> [Session -> Nonce \cup {NoNonce}]]
    BY <1>10 DEF CrashRestart, TypeOK
  <2>2. /\ pc' \in [Call -> Where] /\ todo' \in [Call -> SUBSET Node]
        /\ lost' \in [Call -> SUBSET Node]
    BY <1>10 DEF CrashRestart, TypeOK, Where
  <2> QED
    BY <1>10, <2>1, <2>2 DEF CrashRestart, TypeOK
<1>11. CASE UNCHANGED vars
  BY <1>11 DEF vars, TypeOK
<1> QED
  BY <1>1, <1>2, <1>3, <1>4, <1>5, <1>6, <1>7, <1>8, <1>9, <1>10, <1>11 DEF Next, Step

----
(***************************************************************************)
(* The five things a step can do to nonces.                                *)
(***************************************************************************)

\* Calls in their first round were there before and keep their own nonce.
KeepsOwn ==
    \A c \in Call : pc'[c] = "commit" => pc[c] = "commit" /\ Own(c)' = Own(c)

FreshInv ==
    /\ PendingIsFresh
    /\ PendingDiffers
    /\ OwnIsFresh
    /\ OwnDiffers
    /\ UndrawnIsUnused
    /\ NonceSignsOnce

\* Nothing new becomes pending and no share is made.
LEMMA OnlyForgets ==
    ASSUME TypeOK, FreshInv, KeepsOwn, UNCHANGED <<drawn, made>>,
           \A n \in Node, s \in Session : pending'[n][s] \in {pending[n][s], NoNonce}
    PROVE  FreshInv'
<1>1. PendingIsFresh' /\ PendingDiffers'
  BY DEF FreshInv, PendingIsFresh, PendingDiffers
<1>2. OwnIsFresh'
  <2> SUFFICES ASSUME NEW c \in Call, pc'[c] = "commit"
               PROVE  /\ Own(c)' \in Nonce
                      /\ Own(c)' <= drawn'[Coord[c]]
                      /\ made'[Coord[c]][Own(c)'] = 0
                      /\ \A s \in Session : pending'[Coord[c]][s] # Own(c)'
    BY DEF OwnIsFresh, Own
  <2>1. pc[c] = "commit" /\ Own(c)' = Own(c) /\ Coord[c] \in Node /\ Own(c) # NoNonce
    BY CoordAssumption DEF KeepsOwn, FreshInv, OwnIsFresh, Nonce, NoNonce
  <2> QED
    BY <2>1 DEF FreshInv, OwnIsFresh
<1>3. OwnDiffers'
  BY DEF FreshInv, OwnDiffers, KeepsOwn
<1>4. UndrawnIsUnused' /\ NonceSignsOnce'
  BY DEF FreshInv, UndrawnIsUnused, NonceSignsOnce
<1> QED
  BY <1>1, <1>2, <1>3, <1>4 DEF FreshInv

\* handle_commit: the new pending nonce is nobody else's.
LEMMA CommitIsFresh ==
    ASSUME TypeOK, FreshInv, KeepsOwn, NEW n \in Node, NEW s \in Session,
           HandleCommit(n, s), made' = made
    PROVE  FreshInv'
<1>0. /\ drawn[n] + 1 \in Nonce /\ drawn[n] + 1 > drawn[n] /\ drawn'[n] = drawn[n] + 1
      /\ \A m \in Node : drawn[m] <= drawn'[m] /\ drawn[m] \in Nat /\ drawn'[m] \in Nat
  BY NextNonce DEF HandleCommit, TypeOK
<1>1. /\ \A m \in Node, t \in Session :
            pending'[m][t] = IF m = n /\ t = s THEN drawn[n] + 1 ELSE pending[m][t]
  BY DEF HandleCommit, TypeOK
<1>2. \A m \in Node, t \in Session : pending[m][t] \in Nat
  BY DEF TypeOK, Nonce, NoNonce
<1>3. PendingIsFresh'
  <2> SUFFICES ASSUME NEW m \in Node, NEW t \in Session, pending'[m][t] # NoNonce
               PROVE  pending'[m][t] <= drawn'[m] /\ made[m][pending'[m][t]] = 0
    BY DEF PendingIsFresh
  <2>1. CASE m = n /\ t = s
    BY <1>0, <1>1, <2>1 DEF FreshInv, UndrawnIsUnused
  <2>2. CASE ~(m = n /\ t = s)
    BY <1>0, <1>1, <1>2, <2>2 DEF FreshInv, PendingIsFresh
  <2> QED
    BY <2>1, <2>2
<1>4. PendingDiffers'
  <2> SUFFICES ASSUME NEW m \in Node, NEW t \in Session, NEW u \in Session,
                      pending'[m][t] # NoNonce, pending'[m][t] = pending'[m][u]
               PROVE  t = u
    BY DEF PendingDiffers
  <2>1. \A v \in Session : pending[n][v] # drawn[n] + 1
    BY <1>0, <1>2 DEF FreshInv, PendingIsFresh, NoNonce
  <2> QED
    BY <1>1, <2>1 DEF FreshInv, PendingDiffers
<1>5. OwnIsFresh'
  <2> SUFFICES ASSUME NEW c \in Call, pc'[c] = "commit"
               PROVE  /\ Own(c)' \in Nonce
                      /\ Own(c)' <= drawn'[Coord[c]]
                      /\ made'[Coord[c]][Own(c)'] = 0
                      /\ \A t \in Session : pending'[Coord[c]][t] # Own(c)'
    BY DEF OwnIsFresh, Own
  <2>1. pc[c] = "commit" /\ Own(c)' = Own(c) /\ Coord[c] \in Node
    BY CoordAssumption DEF KeepsOwn
  <2>2. /\ Own(c) \in Nonce /\ Own(c) <= drawn[Coord[c]] /\ made[Coord[c]][Own(c)] = 0
        /\ \A t \in Session : pending[Coord[c]][t] # Own(c)
    BY <2>1 DEF FreshInv, OwnIsFresh
  <2>3. Own(c) \in Nat
    BY <2>2 DEF Nonce
  <2>4. Own(c) <= drawn'[Coord[c]]
    BY <1>0, <2>1, <2>2, <2>3
  <2>5. \A t \in Session : pending'[Coord[c]][t] # Own(c)
    BY <1>0, <1>1, <2>1, <2>2, <2>3
  <2> QED
    BY <2>1, <2>2, <2>4, <2>5
<1>6. OwnDiffers'
  BY DEF FreshInv, OwnDiffers, KeepsOwn
<1>7. UndrawnIsUnused' /\ NonceSignsOnce'
  <2>1. \A m \in Node, i \in Nonce : i > drawn'[m] => i > drawn[m]
    BY <1>0 DEF Nonce
  <2> QED
    BY <2>1 DEF FreshInv, UndrawnIsUnused, NonceSignsOnce
<1> QED
  BY <1>3, <1>4, <1>5, <1>6, <1>7 DEF FreshInv

\* A share is made with nonce i of node n, which no place holds afterwards.
LEMMA UsedUp ==
    ASSUME TypeOK, FreshInv, KeepsOwn, UNCHANGED drawn, NEW n \in Node, NEW i \in Nonce,
           SignWith(n, i), made[n][i] = 0, i <= drawn[n],
           \A m \in Node, s \in Session : pending'[m][s] \in {pending[m][s], NoNonce},
           \A s \in Session : pending'[n][s] # i,
           \A c \in Call : pc'[c] = "commit" /\ Coord[c] = n => Own(c) # i
    PROVE  FreshInv'
<1>1. \A m \in Node, j \in Nonce : made'[m][j] = IF m = n /\ j = i THEN 1 ELSE made[m][j]
  BY DEF SignWith, TypeOK
<1>2. PendingIsFresh'
  <2> SUFFICES ASSUME NEW m \in Node, NEW s \in Session, pending'[m][s] # NoNonce
               PROVE  pending'[m][s] <= drawn[m] /\ made'[m][pending'[m][s]] = 0
    BY DEF PendingIsFresh
  <2>1. /\ pending'[m][s] = pending[m][s] /\ pending[m][s] \in Nonce
        /\ pending[m][s] <= drawn[m] /\ made[m][pending[m][s]] = 0
    BY DEF FreshInv, PendingIsFresh, TypeOK
  <2> QED
    BY <1>1, <2>1
<1>3. PendingDiffers'
  BY DEF FreshInv, PendingDiffers
<1>4. OwnIsFresh'
  <2> SUFFICES ASSUME NEW c \in Call, pc'[c] = "commit"
               PROVE  /\ Own(c)' \in Nonce
                      /\ Own(c)' <= drawn'[Coord[c]]
                      /\ made'[Coord[c]][Own(c)'] = 0
                      /\ \A s \in Session : pending'[Coord[c]][s] # Own(c)'
    BY DEF OwnIsFresh, Own
  <2>1. pc[c] = "commit" /\ Own(c)' = Own(c) /\ Coord[c] \in Node
    BY CoordAssumption DEF KeepsOwn
  <2>2. /\ Own(c) \in Nonce /\ Own(c) <= drawn[Coord[c]] /\ made[Coord[c]][Own(c)] = 0
        /\ \A s \in Session : pending[Coord[c]][s] # Own(c)
        /\ Own(c) # NoNonce
    BY <2>1 DEF FreshInv, OwnIsFresh, Nonce, NoNonce
  <2>3. made'[Coord[c]][Own(c)] = 0
    BY <1>1, <2>1, <2>2
  <2> QED
    BY <2>1, <2>2, <2>3
<1>5. OwnDiffers'
  BY DEF FreshInv, OwnDiffers, KeepsOwn
<1>6. UndrawnIsUnused'
  <2>1. ~(i > drawn[n])
    BY DEF Nonce, TypeOK
  <2> QED
    BY <1>1, <2>1 DEF FreshInv, UndrawnIsUnused
<1>7. NonceSignsOnce'
  BY <1>1 DEF FreshInv, NonceSignsOnce
<1> QED
  BY <1>2, <1>3, <1>4, <1>5, <1>6, <1>7 DEF FreshInv

\* handle_sign_share uses up the entry, or drops it.
LEMMA ShareUsesUp ==
    ASSUME TypeOK, FreshInv, KeepsOwn, UNCHANGED drawn, NEW n \in Node, NEW c \in Call,
           HandleSignShare(n, c)
    PROVE  FreshInv'
<1> DEFINE i == pending[n][sess[c]]
<1>0. sess[c] \in Session
  BY DEF TypeOK
<1>1. \A m \in Node, s \in Session :
        pending'[m][s] = IF m = n /\ s = sess[c] THEN NoNonce ELSE pending[m][s]
  BY <1>0 DEF HandleSignShare, TypeOK
<1>2. CASE Matches(n, c)
  <2>1. i \in Nonce /\ i # NoNonce
    BY <1>0, <1>2 DEF Matches, TypeOK
  <2>2. made[n][i] = 0 /\ i <= drawn[n]
    BY <1>0, <2>1 DEF FreshInv, PendingIsFresh
  <2>3. SignWith(n, i)
    BY <1>2 DEF HandleSignShare
  <2>4. \A s \in Session : pending'[n][s] # i
    BY <1>0, <1>1, <2>1 DEF FreshInv, PendingDiffers
  <2>5. \A d \in Call : pc'[d] = "commit" /\ Coord[d] = n => Own(d) # i
    BY <1>0 DEF FreshInv, OwnIsFresh, KeepsOwn
  <2> QED
    BY <1>1, <2>1, <2>2, <2>3, <2>4, <2>5, UsedUp
<1>3. CASE ~Matches(n, c)
  BY <1>1, <1>3, OnlyForgets DEF HandleSignShare
<1> QED
  BY <1>2, <1>3

\* A coordinator's own nonce is new as well.
LEMMA StartIsFresh ==
    ASSUME TypeOK, FreshInv, NEW c \in Call, Start(c)
    PROVE  FreshInv'
<1> DEFINE n == Coord[c]
<1>0. n \in Node /\ Draw(n)
  BY CoordAssumption DEF Start
<1>1. /\ drawn[n] + 1 \in Nonce /\ drawn[n] + 1 > drawn[n] /\ drawn'[n] = drawn[n] + 1
      /\ \A m \in Node : drawn[m] <= drawn'[m] /\ drawn[m] \in Nat /\ drawn'[m] \in Nat
  BY <1>0, NextNonce DEF TypeOK
<1>2. UNCHANGED <<pending, made>>
  BY DEF Start
<1>3. /\ pc'[c] = "commit" /\ Own(c)' = drawn[n] + 1
      /\ \A d \in Call \ {c} : pc'[d] = pc[d] /\ Own(d)' = Own(d)
  BY <1>0, CoordAssumption DEF Start, TypeOK, Own
<1>4. \A m \in Node, t \in Session : pending[m][t] \in Nat
  BY DEF TypeOK, Nonce, NoNonce
<1>5. PendingIsFresh' /\ PendingDiffers'
  BY <1>1, <1>2, <1>4 DEF FreshInv, PendingIsFresh, PendingDiffers
<1>6. ASSUME NEW d \in Call, pc[d] = "commit"
      PROVE  Own(d) \in Nat /\ Own(d) <= drawn[Coord[d]]
  BY <1>6 DEF FreshInv, OwnIsFresh, Nonce
<1>7. OwnIsFresh'
  <2> SUFFICES ASSUME NEW d \in Call, pc'[d] = "commit"
               PROVE  /\ Own(d)' \in Nonce
                      /\ Own(d)' <= drawn'[Coord[d]]
                      /\ made'[Coord[d]][Own(d)'] = 0
                      /\ \A t \in Session : pending'[Coord[d]][t] # Own(d)'
    BY DEF OwnIsFresh, Own
  <2>1. CASE d = c
    <3>1. \A t \in Session : pending[n][t] # drawn[n] + 1
      BY <1>0, <1>1, <1>4 DEF FreshInv, PendingIsFresh, NoNonce
    <3>2. made[n][drawn[n] + 1] = 0
      BY <1>0, <1>1 DEF FreshInv, UndrawnIsUnused
    <3>3. Own(d)' = drawn[n] + 1 /\ Coord[d] = n
      BY <1>3, <2>1 DEF Own
    <3> QED
      BY <1>0, <1>1, <1>2, <3>1, <3>2, <3>3
  <2>2. CASE d # c
    <3>1. pc[d] = "commit" /\ Own(d)' = Own(d) /\ Coord[d] \in Node
      BY <1>3, <2>2, CoordAssumption
    <3>2. Own(d) <= drawn'[Coord[d]]
      BY <1>1, <1>6, <3>1
    <3> QED
      BY <1>2, <3>1, <3>2 DEF FreshInv, OwnIsFresh
  <2> QED
    BY <2>1, <2>2
<1>8. OwnDiffers'
  <2> SUFFICES ASSUME NEW d \in Call, NEW e \in Call, pc'[d] = "commit", pc'[e] = "commit",
                      Coord[d] = Coord[e], Own(d)' = Own(e)'
               PROVE  d = e
    BY DEF OwnDiffers, Own
  <2>1. \A f \in Call \ {c} : pc'[f] = "commit" /\ Coord[f] = n => Own(f)' # Own(c)'
    BY <1>0, <1>1, <1>3, <1>6
  <2>2. CASE d = c \/ e = c
    BY <2>1, <2>2
  <2>3. CASE d # c /\ e # c
    BY <1>3, <2>3 DEF FreshInv, OwnDiffers
  <2> QED
    BY <2>2, <2>3
<1>9. UndrawnIsUnused' /\ NonceSignsOnce'
  <2>1. \A m \in Node, i \in Nonce : i > drawn'[m] => i > drawn[m]
    BY <1>1 DEF Nonce
  <2> QED
    BY <1>2, <2>1 DEF FreshInv, UndrawnIsUnused, NonceSignsOnce
<1> QED
  BY <1>5, <1>7, <1>8, <1>9 DEF FreshInv

\* The local share takes the coordinator out of its first round.
LEMMA PackUsesUp ==
    ASSUME TypeOK, FreshInv, NEW c \in Call, Pack(c)
    PROVE  FreshInv'
<1>1. Coord[c] \in Node /\ pc[c] = "commit" /\ UNCHANGED <<pending, drawn>>
  BY CoordAssumption DEF Pack
<1>2. /\ Own(c) \in Nonce /\ Own(c) <= drawn[Coord[c]] /\ made[Coord[c]][Own(c)] = 0
      /\ \A s \in Session : pending[Coord[c]][s] # Own(c)
  BY <1>1 DEF FreshInv, OwnIsFresh
<1>3. SignWith(Coord[c], Own(c))
  BY DEF Pack, Own
<1>4. pc'[c] = "share" /\ \A d \in Call \ {c} : pc'[d] = pc[d] /\ commits'[d] = commits[d]
  BY DEF Pack, TypeOK
<1>5. KeepsOwn
  BY <1>4 DEF KeepsOwn, Own
<1>6. \A d \in Call : pc'[d] = "commit" /\ Coord[d] = Coord[c] => Own(d) # Own(c)
  BY <1>1, <1>4 DEF FreshInv, OwnDiffers
<1>7. \A m \in Node, s \in Session : pending'[m][s] \in {pending[m][s], NoNonce}
  BY <1>1
<1> QED
  BY <1>1, <1>2, <1>3, <1>5, <1>6, <1>7, UsedUp

----
\* Every step keeps the nonces apart.
LEMMA NonceStep == TypeOK /\ NonceInv /\ [Next]_vars => NonceInv'
<1> SUFFICES ASSUME TypeOK, NonceInv, [Next]_vars PROVE NonceInv'
  OBVIOUS
<1> USE DEF callVars
<1>0. FreshInv /\ AsksOthers /\ \A c \in Call : Coord[c] \in Node /\ sess[c] \in Session
  BY CoordAssumption DEF NonceInv, FreshInv, TypeOK
<1>1. ASSUME NEW c \in Call, Start(c) PROVE FreshInv' /\ AsksOthers'
  <2>1. AsksOthers'
    BY <1>0, <1>1 DEF Start, AsksOthers, TypeOK
  <2> QED
    BY <1>0, <1>1, <2>1, StartIsFresh
<1>2. ASSUME NEW c \in Call, Pack(c) PROVE FreshInv' /\ AsksOthers'
  <2>1. AsksOthers'
    BY <1>0, <1>2 DEF Pack, AsksOthers, TypeOK
  <2> QED
    BY <1>0, <1>2, <2>1, PackUsesUp
<1>3. ASSUME NEW c \in Call, Finish(c) PROVE FreshInv' /\ AsksOthers'
  <2>1. KeepsOwn /\ AsksOthers' /\ UNCHANGED <<pending, drawn, made>>
    BY <1>0, <1>3 DEF Finish, KeepsOwn, Own, AsksOthers, TypeOK
  <2> QED
    BY <1>0, <2>1, OnlyForgets
<1>4. ASSUME NEW c \in Call, NEW p \in Node, CommitAnswered(c, p) PROVE FreshInv' /\ AsksOthers'
  <2>1. p # Coord[c]
    BY <1>0, <1>4 DEF CommitAnswered, AsksOthers
  <2>2. KeepsOwn
    BY <1>0, <1>4, <2>1 DEF CommitAnswered, KeepsOwn, Own, TypeOK
  <2>3. AsksOthers'
    BY <1>0, <1>4 DEF CommitAnswered, AsksOthers, TypeOK
  <2> QED
    BY <1>0, <1>4, <2>2, <2>3, CommitIsFresh DEF CommitAnswered
<1>5. ASSUME NEW c \in Call, NEW p \in Node, AttemptTimesOut(c, p) \/ PeerFails(c, p)
      PROVE  FreshInv' /\ AsksOthers'
  <2>1. KeepsOwn /\ AsksOthers' /\ UNCHANGED <<pending, drawn, made>>
    BY <1>0, <1>5 DEF AttemptTimesOut, PeerFails, KeepsOwn, Own, AsksOthers, TypeOK
  <2> QED
    BY <1>0, <2>1, OnlyForgets
<1>6. ASSUME NEW c \in Call, NEW p \in Node, ShareAnswered(c, p) \/ ShareRefused(c, p)
      PROVE  FreshInv' /\ AsksOthers'
  <2>1. KeepsOwn /\ AsksOthers' /\ UNCHANGED drawn /\ HandleSignShare(p, c)
    <3>1. CASE ShareAnswered(c, p)
      BY <1>0, <3>1 DEF ShareAnswered, KeepsOwn, Own, AsksOthers, TypeOK
    <3>2. CASE ShareRefused(c, p)
      BY <1>0, <3>2 DEF ShareRefused, KeepsOwn, Own, AsksOthers, TypeOK
    <3> QED
      BY <1>6, <3>1, <3>2
  <2> QED
    BY <1>0, <2>1, ShareUsesUp
<1>7. ASSUME NEW r \in strays, StrayArrives(r) PROVE FreshInv' /\ AsksOthers'
  <2>1. r.to \in Node /\ r.call \in Call /\ sess[r.call] \in Session
    BY <1>0 DEF TypeOK, Request
  <2>2. KeepsOwn /\ AsksOthers'
    BY <1>0, <1>7 DEF StrayArrives, KeepsOwn, Own, AsksOthers
  <2>3. CASE HandleCommit(r.to, sess[r.call]) /\ made' = made
    BY <1>0, <2>1, <2>2, <2>3, CommitIsFresh
  <2>4. CASE HandleSignShare(r.to, r.call) /\ drawn' = drawn
    BY <1>0, <2>1, <2>2, <2>4, ShareUsesUp
  <2> QED
    BY <1>7, <2>3, <2>4 DEF StrayArrives
<1>8. ASSUME NEW n \in Node, CrashRestart(n) PROVE FreshInv' /\ AsksOthers'
  <2>1. KeepsOwn /\ AsksOthers' /\ UNCHANGED <<drawn, made>>
    BY <1>0, <1>8 DEF CrashRestart, KeepsOwn, Own, AsksOthers
  <2>2. \A m \in Node, s \in Session : pending'[m][s] \in {pending[m][s], NoNonce}
    BY <1>8 DEF CrashRestart, TypeOK
  <2> QED
    BY <1>0, <2>1, <2>2, OnlyForgets
<1>9. ASSUME UNCHANGED vars PROVE FreshInv' /\ AsksOthers'
  <2>1. KeepsOwn /\ AsksOthers' /\ UNCHANGED <<drawn, made>> /\ pending' = pending
    BY <1>0, <1>9 DEF vars, KeepsOwn, Own, AsksOthers
  <2>2. \A m \in Node, s \in Session : pending'[m][s] \in {pending[m][s], NoNonce}
    BY <2>1
  <2> QED
    BY <1>0, <2>1, <2>2, OnlyForgets
<1>10. FreshInv' /\ AsksOthers'
  <2>1. CASE \E c \in Call : Start(c) \/ Pack(c) \/ Finish(c)
    BY <1>1, <1>2, <1>3, <2>1
  <2>2. CASE \E c \in Call, p \in Node : Step(c, p)
    BY <1>4, <1>5, <1>6, <2>2 DEF Step
  <2>3. CASE \E r \in strays : StrayArrives(r)
    BY <1>7, <2>3
  <2>4. CASE \E n \in Node : CrashRestart(n)
    BY <1>8, <2>4
  <2> QED
    BY <1>9, <2>1, <2>2, <2>3, <2>4 DEF Next
<1> QED
  BY <1>10 DEF NonceInv, FreshInv

\* Types and nonces together are inductive.
THEOREM Invariance == Spec => [](TypeOK /\ NonceInv)
<1>1. Init => TypeOK /\ NonceInv
  BY InitInv
<1>2. (TypeOK /\ NonceInv) /\ [Next]_vars => (TypeOK /\ NonceInv)'
  BY TypeStep, NonceStep DEF NonceInv
<1> QED
  BY <1>1, <1>2, PTL DEF Spec

\* Type correctness of the co-signing model.
THEOREM TypeCorrect == Spec => []TypeOK
  BY Invariance, PTL

\* A signing nonce never produces a second share, at a peer or at a coordinator,
\* for any threshold, any calls of one or many sessions and any late requests.
THEOREM OneSharePerNonce == Spec => []NonceSignsOnce
<1>1. NonceInv => NonceSignsOnce
  BY DEF NonceInv
<1> QED
  BY <1>1, Invariance, PTL

----
(***************************************************************************)
(* The trim: exactly min_signers of the mesh are selected.                 *)
(***************************************************************************)

\* The members of T with fewer than k members below them.
Below(T, n) == {q \in T : q < n}
Lowest(T, k) == {n \in T : Cardinality(Below(T, n)) < k}

\* Every set of naturals has a least member.
LEMMA LeastNat ==
    ASSUME NEW S \in SUBSET Nat, S # {}
    PROVE  \E x \in S : \A y \in S : x <= y
<1>1. PICK x \in S : \A y \in S : ~ (<<y, x>> \in OpToRel(<, Nat))
  BY WFMin, NatLessThanWellFounded, Zenon
<1>2. \A y \in S : ~ (y < x)
  BY <1>1 DEF OpToRel
<1> QED
  BY <1>2

\* One member more: the least of the others.
LEMMA LowestGrows ==
    ASSUME NEW T \in SUBSET Nat, IsFiniteSet(T), NEW k \in Nat, k < Cardinality(T),
           Cardinality(Lowest(T, k)) = k
    PROVE  Cardinality(Lowest(T, k + 1)) = k + 1
<1> DEFINE L == Lowest(T, k)
           R == T \ L
<1>1. /\ L \in SUBSET T /\ IsFiniteSet(L) /\ Cardinality(T) \in Nat
      /\ \A n \in T : IsFiniteSet(Below(T, n)) /\ Cardinality(Below(T, n)) \in Nat
  <2>1. L \in SUBSET T /\ \A n \in T : Below(T, n) \in SUBSET T
    BY DEF Lowest, Below
  <2>2. IsFiniteSet(L) /\ \A n \in T : IsFiniteSet(Below(T, n))
    BY <2>1, FS_Subset
  <2> HIDE DEF L
  <2> QED
    BY <2>1, <2>2, FS_CardinalityType
<1>2. R # {}
  BY <1>1
<1>3. PICK m \in R : \A y \in R : m <= y
  <2>1. R \in SUBSET Nat
    OBVIOUS
  <2> HIDE DEF R
  <2> QED BY <1>2, <2>1, LeastNat
<1>4. \A x, y \in T : x < y => Cardinality(Below(T, x)) <= Cardinality(Below(T, y))
  <2> SUFFICES ASSUME NEW x \in T, NEW y \in T, x < y
               PROVE  Cardinality(Below(T, x)) <= Cardinality(Below(T, y))
    OBVIOUS
  <2>1. \A q \in T : q < x => q < y
    <3>1. x \in Nat /\ y \in Nat /\ \A q \in T : q \in Nat
      OBVIOUS
    <3> QED
      BY <3>1
  <2>2. Below(T, x) \in SUBSET Below(T, y)
    BY <2>1 DEF Below
  <2> QED
    BY <1>1, <2>2, FS_Subset
<1>5. Below(T, m) = L
  <2>1. ASSUME NEW q \in T, q < m PROVE q \in L
    BY <1>3, <2>1
  <2>2. ASSUME NEW q \in L PROVE q \in T /\ q < m
    <3>1. q \in T /\ q \in Nat /\ m \in Nat /\ m \in T /\ m \notin L
      BY <1>1
    <3>2. ~ (m < q)
      <4>1. Cardinality(Below(T, q)) < k /\ ~ (Cardinality(Below(T, m)) < k)
        BY <3>1 DEF Lowest
      <4>2. m < q => Cardinality(Below(T, m)) <= Cardinality(Below(T, q))
        BY <1>4, <3>1
      <4> QED
        BY <1>1, <3>1, <4>1, <4>2
    <3> QED
      BY <3>1, <3>2
  <2> HIDE DEF L
  <2> QED
    BY <2>1, <2>2 DEF Below
<1>6. ASSUME NEW n \in T PROVE n \in Lowest(T, k + 1) <=> n \in L \cup {m}
  <2>0. Cardinality(Below(T, n)) \in Nat
    BY <1>1
  <2>1. CASE n \in L
    BY <2>0, <2>1 DEF Lowest
  <2>2. CASE n = m
    BY <1>5, <2>2 DEF Lowest
  <2>3. CASE n \notin L /\ n # m
    <3>1. n \in R /\ n \in Nat /\ m \in Nat /\ m \in T /\ m \notin L
      BY <2>3
    <3>2. m < n
      BY <1>3, <2>3, <3>1
    <3>3. L \cup {m} \in SUBSET Below(T, n)
      <4>1. \A q \in L : q \in T /\ q < m /\ q \in Nat
        BY <1>5 DEF Below
      <4> HIDE DEF L
      <4> QED
        BY <3>1, <3>2, <4>1 DEF Below
    <3>4. Cardinality(L \cup {m}) = k + 1
      <4> HIDE DEF L
      <4> QED BY <1>1, <3>1, FS_AddElement DEF L
    <3>5. k + 1 <= Cardinality(Below(T, n))
      <4> DEFINE Lm == L \cup {m}
      <4>1. Cardinality(Lm) <= Cardinality(Below(T, n))
        <5>1. Lm \in SUBSET Below(T, n)
          BY <3>3
        <5> HIDE DEF Lm
        <5> QED BY <1>1, <5>1, FS_Subset
      <4> QED
        BY <3>4, <4>1
    <3>6. n \notin Lowest(T, k + 1)
      BY <2>0, <3>5 DEF Lowest
    <3> QED
      BY <2>3, <3>6
  <2> QED
    BY <2>1, <2>2, <2>3
<1>7. Lowest(T, k + 1) = L \cup {m}
  <2>1. Lowest(T, k + 1) \subseteq T /\ L \cup {m} \subseteq T
    BY <1>1 DEF Lowest
  <2> HIDE DEF L
  <2> QED
    BY <1>6, <2>1
<1>8. m \notin L
  OBVIOUS
<1> HIDE DEF L
<1>9. Cardinality(L \cup {m}) = k + 1
  BY <1>1, <1>8, FS_AddElement DEF L
<1> QED
  BY <1>7, <1>9

\* There are exactly k of them, when T is large enough.
LEMMA LowestSize ==
    ASSUME NEW T \in SUBSET Nat, IsFiniteSet(T), NEW k \in Nat, k <= Cardinality(T)
    PROVE  Cardinality(Lowest(T, k)) = k
<1> DEFINE Bad == {j \in Nat : j <= Cardinality(T) /\ Cardinality(Lowest(T, j)) # j}
<1>1. SUFFICES ASSUME Bad # {} PROVE FALSE
  OBVIOUS
<1>2. PICK j \in Bad : \A y \in Bad : j <= y
  <2>1. Bad \in SUBSET Nat
    OBVIOUS
  <2> HIDE DEF Bad
  <2> QED BY <1>1, <2>1, LeastNat
<1>3. Cardinality(T) \in Nat
  BY FS_CardinalityType
<1>4. j # 0
  <2>1. ASSUME NEW n \in T PROVE ~ (Cardinality(Below(T, n)) < 0)
    <3>1. Below(T, n) \in SUBSET T
      BY DEF Below
    <3>2. Cardinality(Below(T, n)) \in Nat
      BY <3>1, FS_Subset, FS_CardinalityType
    <3> QED
      BY <3>2
  <2>2. Lowest(T, 0) = {}
    BY <2>1 DEF Lowest
  <2>3. Cardinality(Lowest(T, 0)) = 0
    BY <2>2, FS_EmptySet
  <2> QED
    BY <2>3
<1>5. /\ j - 1 \in Nat /\ j - 1 < Cardinality(T) /\ (j - 1) + 1 = j
      /\ Cardinality(Lowest(T, j - 1)) = j - 1
  <2>1. j \in Nat /\ j - 1 \in Nat /\ j <= Cardinality(T) /\ ~ (j <= j - 1)
    BY <1>4
  <2>2. j - 1 \notin Bad
    BY <1>2, <2>1
  <2> QED
    BY <1>3, <2>1, <2>2
<1>6. Cardinality(Lowest(T, (j - 1) + 1)) = (j - 1) + 1
  BY <1>5, LowestGrows
<1> QED
  BY <1>5, <1>6

\* The trim of a full set of commitments leaves min_signers of them, the
\* coordinator among them.
LEMMA TrimIsExact ==
    ASSUME NEW c \in Call, Committed(c) = Node
    PROVE  Cardinality(Selected(c)) = MinSigners /\ Coord[c] \in Selected(c)
<1> DEFINE T == Node \ {Coord[c]}
           k == MinSigners - 1
<1>1. Coord[c] \in Node /\ Node \subseteq Nat /\ IsFiniteSet(Node)
  BY CoordAssumption, NodeAssumption
<1>2. T \in SUBSET Nat /\ IsFiniteSet(T) /\ Cardinality(T) = Cardinality(Node) - 1
  BY <1>1, FS_RemoveElement
<1>3. k \in Nat /\ k <= Cardinality(T) /\ k + 1 = MinSigners
  <2>1. Cardinality(Node) \in Nat
    BY <1>1, FS_CardinalityType
  <2> QED
    BY <1>2, <2>1, SignersAssumption
<1>4. Cardinality(Lowest(T, k)) = k
  <2> HIDE DEF T, k
  <2> QED BY <1>2, <1>3, LowestSize
<1>5. Selected(c) = Lowest(T, k) \cup {Coord[c]}
  BY <1>1 DEF Selected, Lowest, Below
<1>6. Coord[c] \notin Lowest(T, k) /\ IsFiniteSet(Lowest(T, k))
  <2>1. Lowest(T, k) \in SUBSET T
    BY DEF Lowest
  <2> QED
    BY <1>2, <2>1, FS_Subset
<1> HIDE DEF T, k
<1>7. Cardinality(Lowest(T, k) \cup {Coord[c]}) = k + 1
  BY <1>4, <1>6, FS_AddElement
<1> QED
  BY <1>3, <1>5, <1>7

----
(***************************************************************************)
(* The calls.                                                              *)
(***************************************************************************)

\* The commitments a call has: none before it starts, in the first round those
\* of everyone who answered.
IdleIsClean == \A c \in Call : pc[c] = "idle" => commits[c] = NoCommits
AnsweredCommitted == \A c \in Call : pc[c] = "commit" => Committed(c) = Node \ todo[c]

\* From the package on: min_signers commitments, for each of which the call has
\* the share or still waits for it.
PackageIsWhole ==
    \A c \in Call : pc[c] \in {"share", "ok"} =>
        /\ Coord[c] \in shares[c]
        /\ Committed(c) = shares[c] \cup todo[c]
        /\ Cardinality(Committed(c)) = MinSigners
        /\ \A p \in shares[c] : made[p][commits[c][p]] = 1
OkIsDone == \A c \in Call : pc[c] = "ok" => todo[c] = {}

\* Two running calls of one session have met.
RivalsMet ==
    \A c, d \in Call :
        pc[c] \in Running /\ pc[d] \in Running /\ sess[c] = sess[d] /\ c # d => met[c]

\* The peers that keep a nonce for the call, and what they keep as long as
\* nothing was lost and nobody came across.
Keepers(c) == IF pc[c] = "commit" THEN Committed(c) \ {Coord[c]} ELSE todo[c]
NoncesKept ==
    \A c \in Call : pc[c] \in Running /\ lost[c] = {} /\ ~met[c] =>
        \A p \in Keepers(c) : pending[p][sess[c]] = commits[c][p]

CallsInv ==
    /\ IdleIsClean
    /\ AnsweredCommitted
    /\ PackageIsWhole
    /\ OkIsDone
    /\ RivalsMet
    /\ NoncesKept
    /\ FailureHasCause

\* All of it but RivalsMet speaks of one call.
CallInv(c) ==
    /\ pc[c] = "idle" => commits[c] = NoCommits
    /\ pc[c] = "commit" => Committed(c) = Node \ todo[c]
    /\ pc[c] \in {"share", "ok"} =>
          /\ Coord[c] \in shares[c]
          /\ Committed(c) = shares[c] \cup todo[c]
          /\ Cardinality(Committed(c)) = MinSigners
          /\ \A p \in shares[c] : made[p][commits[c][p]] = 1
    /\ pc[c] = "ok" => todo[c] = {}
    /\ pc[c] \in Running /\ lost[c] = {} /\ ~met[c] =>
          \A p \in Keepers(c) : pending[p][sess[c]] = commits[c][p]
    /\ pc[c] = "failed" => lost[c] # {} \/ met[c]

LEMMA CallByCall == CallsInv <=> RivalsMet /\ \A c \in Call : CallInv(c)
  BY DEF CallsInv, CallInv, IdleIsClean, AnsweredCommitted, PackageIsWhole, OkIsDone, NoncesKept,
         FailureHasCause

LEMMA CallByCallNext ==
    ASSUME RivalsMet', \A c \in Call : CallInv(c)'
    PROVE  CallsInv'
  BY DEF CallsInv, CallInv, IdleIsClean, AnsweredCommitted, PackageIsWhole, OkIsDone, NoncesKept,
         FailureHasCause

LEMMA CallsInit == Init => CallsInv
<1> SUFFICES ASSUME Init PROVE CallsInv
  OBVIOUS
<1>1. ASSUME NEW c \in Call PROVE CallInv(c)
  BY DEF Init, CallInv, Running
<1>2. RivalsMet
  BY DEF Init, RivalsMet, Running
<1> QED
  BY <1>1, <1>2, CallByCall

\* A nonce that made a share has made it for good.
MadeStays == \A n \in Node, i \in Nonce : made[n][i] = 1 => made'[n][i] = 1

LEMMA SignWithStays ==
    ASSUME TypeOK, NonceSignsOnce', NEW n \in Node, NEW i \in Nonce, SignWith(n, i)
    PROVE  MadeStays
<1>1. \A m \in Node, j \in Nonce : /\ made'[m][j] = IF m = n /\ j = i THEN made[m][j] + 1 ELSE made[m][j]
                                   /\ made[m][j] \in Nat /\ made'[m][j] <= 1
  BY DEF SignWith, TypeOK, NonceSignsOnce
<1> QED
  BY <1>1 DEF MadeStays

LEMMA SignShareStays ==
    ASSUME TypeOK, NonceSignsOnce', NEW n \in Node, NEW c \in Call, HandleSignShare(n, c)
    PROVE  MadeStays
<1>1. CASE Matches(n, c)
  <2>1. pending[n][sess[c]] \in Nonce /\ SignWith(n, pending[n][sess[c]])
    BY <1>1 DEF HandleSignShare, Matches, TypeOK
  <2> QED
    BY <2>1, SignWithStays
<1>2. CASE ~Matches(n, c)
  BY <1>2 DEF HandleSignShare, MadeStays
<1> QED
  BY <1>1, <1>2

\* A call that does not move is not disturbed, as long as the nonces kept for it
\* stay, or the disturbance is on record.
Undisturbed(c) ==
    /\ pc'[c] = pc[c] /\ todo'[c] = todo[c] /\ commits'[c] = commits[c] /\ shares'[c] = shares[c]
    /\ sess' = sess
    /\ lost[c] \subseteq lost'[c]
    /\ met[c] => met'[c]
    /\ pc[c] \in Running /\ lost'[c] = {} /\ ~met'[c] =>
          \A p \in Keepers(c) : pending'[p][sess[c]] = pending[p][sess[c]]

LEMMA UndisturbedStays ==
    ASSUME TypeOK, NEW c \in Call, CallInv(c), Undisturbed(c), MadeStays
    PROVE  CallInv(c)'
<1>1. /\ pc'[c] = pc[c] /\ todo'[c] = todo[c] /\ commits'[c] = commits[c] /\ shares'[c] = shares[c]
      /\ sess' = sess
  BY DEF Undisturbed
<1>2. Committed(c)' = Committed(c) /\ Keepers(c)' = Keepers(c)
  BY <1>1 DEF Committed, Keepers
<1>3. ASSUME pc[c] \in {"share", "ok"}, NEW p \in shares[c] PROVE made'[p][commits[c][p]] = 1
  <2>1. p \in Node /\ p \in Committed(c) /\ made[p][commits[c][p]] = 1
    BY <1>3 DEF CallInv, TypeOK
  <2>2. commits[c][p] \in Nonce
    BY <2>1 DEF Committed, TypeOK
  <2> QED
    BY <2>1, <2>2 DEF MadeStays
<1>4. ASSUME pc[c] \in Running, lost'[c] = {}, ~met'[c], NEW p \in Keepers(c)
      PROVE  pending'[p][sess[c]] = commits[c][p]
  BY <1>4 DEF Undisturbed, CallInv
<1>5. pc[c] = "failed" => lost'[c] # {} \/ met'[c]
  BY DEF Undisturbed, CallInv
<1>6. /\ pc[c] = "idle" => commits[c] = NoCommits
      /\ pc[c] = "commit" => Committed(c) = Node \ todo[c]
      /\ pc[c] \in {"share", "ok"} =>
          /\ Coord[c] \in shares[c]
          /\ Committed(c) = shares[c] \cup todo[c]
          /\ Cardinality(Committed(c)) = MinSigners
      /\ pc[c] = "ok" => todo[c] = {}
  BY DEF CallInv
<1> QED
  BY <1>1, <1>2, <1>3, <1>4, <1>5, <1>6 DEF CallInv

\* A step of call c touches the nonces of its own session only, and a running
\* call of that session is on record as having met it.
LEMMA RivalsUndisturbed ==
    ASSUME TypeOK, CallsInv, MadeStays, NEW c \in Call, pc[c] \in Running, sess' = sess,
           \A d \in Call \ {c} : /\ pc'[d] = pc[d] /\ todo'[d] = todo[d] /\ commits'[d] = commits[d]
                                 /\ shares'[d] = shares[d] /\ lost'[d] = lost[d] /\ met'[d] = met[d],
           \A p \in Node, t \in Session : t # sess[c] => pending'[p][t] = pending[p][t]
    PROVE  \A d \in Call \ {c} : CallInv(d)'
<1> SUFFICES ASSUME NEW d \in Call \ {c} PROVE CallInv(d)'
  OBVIOUS
<1>1. CallInv(d) /\ RivalsMet /\ sess[d] \in Session
  BY CallByCall DEF TypeOK
<1>2. Keepers(d) \subseteq Node
  BY DEF Keepers, Committed, TypeOK
<1>3. pc[d] \in Running /\ ~met[d] => sess[d] # sess[c]
  BY <1>1 DEF RivalsMet
<1>4. Undisturbed(d)
  BY <1>1, <1>2, <1>3 DEF Undisturbed
<1> QED
  BY <1>1, <1>4, UndisturbedStays

\* No call starts to run, and no record of a meeting is lost.
LEMMA RivalsStay ==
    ASSUME RivalsMet, sess' = sess,
           \A c \in Call : (pc'[c] \in Running => pc[c] \in Running) /\ (met[c] => met'[c])
    PROVE  RivalsMet'
  BY DEF RivalsMet

----
\* The first nonce of a call is the coordinator's.
LEMMA StartCalls ==
    ASSUME TypeOK, CallsInv, NEW c \in Call, Start(c)
    PROVE  CallsInv'
<1>0. /\ Coord[c] \in Node /\ pc[c] = "idle" /\ drawn[Coord[c]] + 1 \in Nonce
      /\ UNCHANGED <<pending, sess, shares, strays, made, lost>>
      /\ CallInv(c) /\ RivalsMet
  BY NextNonce, CoordAssumption, CallByCall DEF Start
<1>1. /\ pc'[c] = "commit" /\ todo'[c] = Node \ {Coord[c]}
      /\ commits'[c] = [commits[c] EXCEPT ![Coord[c]] = drawn[Coord[c]] + 1]
      /\ \A d \in Call \ {c} : pc'[d] = pc[d] /\ todo'[d] = todo[d] /\ commits'[d] = commits[d]
  BY DEF Start, TypeOK
<1>2. \A d \in Call : met'[d] = (met[d] \/ (d \in OthersOf(c)) \/ (d = c /\ OthersOf(c) # {}))
  BY DEF Start
<1>3. ASSUME NEW d \in Call, d # c PROVE CallInv(d)'
  <2>1. CallInv(d) /\ MadeStays
    BY <1>0, CallByCall DEF MadeStays
  <2>2. Undisturbed(d)
    BY <1>0, <1>1, <1>2, <1>3 DEF Undisturbed
  <2> QED
    BY <2>1, <2>2, UndisturbedStays
<1>4. CallInv(c)'
  <2>1. \A n \in Node : commits'[c][n] = IF n = Coord[c] THEN drawn[Coord[c]] + 1 ELSE NoNonce
    BY <1>0, <1>1 DEF CallInv, NoCommits
  <2>2. Committed(c)' = {Coord[c]}
    BY <1>0, <2>1 DEF Committed, Nonce, NoNonce
  <2>3. Keepers(c)' = {}
    BY <1>1, <2>2 DEF Keepers
  <2> QED
    BY <1>0, <1>1, <2>2, <2>3 DEF CallInv
<1>5. RivalsMet'
  <2> SUFFICES ASSUME NEW d \in Call, NEW e \in Call, pc'[d] \in Running, pc'[e] \in Running,
                      sess[d] = sess[e], d # e
               PROVE  met'[d]
    BY <1>0 DEF RivalsMet
  <2>1. CASE d = c
    <3>1. e \in OthersOf(c)
      BY <1>1, <2>1 DEF OthersOf
    <3> QED
      BY <1>2, <2>1, <3>1
  <2>2. CASE e = c
    <3>1. d \in OthersOf(c)
      BY <1>1, <2>2 DEF OthersOf
    <3> QED
      BY <1>2, <3>1
  <2>3. CASE d # c /\ e # c
    <3>1. met[d]
      BY <1>0, <1>1, <2>3 DEF RivalsMet
    <3> QED
      BY <1>2, <3>1
  <2> QED
    BY <2>1, <2>2, <2>3
<1> QED
  BY <1>3, <1>4, <1>5, CallByCallNext

\* A commitment is added together with the nonce the peer keeps for it.
LEMMA CommitCalls ==
    ASSUME TypeOK, CallsInv, NEW c \in Call, NEW p \in Node, CommitAnswered(c, p)
    PROVE  CallsInv'
<1>0. /\ pc[c] = "commit" /\ pc[c] \in Running /\ p \in todo[c] /\ HandleCommit(p, sess[c])
      /\ drawn[p] + 1 \in Nonce /\ sess[c] \in Session
      /\ UNCHANGED <<pc, sess, shares, strays, made, lost, met>>
      /\ CallInv(c) /\ RivalsMet
  BY HandleCommitType, CallByCall DEF CommitAnswered, TypeOK, Running
<1>1. /\ todo'[c] = todo[c] \ {p} /\ commits'[c] = [commits[c] EXCEPT ![p] = drawn[p] + 1]
      /\ \A d \in Call \ {c} : todo'[d] = todo[d] /\ commits'[d] = commits[d]
  BY DEF CommitAnswered, TypeOK
<1>2. \A q \in Node, t \in Session :
          pending'[q][t] = IF q = p /\ t = sess[c] THEN drawn[p] + 1 ELSE pending[q][t]
  BY <1>0 DEF HandleCommit, TypeOK
<1>3. \A d \in Call \ {c} : CallInv(d)'
  <2>1. MadeStays
    BY <1>0 DEF MadeStays
  <2> QED
    BY <1>0, <1>1, <1>2, <2>1, RivalsUndisturbed
<1>4. \A q \in Node : commits'[c][q] = IF q = p THEN drawn[p] + 1 ELSE commits[c][q]
  BY <1>1 DEF TypeOK
<1>5. Committed(c)' = Committed(c) \cup {p}
  BY <1>0, <1>4 DEF Committed, Nonce, NoNonce
<1>6. CallInv(c)'
  <2>1. Committed(c)' = Node \ todo'[c]
    BY <1>0, <1>1, <1>5 DEF CallInv
  <2>2. ASSUME lost[c] = {}, ~met[c], NEW q \in Keepers(c)'
        PROVE  pending'[q][sess[c]] = commits'[c][q]
    <3>1. q \in Node /\ (q = p \/ q \in Keepers(c))
      BY <1>0, <1>5 DEF Keepers, Committed
    <3>2. q \in Keepers(c) => pending[q][sess[c]] = commits[c][q]
      BY <1>0, <2>2 DEF CallInv
    <3> QED
      BY <1>0, <1>2, <1>4, <3>1, <3>2
  <2> QED
    BY <1>0, <2>1, <2>2 DEF CallInv
<1>7. RivalsMet'
  BY <1>0, RivalsStay
<1> QED
  BY <1>3, <1>6, <1>7, CallByCallNext

\* The package: the trim is exact, and the coordinator's share is made.
LEMMA PackCalls ==
    ASSUME TypeOK, NonceInv, NonceSignsOnce', CallsInv, NEW c \in Call, Pack(c)
    PROVE  CallsInv'
<1> DEFINE n == Coord[c]
<1>0. /\ n \in Node /\ pc[c] = "commit" /\ pc[c] \in Running /\ todo[c] = {}
      /\ SignWith(n, commits[c][n])
      /\ UNCHANGED <<pending, drawn, sess, strays, lost, met>>
      /\ CallInv(c) /\ RivalsMet
  BY CoordAssumption, CallByCall DEF Pack, Running
<1>1. commits[c][n] \in Nonce /\ made[n][commits[c][n]] = 0
  BY <1>0 DEF NonceInv, OwnIsFresh, Own
<1>2. /\ pc'[c] = "share" /\ todo'[c] = Selected(c) \ {n} /\ shares'[c] = {n}
      /\ commits'[c] = [p \in Node |-> IF p \in Selected(c) THEN commits[c][p] ELSE NoNonce]
      /\ \A d \in Call \ {c} : /\ pc'[d] = pc[d] /\ todo'[d] = todo[d]
                               /\ shares'[d] = shares[d] /\ commits'[d] = commits[d]
  BY DEF Pack, TypeOK
<1>3. MadeStays
  BY <1>0, <1>1, SignWithStays
<1>4. \A d \in Call \ {c} : CallInv(d)'
  <2>1. \A p \in Node, t \in Session : pending'[p][t] = pending[p][t]
    BY <1>0
  <2> QED
    BY <1>0, <1>2, <1>3, <2>1, RivalsUndisturbed
<1>5. Committed(c) = Node
  BY <1>0 DEF CallInv
<1>6. Cardinality(Selected(c)) = MinSigners /\ n \in Selected(c) /\ Selected(c) \subseteq Committed(c)
  BY <1>5, TrimIsExact DEF Selected
<1>7. Committed(c)' = Selected(c)
  BY <1>2, <1>6 DEF Committed
<1>8. made'[n][commits'[c][n]] = 1
  <2>1. commits'[c][n] = commits[c][n]
    BY <1>0, <1>2, <1>6
  <2> QED
    BY <1>0, <1>1, <2>1 DEF SignWith, TypeOK
<1>9. ASSUME lost[c] = {}, ~met[c], NEW q \in todo'[c]
      PROVE  pending'[q][sess[c]] = commits'[c][q]
  <2>1. q \in Selected(c) /\ q \in Keepers(c) /\ q \in Node
    BY <1>0, <1>2, <1>6, <1>9 DEF Keepers, Committed
  <2>2. pending[q][sess[c]] = commits[c][q]
    BY <1>0, <1>9, <2>1 DEF CallInv
  <2> QED
    BY <1>0, <1>2, <2>1, <2>2
<1>10. CallInv(c)'
  <2>1. Keepers(c)' = todo'[c]
    BY <1>2 DEF Keepers
  <2>2. Committed(c)' = shares'[c] \cup todo'[c]
    BY <1>2, <1>6, <1>7
  <2>3. \A p \in shares'[c] : made'[p][commits'[c][p]] = 1
    BY <1>2, <1>8
  <2>4. n \in shares'[c] /\ sess' = sess /\ lost' = lost /\ met' = met
    BY <1>0, <1>2
  <2>5. Cardinality(Committed(c)') = MinSigners
    BY <1>6, <1>7
  <2> QED
    BY <1>2, <1>9, <2>1, <2>2, <2>3, <2>4, <2>5 DEF CallInv
<1>11. RivalsMet'
  BY <1>0, <1>2, RivalsStay
<1> QED
  BY <1>4, <1>10, <1>11, CallByCallNext

\* A share answered was made with the committed nonce, for the first time.
LEMMA ShareCalls ==
    ASSUME TypeOK, NonceInv, NonceSignsOnce', CallsInv, NEW c \in Call, NEW p \in Node,
           ShareAnswered(c, p)
    PROVE  CallsInv'
<1>0. /\ pc[c] = "share" /\ pc[c] \in Running /\ p \in todo[c] /\ Matches(p, c) /\ HandleSignShare(p, c)
      /\ UNCHANGED <<drawn, pc, sess, commits, strays, lost, met>>
      /\ CallInv(c) /\ RivalsMet /\ sess[c] \in Session
  BY CallByCall DEF ShareAnswered, TypeOK, Running
<1>1. /\ todo'[c] = todo[c] \ {p} /\ shares'[c] = shares[c] \cup {p}
      /\ \A d \in Call \ {c} : todo'[d] = todo[d] /\ shares'[d] = shares[d]
  BY DEF ShareAnswered, TypeOK
<1>2. \A q \in Node, t \in Session :
          pending'[q][t] = IF q = p /\ t = sess[c] THEN NoNonce ELSE pending[q][t]
  BY <1>0 DEF HandleSignShare, TypeOK
<1>3. MadeStays
  BY <1>0, SignShareStays
<1>4. \A d \in Call \ {c} : CallInv(d)'
  BY <1>0, <1>1, <1>2, <1>3, RivalsUndisturbed
<1>5. commits[c][p] \in Nonce /\ made'[p][commits[c][p]] = 1
  <2> DEFINE i == commits[c][p]
  <2>1. i = pending[p][sess[c]] /\ i # NoNonce /\ i \in Nonce
    BY <1>0 DEF Matches, TypeOK
  <2>2. made[p][i] = 0
    BY <1>0, <2>1 DEF NonceInv, PendingIsFresh
  <2>3. SignWith(p, i)
    BY <1>0, <2>1 DEF HandleSignShare
  <2> QED
    BY <2>1, <2>2, <2>3 DEF SignWith, TypeOK
<1>6. Committed(c)' = Committed(c) /\ Keepers(c) = todo[c] /\ Keepers(c)' = todo'[c]
  BY <1>0 DEF Committed, Keepers
<1>7. ASSUME NEW q \in shares'[c] PROVE made'[q][commits[c][q]] = 1
  <2>1. CASE q = p
    BY <1>5, <2>1
  <2>2. CASE q \in shares[c]
    <3>1. q \in Node /\ commits[c][q] \in Nonce
      BY <1>0, <2>2 DEF CallInv, Committed, TypeOK
    <3> QED
      BY <1>0, <1>3, <2>2, <3>1 DEF CallInv, MadeStays
  <2> QED
    BY <1>1, <2>1, <2>2
<1>8. ASSUME lost[c] = {}, ~met[c], NEW q \in todo'[c]
      PROVE  pending'[q][sess[c]] = commits[c][q]
  <2>1. q \in todo[c] /\ q # p /\ q \in Node
    BY <1>1 DEF TypeOK
  <2>2. pending[q][sess[c]] = commits[c][q]
    BY <1>0, <1>6, <1>8, <2>1 DEF CallInv
  <2> QED
    BY <1>0, <1>2, <2>1, <2>2
<1>9. CallInv(c)'
  <2>1. /\ Committed(c)' = shares'[c] \cup todo'[c] /\ Coord[c] \in shares'[c]
        /\ Cardinality(Committed(c)') = MinSigners
    BY <1>0, <1>1, <1>6 DEF CallInv
  <2> QED
    BY <1>0, <1>6, <1>7, <1>8, <2>1 DEF CallInv
<1>10. RivalsMet'
  BY <1>0, RivalsStay
<1> QED
  BY <1>4, <1>9, <1>10, CallByCallNext

\* A call that ends: with a signature only if it is whole, without one only if
\* its cause is on record.
LEMMA EndCalls ==
    ASSUME TypeOK, NonceSignsOnce', CallsInv, NEW c \in Call, NEW p \in Node,
           Finish(c) \/ PeerFails(c, p) \/ ShareRefused(c, p)
    PROVE  CallsInv'
<1>0. /\ pc[c] \in Running /\ sess' = sess /\ commits' = commits /\ shares' = shares /\ met' = met
      /\ CallInv(c) /\ RivalsMet /\ sess[c] \in Session
  BY CallByCall DEF Finish, PeerFails, ShareRefused, TypeOK, Running
<1>1. /\ pc'[c] \in {"ok", "failed"} /\ todo'[c] = {}
      /\ \A d \in Call \ {c} : pc'[d] = pc[d] /\ todo'[d] = todo[d] /\ lost'[d] = lost[d]
      /\ lost[c] \subseteq lost'[c]
  BY DEF Finish, PeerFails, ShareRefused, TypeOK
<1>2. MadeStays /\ \A q \in Node, t \in Session : t # sess[c] => pending'[q][t] = pending[q][t]
  <2>1. CASE ShareRefused(c, p)
    <3>1. HandleSignShare(p, c)
      BY <2>1 DEF ShareRefused
    <3> QED
      BY <1>0, <3>1, SignShareStays DEF HandleSignShare, TypeOK
  <2>2. CASE Finish(c) \/ PeerFails(c, p)
    BY <2>2 DEF Finish, PeerFails, MadeStays
  <2> QED
    BY <2>1, <2>2
<1>3. \A d \in Call \ {c} : CallInv(d)'
  BY <1>0, <1>1, <1>2, RivalsUndisturbed
<1>4. ASSUME PeerFails(c, p) PROVE CallInv(c)'
  <2>1. pc'[c] = "failed" /\ lost'[c] # {}
    BY <1>4 DEF PeerFails, TypeOK
  <2> QED
    BY <2>1 DEF CallInv, Running
<1>5. ASSUME ShareRefused(c, p) PROVE CallInv(c)'
  <2>1. pc[c] = "share" /\ pc'[c] = "failed" /\ p \in todo[c] /\ ~Matches(p, c)
    BY <1>5 DEF ShareRefused, TypeOK
  <2>2. commits[c][p] # NoNonce
    BY <1>0, <2>1 DEF CallInv, Committed
  <2>3. pending[p][sess[c]] # commits[c][p]
    BY <2>1, <2>2 DEF Matches
  <2>4. lost[c] # {} \/ met[c]
    BY <1>0, <2>1, <2>3 DEF CallInv, Keepers
  <2>5. lost'[c] # {} \/ met'[c]
    BY <1>0, <1>1, <2>4
  <2> QED
    BY <2>1, <2>5 DEF CallInv, Running
<1>6. ASSUME Finish(c) PROVE CallInv(c)'
  <2>1. pc[c] = "share" /\ todo[c] = {}
        /\ pc'[c] = (IF Cardinality(shares[c]) < MinSigners THEN "failed" ELSE "ok") /\ UNCHANGED made
    BY <1>6 DEF Finish, TypeOK
  <2>2. /\ Coord[c] \in shares[c] /\ Committed(c) = shares[c] \cup todo[c]
        /\ Cardinality(Committed(c)) = MinSigners
        /\ \A q \in shares[c] : made[q][commits[c][q]] = 1
    BY <1>0, <2>1 DEF CallInv
  <2>3. Cardinality(shares[c]) = MinSigners
    <3>1. Committed(c) = shares[c]
      BY <2>1, <2>2
    <3> QED
      BY <2>2, <3>1
  <2>4. pc'[c] = "ok"
    BY <2>1, <2>3, SignersAssumption
  <2>5. Committed(c)' = Committed(c)
    BY <1>0 DEF Committed
  <2> QED
    BY <1>0, <1>1, <2>1, <2>2, <2>4, <2>5 DEF CallInv, Running
<1>7. RivalsMet'
  BY <1>0, <1>1, RivalsStay
<1> QED
  BY <1>3, <1>4, <1>5, <1>6, <1>7, CallByCallNext

\* A timeout is on record, whatever becomes of the request.
LEMMA TimeoutCalls ==
    ASSUME TypeOK, CallsInv, NEW c \in Call, NEW p \in Node, AttemptTimesOut(c, p)
    PROVE  CallsInv'
<1>0. /\ UNCHANGED <<pending, drawn, callVars, made, met>> /\ RivalsMet
      /\ \A d \in Call : lost[d] \subseteq lost'[d]
  BY CallByCall DEF AttemptTimesOut, TypeOK
<1>1. ASSUME NEW d \in Call PROVE CallInv(d)'
  <2>1. CallInv(d) /\ MadeStays
    BY <1>0, CallByCall DEF MadeStays
  <2>2. Undisturbed(d)
    BY <1>0 DEF Undisturbed, callVars
  <2> QED
    BY <2>1, <2>2, UndisturbedStays
<1>2. RivalsMet'
  BY <1>0, RivalsStay DEF callVars
<1> QED
  BY <1>1, <1>2, CallByCallNext

\* A late request is on record at every running call of its session.
LEMMA StrayCalls ==
    ASSUME TypeOK, NonceSignsOnce', CallsInv, NEW r \in strays, StrayArrives(r)
    PROVE  CallsInv'
<1>0. /\ r.to \in Node /\ r.call \in Call /\ sess[r.call] \in Session
      /\ UNCHANGED <<callVars, lost>> /\ RivalsMet
      /\ \A d \in Call : met'[d] = (met[d] \/ (sess[d] = sess[r.call] /\ pc[d] \in Running))
  BY CallByCall DEF StrayArrives, TypeOK, Request
<1>1. MadeStays /\ \A q \in Node, t \in Session : t # sess[r.call] => pending'[q][t] = pending[q][t]
  <2>1. CASE HandleCommit(r.to, sess[r.call]) /\ made' = made
    BY <1>0, <2>1 DEF HandleCommit, TypeOK, MadeStays
  <2>2. CASE HandleSignShare(r.to, r.call)
    BY <1>0, <2>2, SignShareStays DEF HandleSignShare, TypeOK
  <2> QED
    BY <2>1, <2>2 DEF StrayArrives
<1>2. ASSUME NEW d \in Call PROVE CallInv(d)'
  <2>1. CallInv(d) /\ Keepers(d) \subseteq Node /\ sess[d] \in Session
    BY CallByCall DEF Keepers, Committed, TypeOK
  <2>2. Undisturbed(d)
    BY <1>0, <1>1, <2>1 DEF Undisturbed, callVars
  <2> QED
    BY <1>1, <2>1, <2>2, UndisturbedStays
<1>3. RivalsMet'
  BY <1>0, RivalsStay DEF callVars
<1> QED
  BY <1>2, <1>3, CallByCallNext

\* A restart fails the calls of its node, and is on record at every call it takes
\* a nonce from.
LEMMA RestartCalls ==
    ASSUME TypeOK, CallsInv, NEW n \in Node, CrashRestart(n)
    PROVE  CallsInv'
<1>0. /\ UNCHANGED <<drawn, sess, commits, shares, strays, made, met>> /\ RivalsMet /\ MadeStays
      /\ \A c \in Call : pc'[c] = IF Coord[c] = n /\ pc[c] \in Running THEN "failed" ELSE pc[c]
      /\ \A c \in Call : todo'[c] = IF Coord[c] = n THEN {} ELSE todo[c]
      /\ \A c \in Call : lost'[c] = IF pc[c] \in Running /\ (Coord[c] = n \/ pending[n][sess[c]] # NoNonce)
                                    THEN lost[c] \cup {n} ELSE lost[c]
  BY CallByCall DEF CrashRestart, MadeStays
<1>1. \A q \in Node, t \in Session : pending'[q][t] = IF q = n THEN NoNonce ELSE pending[q][t]
  BY DEF CrashRestart, TypeOK
<1>2. ASSUME NEW c \in Call PROVE CallInv(c)'
  <2>0. CallInv(c) /\ Keepers(c) \subseteq Node /\ sess[c] \in Session
    BY CallByCall DEF Keepers, Committed, TypeOK
  <2>1. CASE Coord[c] = n /\ pc[c] \in Running
    <3>1. pc'[c] = "failed" /\ lost'[c] # {}
      BY <1>0, <2>1
    <3> QED
      BY <3>1 DEF CallInv, Running
  <2>2. CASE Coord[c] = n /\ pc[c] \notin Running
    <3>1. pc'[c] = pc[c] /\ todo'[c] = {} /\ lost'[c] = lost[c] /\ commits'[c] = commits[c]
          /\ shares'[c] = shares[c]
      BY <1>0, <2>2
    <3>2. Committed(c)' = Committed(c)
      BY <3>1 DEF Committed
    <3> QED
      BY <1>0, <2>0, <2>2, <3>1, <3>2 DEF CallInv, Running
  <2>3. CASE Coord[c] # n
    <3>1. Undisturbed(c)
      BY <1>0, <1>1, <2>0, <2>3 DEF Undisturbed
    <3> QED
      BY <1>0, <2>0, <3>1, UndisturbedStays
  <2> QED
    BY <2>1, <2>2, <2>3
<1>3. RivalsMet'
  BY <1>0, RivalsStay DEF Running
<1> QED
  BY <1>2, <1>3, CallByCallNext

----
\* Every step keeps what holds of the calls.
LEMMA CallsStep == TypeOK /\ NonceInv /\ CallsInv /\ [Next]_vars /\ NonceInv' => CallsInv'
<1> SUFFICES ASSUME TypeOK, NonceInv, CallsInv, [Next]_vars, NonceInv' PROVE CallsInv'
  OBVIOUS
<1>0. NonceSignsOnce'
  BY DEF NonceInv
<1>1. ASSUME NEW c \in Call, Start(c) \/ Pack(c) PROVE CallsInv'
  BY <1>0, <1>1, StartCalls, PackCalls
<1>2. ASSUME NEW c \in Call, Finish(c) PROVE CallsInv'
  <2>1. \E p : p \in Node
    BY NodeAssumption
  <2> QED
    BY <1>0, <1>2, <2>1, EndCalls
<1>3. ASSUME NEW c \in Call, NEW p \in Node, Step(c, p) PROVE CallsInv'
  BY <1>0, <1>3, CommitCalls, TimeoutCalls, EndCalls, ShareCalls DEF Step
<1>4. ASSUME NEW r \in strays, StrayArrives(r) PROVE CallsInv'
  BY <1>0, <1>4, StrayCalls
<1>5. ASSUME NEW n \in Node, CrashRestart(n) PROVE CallsInv'
  BY <1>5, RestartCalls
<1>6. CASE UNCHANGED vars
  BY <1>6 DEF vars, callVars, CallsInv, IdleIsClean, AnsweredCommitted, PackageIsWhole, OkIsDone,
              RivalsMet, NoncesKept, FailureHasCause, Committed, Keepers
<1> QED
  BY <1>1, <1>2, <1>3, <1>4, <1>5, <1>6 DEF Next

\* What holds of the calls, in every reachable state.
THEOREM CallsInvariance == Spec => []CallsInv
<1>1. Init => TypeOK /\ NonceInv /\ CallsInv
  BY InitInv, CallsInit
<1>2. (TypeOK /\ NonceInv /\ CallsInv) /\ [Next]_vars => (TypeOK /\ NonceInv /\ CallsInv)'
  BY TypeStep, NonceStep, CallsStep DEF NonceInv
<1> QED
  BY <1>1, <1>2, PTL DEF Spec

\* A call that returned a signature aggregated exactly min_signers shares, its own
\* among them, each made with the nonce its package names and with no other.
THEOREM SignatureIsWhole == Spec => []OkIsWhole
<1>1. CallsInv => OkIsWhole
  <2> SUFFICES ASSUME CallsInv, NEW c \in Call, pc[c] = "ok"
               PROVE  /\ Cardinality(shares[c]) = MinSigners
                      /\ Coord[c] \in shares[c]
                      /\ shares[c] = Committed(c)
                      /\ \A p \in shares[c] : made[p][commits[c][p]] = 1
    BY DEF OkIsWhole
  <2>1. /\ Coord[c] \in shares[c] /\ Committed(c) = shares[c] \cup todo[c]
        /\ Cardinality(Committed(c)) = MinSigners /\ todo[c] = {}
        /\ \A p \in shares[c] : made[p][commits[c][p]] = 1
    BY DEF CallsInv, PackageIsWhole, OkIsDone
  <2>2. Committed(c) = shares[c]
    BY <2>1
  <2> QED
    BY <2>1, <2>2
<1> QED
  BY <1>1, CallsInvariance, PTL

\* A call fails only because an answer or a nonce was lost during it or a request
\* of its own session crossed it.
THEOREM FailuresHaveCauses == Spec => []FailureHasCause
<1>1. CallsInv => FailureHasCause
  BY DEF CallsInv
<1> QED
  BY <1>1, CallsInvariance, PTL
====
