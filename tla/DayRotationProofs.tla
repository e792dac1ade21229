---- MODULE DayRotationProofs ----
(***************************************************************************)
(* Proofs about DayRotation for every mesh, every number of days and every *)
(* signing threshold.                                                      *)
(*                                                                         *)
(* The quorum: a vote in p's name, wherever it is held (a map, a file, a   *)
(* stray request, an unrecorded answer), is for a day that p itself has    *)
(* recorded a vote for.  A count of votes is then a count of such nodes.   *)
(*                                                                         *)
(* The file: a day the node ever stood for (in memory, in a call that has  *)
(* moved it, run the hook for it or returned it) is overtaken if any call  *)
(* has still to write an older one.  A day that is not overtaken is thus   *)
(* never above the day in memory, and once written never above the file,   *)
(* so that no restart brings the node back before it.                      *)
(***************************************************************************)
EXTENDS DayRotation, FiniteSetTheorems, TLAPS

Known(d) == {p \in Node : d \in told[p]}

\* Votes in memory, on disk, on their way and in answers are for known days.
VotesAreTold == \A n, p \in Node : votes[n][p] # NoDay => votes[n][p] \in told[p]
FilesAreTold == \A n, p \in Node : diskVotes[n][p] # NoDay => diskVotes[n][p] \in told[p]
StraysAreTold == \A r \in strays : r.day \in told[r.voter]
AnswersAreTold ==
    \A k \in Call :
        /\ pc[k] = "exchange" => live[k] \in told[Owner[k]]
        /\ pc[k] # "exchange" => got[k] = {}
        /\ \A p \in got[k] : live[k] \in told[p]

\* A call past the count knows a quorum.
CountIsKnown == \A k \in Call : pc[k] = "counted" => Cardinality(Known(live[k])) >= Quorum

ToldInv ==
    /\ VotesAreTold
    /\ FilesAreTold
    /\ StraysAreTold
    /\ AnswersAreTold

IInv == TypeOK /\ ToldInv /\ CountIsKnown /\ AdvanceIsKnown

----
\* record_vote keeps the types of what it writes.
LEMMA RecordVoteType ==
    ASSUME TypeOK, NEW n \in Node, NEW v \in Node, NEW d \in Day, NEW saved \in BOOLEAN,
           RecordVote(n, v, d, saved)
    PROVE  /\ votes' \in [Node -> [Node -> Day \cup {NoDay}]]
           /\ diskVotes' \in [Node -> [Node -> Day \cup {NoDay}]]
           /\ told' \in [Node -> SUBSET Day]
<1>1. votes' \in [Node -> [Node -> Day \cup {NoDay}]]
  BY DEF TypeOK, RecordVote
<1>2. diskVotes' \in [Node -> [Node -> Day \cup {NoDay}]]
  BY <1>1 DEF TypeOK, RecordVote
<1>3. told' \in [Node -> SUBSET Day]
  BY DEF TypeOK, RecordVote
<1> QED
  BY <1>1, <1>2, <1>3

\* The outcomes of a write are Booleans, whether or not writes may fail.
LEMMA SavedType == Saved \subseteq BOOLEAN
  BY DEF Saved

\* The initial state has its types and holds no votes.
LEMMA InitInv == Init => IInv
<1> SUFFICES ASSUME Init PROVE IInv
  OBVIOUS
<1>1. 1 \in Day
  BY DayAssumption DEF Day
<1>2. TypeOK
  BY <1>1 DEF Init, TypeOK, Where, HookOutcome, Vote
<1>3. ToldInv
  BY DEF Init, ToldInv, VotesAreTold, FilesAreTold, StraysAreTold, AnswersAreTold
<1>4. CountIsKnown /\ AdvanceIsKnown
  BY DEF Init, CountIsKnown, AdvanceIsKnown
<1> QED
  BY <1>2, <1>3, <1>4 DEF IInv

\* Every step keeps the types.
LEMMA TypeStep == TypeOK /\ [Next]_vars => TypeOK'
<1> SUFFICES ASSUME TypeOK, [Next]_vars PROVE TypeOK'
  OBVIOUS
<1> USE DEF files, callVars, history
<1>1. ASSUME NEW k \in Call, NEW saved \in BOOLEAN, Begin(k, saved) PROVE TypeOK'
  <2>1. Owner[k] \in Node /\ clock[Owner[k]] \in Day
    BY OwnerAssumption DEF TypeOK
  <2>2. RecordVote(Owner[k], Owner[k], clock[Owner[k]], saved)
    BY <1>1 DEF Begin
  <2>3. /\ votes' \in [Node -> [Node -> Day \cup {NoDay}]]
        /\ diskVotes' \in [Node -> [Node -> Day \cup {NoDay}]]
        /\ told' \in [Node -> SUBSET Day]
    BY <2>1, <2>2, RecordVoteType
  <2> QED
    BY <1>1, <2>1, <2>3 DEF Begin, TypeOK, Where
<1>2. ASSUME NEW k \in Call, NEW p \in Node, PeerAnswers(k, p) PROVE TypeOK'
  <2>1. Owner[k] \in Node /\ live[k] \in Day
    BY OwnerAssumption DEF TypeOK
  <2>2. /\ votes' \in [Node -> [Node -> Day \cup {NoDay}]]
        /\ diskVotes' \in [Node -> [Node -> Day \cup {NoDay}]]
        /\ told' \in [Node -> SUBSET Day]
    BY <1>2, <2>1, RecordVoteType DEF PeerAnswers
  <2> QED
    BY <1>2, <2>2 DEF PeerAnswers, TypeOK
<1>3. ASSUME NEW k \in Call, NEW p \in Node, PeerRefuses(k, p) PROVE TypeOK'
  <2>1. Owner[k] \in Node /\ live[k] \in Day
    BY OwnerAssumption DEF TypeOK
  <2>2. /\ votes' \in [Node -> [Node -> Day \cup {NoDay}]]
        /\ diskVotes' \in [Node -> [Node -> Day \cup {NoDay}]]
        /\ told' \in [Node -> SUBSET Day]
    BY <1>3, <2>1, RecordVoteType DEF PeerRefuses
  <2> QED
    BY <1>3, <2>2 DEF PeerRefuses, TypeOK
<1>4. ASSUME NEW k \in Call, NEW p \in Node, AttemptTimesOut(k, p) PROVE TypeOK'
  <2>1. [to |-> p, voter |-> Owner[k], day |-> live[k]] \in Vote
    BY OwnerAssumption DEF TypeOK, Vote
  <2> QED
    BY <1>4, <2>1 DEF AttemptTimesOut, TypeOK
<1>5. ASSUME NEW k \in Call, NEW p \in Node, PeerGivenUp(k, p) PROVE TypeOK'
  BY <1>5 DEF PeerGivenUp, TypeOK
<1>6. ASSUME NEW k \in Call, NEW p \in Node, NEW saved \in BOOLEAN, RecordPeerVote(k, p, saved)
      PROVE TypeOK'
  <2>1. Owner[k] \in Node /\ live[k] \in Day
    BY OwnerAssumption DEF TypeOK
  <2>2. /\ votes' \in [Node -> [Node -> Day \cup {NoDay}]]
        /\ diskVotes' \in [Node -> [Node -> Day \cup {NoDay}]]
        /\ told' \in [Node -> SUBSET Day]
    BY <1>6, <2>1, RecordVoteType DEF RecordPeerVote
  <2> QED
    BY <1>6, <2>2 DEF RecordPeerVote, TypeOK, Where
<1>7. ASSUME NEW k \in Call, CountVotes(k) PROVE TypeOK'
  BY <1>7 DEF CountVotes, TypeOK, Where
<1>8. ASSUME NEW k \in Call, SetCurrent(k) PROVE TypeOK'
  <2>1. Owner[k] \in Node /\ live[k] \in Day
    BY OwnerAssumption DEF TypeOK
  <2>2. pc' \in [Call -> Where]
    BY <1>8 DEF SetCurrent, TypeOK, Where
  <2>3. /\ current' \in [Node -> Day] /\ moved' \in [Node -> SUBSET Day]
        /\ overtaken' \in [Node -> SUBSET Day]
    <3>1. UNCHANGED <<current, moved, overtaken>> \/ MoveTo(Owner[k], live[k])
      BY <1>8 DEF SetCurrent
    <3>2. CASE UNCHANGED <<current, moved, overtaken>>
      BY <3>2 DEF TypeOK
    <3>3. CASE MoveTo(Owner[k], live[k])
      <4>1. current' \in [Node -> Day]
        BY <2>1, <3>3 DEF TypeOK, MoveTo
      <4>2. moved[Owner[k]] \cup {live[k]} \in SUBSET Day
        BY <2>1 DEF TypeOK
      <4>3. moved' \in [Node -> SUBSET Day]
        BY <2>1, <3>3, <4>2 DEF TypeOK, MoveTo
      <4>4. /\ overtaken[Owner[k]] \in SUBSET Day
            /\ overtaken[Owner[k]] \cup {live[k]} \in SUBSET Day
        BY <2>1 DEF TypeOK
      <4>5. overtaken' \in [Node -> SUBSET Day]
        BY <2>1, <3>3, <4>4 DEF TypeOK, MoveTo
      <4> QED
        BY <4>1, <4>3, <4>5
    <3> QED
      BY <3>1, <3>2, <3>3
  <2> QED
    BY <1>8, <2>2, <2>3 DEF SetCurrent, TypeOK
<1>9. ASSUME NEW k \in Call, PersistDay(k) PROVE TypeOK'
  <2>1. Owner[k] \in Node /\ live[k] \in Day /\ votes[Owner[k]] \in [Node -> Day \cup {NoDay}]
    BY OwnerAssumption DEF TypeOK
  <2>2. /\ diskDay' \in [Node -> Day \cup {NoDay}]
        /\ diskVotes' \in [Node -> [Node -> Day \cup {NoDay}]]
    BY <1>9, <2>1 DEF PersistDay, TypeOK
  <2>3. pc' \in [Call -> Where] /\ ok' \in [Node -> SUBSET Day]
    BY <1>9, <2>1 DEF PersistDay, TypeOK, Where
  <2> QED
    BY <1>9, <2>2, <2>3 DEF PersistDay, TypeOK
<1>10. ASSUME NEW k \in Call, NEW w \in BOOLEAN, PersistFails(k, w) PROVE TypeOK'
  BY <1>10, OwnerAssumption DEF PersistFails, TypeOK, Where
<1>11. ASSUME NEW k \in Call, NEW s \in BOOLEAN, Reshare(k, s) PROVE TypeOK'
  <2>1. Owner[k] \in Node /\ live[k] \in Day
    BY OwnerAssumption DEF TypeOK
  <2>2. hook' \in [Node -> [Day -> HookOutcome]]
    BY <1>11, <2>1 DEF Reshare, TypeOK, HookOutcome
  <2>3. pc' \in [Call -> Where] /\ ok' \in [Node -> SUBSET Day]
    BY <1>11, <2>1 DEF Reshare, TypeOK, Where
  <2> QED
    BY <1>11, <2>2, <2>3 DEF Reshare, TypeOK
<1>12. ASSUME NEW r \in strays, NEW saved \in BOOLEAN, StrayVote(r, saved) PROVE TypeOK'
  <2>1. r.to \in Node /\ r.voter \in Node /\ r.day \in Day
    BY DEF TypeOK, Vote
  <2>2. /\ votes' \in [Node -> [Node -> Day \cup {NoDay}]]
        /\ diskVotes' \in [Node -> [Node -> Day \cup {NoDay}]]
        /\ told' \in [Node -> SUBSET Day]
    BY <1>12, <2>1, RecordVoteType DEF StrayVote
  <2> QED
    BY <1>12, <2>2 DEF StrayVote, TypeOK
<1>13. ASSUME NEW n \in Node, NEW d \in AskedDays, NEW saved \in BOOLEAN, VoteSelf(n, d, saved)
       PROVE TypeOK'
  <2>1. d \in Day
    BY DayAssumption DEF Day
  <2>2. /\ votes' \in [Node -> [Node -> Day \cup {NoDay}]]
        /\ diskVotes' \in [Node -> [Node -> Day \cup {NoDay}]]
        /\ told' \in [Node -> SUBSET Day]
    BY <1>13, <2>1, RecordVoteType DEF VoteSelf
  <2> QED
    BY <1>13, <2>2 DEF VoteSelf, TypeOK
<1>14. ASSUME NEW n \in Node, Tick(n) PROVE TypeOK'
  <2>1. clock[n] + 1 \in Day
    BY <1>14, DayAssumption DEF Tick, TypeOK, Day
  <2> QED
    BY <1>14, <2>1 DEF Tick, TypeOK
<1>15. ASSUME NEW n \in Node, CrashRestart(n) PROVE TypeOK'
  BY <1>15 DEF CrashRestart, TypeOK, Where
<1>16. CASE UNCHANGED vars
  BY <1>16 DEF vars, TypeOK
<1> QED
  BY <1>1, <1>2, <1>3, <1>4, <1>5, <1>6, <1>7, <1>8, <1>9, <1>10, <1>11, <1>12, <1>13, <1>14,
     <1>15, <1>16, SavedType DEF Next, Advance, Exchange

----
\* What a step does to the votes: it records one, restores them from the file,
\* or leaves them alone.  In every case no node forgets a day it was told.
LEMMA ToldGrows ==
    ASSUME TypeOK, [Next]_vars
    PROVE  \A p \in Node : told[p] \subseteq told'[p]
<1> USE DEF files, callVars, history
<1>1. ASSUME NEW n \in Node, NEW v, NEW d, NEW saved, RecordVote(n, v, d, saved)
      PROVE  \A p \in Node : told[p] \subseteq told'[p]
  BY <1>1 DEF RecordVote, TypeOK
<1>2. ASSUME NEW k \in Call, Advance(k) PROVE \A p \in Node : told[p] \subseteq told'[p]
  <2>1. Owner[k] \in Node
    BY OwnerAssumption
  <2>2. CASE \E saved \in Saved : Begin(k, saved)
    BY <1>1, <2>1, <2>2 DEF Begin
  <2>3. CASE \E p \in Node : Exchange(k, p)
    BY <1>1, <2>1, <2>3
       DEF Exchange, PeerAnswers, PeerRefuses, AttemptTimesOut, PeerGivenUp, RecordPeerVote
  <2>4. CASE CountVotes(k) \/ SetCurrent(k) \/ PersistDay(k)
    BY <2>4 DEF CountVotes, SetCurrent, PersistDay
  <2>5. CASE \/ \E w \in BOOLEAN : PersistFails(k, w)
             \/ \E s \in BOOLEAN : Reshare(k, s)
    BY <2>5 DEF PersistFails, Reshare
  <2> QED
    BY <1>2, <2>2, <2>3, <2>4, <2>5 DEF Advance
<1>3. ASSUME NEW r \in strays, NEW saved \in Saved, StrayVote(r, saved)
      PROVE  \A p \in Node : told[p] \subseteq told'[p]
  <2>1. r.to \in Node
    BY DEF TypeOK, Vote
  <2> QED
    BY <1>1, <1>3, <2>1 DEF StrayVote
<1>4. ASSUME NEW n \in Node, NEW d \in AskedDays, NEW saved \in Saved, VoteSelf(n, d, saved)
      PROVE  \A p \in Node : told[p] \subseteq told'[p]
  BY <1>1, <1>4 DEF VoteSelf
<1>5. ASSUME NEW n \in Node, Tick(n) \/ CrashRestart(n)
      PROVE  \A p \in Node : told[p] \subseteq told'[p]
  BY <1>5 DEF Tick, CrashRestart
<1>6. CASE UNCHANGED vars
  BY <1>6 DEF vars
<1> QED
  BY <1>2, <1>3, <1>4, <1>5, <1>6 DEF Next

\* A vote recorded in the name of a node that knows the day keeps all votes known.
LEMMA RecordVoteTold ==
    ASSUME TypeOK, ToldInv, [Next]_vars,
           NEW n \in Node, NEW v \in Node, NEW d \in Day, NEW saved \in BOOLEAN,
           RecordVote(n, v, d, saved), d \in told[v] \/ v = n
    PROVE  VotesAreTold' /\ FilesAreTold' /\ d \in told'[n]
<1>1. \A p \in Node : told[p] \subseteq told'[p]
  BY ToldGrows
<1>2. d \in told'[n] /\ d \in told'[v]
  BY <1>1 DEF RecordVote, TypeOK
<1>3. VotesAreTold'
  <2> SUFFICES ASSUME NEW m \in Node, NEW p \in Node, votes'[m][p] # NoDay
               PROVE  votes'[m][p] \in told'[p]
    BY DEF VotesAreTold
  <2>1. votes'[m][p] = IF m = n /\ p = v THEN d ELSE votes[m][p]
    BY DEF RecordVote, TypeOK
  <2> QED
    BY <1>1, <1>2, <2>1 DEF ToldInv, VotesAreTold
<1>4. FilesAreTold'
  <2> SUFFICES ASSUME NEW m \in Node, NEW p \in Node, diskVotes'[m][p] # NoDay
               PROVE  diskVotes'[m][p] \in told'[p]
    BY DEF FilesAreTold
  <2>1. diskVotes'[m] = votes'[m] \/ diskVotes'[m] = diskVotes[m]
    BY DEF RecordVote, TypeOK
  <2> QED
    BY <1>1, <1>3, <2>1 DEF ToldInv, VotesAreTold, FilesAreTold
<1> QED
  BY <1>2, <1>3, <1>4

\* A step that neither records nor restores votes keeps them known.
LEMMA UntouchedVotes ==
    ASSUME TypeOK, ToldInv, [Next]_vars, votes' = votes, diskVotes' = diskVotes
    PROVE  VotesAreTold' /\ FilesAreTold'
  BY ToldGrows DEF ToldInv, VotesAreTold, FilesAreTold

\* Strays that are not new stay known.
LEMMA OldStrays ==
    ASSUME TypeOK, ToldInv, [Next]_vars, strays' \subseteq strays
    PROVE  StraysAreTold'
<1> SUFFICES ASSUME NEW r \in strays PROVE r.day \in told'[r.voter]
  BY DEF StraysAreTold
<1>1. r.voter \in Node
  BY DEF TypeOK, Vote
<1> QED
  BY <1>1, ToldGrows DEF ToldInv, StraysAreTold

\* Calls that a step leaves alone keep what they know.
LEMMA OtherCalls ==
    ASSUME TypeOK, ToldInv, [Next]_vars, NEW j \in Call,
           live'[j] = live[j], got'[j] = got[j], pc'[j] = pc[j]
    PROVE  /\ pc'[j] = "exchange" => live'[j] \in told'[Owner[j]]
           /\ pc'[j] # "exchange" => got'[j] = {}
           /\ \A p \in got'[j] : live'[j] \in told'[p]
<1>1. Owner[j] \in Node /\ got[j] \subseteq Node
  BY OwnerAssumption DEF TypeOK
<1> QED
  BY <1>1, ToldGrows DEF ToldInv, AnswersAreTold

\* Every step keeps the votes known.
LEMMA ToldStep == TypeOK /\ ToldInv /\ [Next]_vars => ToldInv'
<1> SUFFICES ASSUME TypeOK, ToldInv, [Next]_vars PROVE ToldInv'
  OBVIOUS
<1> USE DEF files, callVars, history
<1>1. ASSUME NEW k \in Call, NEW saved \in BOOLEAN, Begin(k, saved) PROVE ToldInv'
  <2>1. Owner[k] \in Node /\ clock[Owner[k]] \in Day
    BY OwnerAssumption DEF TypeOK
  <2>2. VotesAreTold' /\ FilesAreTold' /\ clock[Owner[k]] \in told'[Owner[k]]
    BY <1>1, <2>1, RecordVoteTold DEF Begin
  <2>3. StraysAreTold'
    BY <1>1, OldStrays DEF Begin
  <2>4. got[k] = {}
    BY <1>1 DEF Begin, ToldInv, AnswersAreTold
  <2>5. AnswersAreTold'
    <3> SUFFICES ASSUME NEW j \in Call
                 PROVE  /\ pc'[j] = "exchange" => live'[j] \in told'[Owner[j]]
                        /\ pc'[j] # "exchange" => got'[j] = {}
                        /\ \A p \in got'[j] : live'[j] \in told'[p]
      BY DEF AnswersAreTold
    <3>1. CASE j = k
      BY <1>1, <2>2, <2>4, <3>1 DEF Begin, TypeOK
    <3>2. CASE j # k
      BY <1>1, <3>2, OtherCalls DEF Begin, TypeOK
    <3> QED
      BY <3>1, <3>2
  <2> QED
    BY <2>2, <2>3, <2>5 DEF ToldInv
<1>2. ASSUME NEW k \in Call, NEW p \in Node, PeerAnswers(k, p) \/ PeerRefuses(k, p) PROVE ToldInv'
  <2>1. /\ Owner[k] \in Node /\ live[k] \in Day
        /\ pc[k] = "exchange" /\ live[k] \in told[Owner[k]]
    BY <1>2, OwnerAssumption DEF PeerAnswers, PeerRefuses, TypeOK, ToldInv, AnswersAreTold
  <2>2. VotesAreTold' /\ FilesAreTold' /\ live[k] \in told'[p]
    BY <1>2, <2>1, RecordVoteTold DEF PeerAnswers, PeerRefuses
  <2>3. StraysAreTold'
    BY <1>2, OldStrays DEF PeerAnswers, PeerRefuses
  <2>4. AnswersAreTold'
    <3> SUFFICES ASSUME NEW j \in Call
                 PROVE  /\ pc'[j] = "exchange" => live'[j] \in told'[Owner[j]]
                        /\ pc'[j] # "exchange" => got'[j] = {}
                        /\ \A q \in got'[j] : live'[j] \in told'[q]
      BY DEF AnswersAreTold
    <3>1. pc' = pc /\ live' = live /\ got'[j] \in {got[j], got[j] \cup {p}}
      BY <1>2 DEF PeerAnswers, PeerRefuses, TypeOK
    <3>2. CASE j = k
      BY <2>1, <2>2, <3>1, <3>2, ToldGrows DEF ToldInv, AnswersAreTold, TypeOK
    <3>3. CASE j # k
      BY <1>2, <3>1, <3>3, OtherCalls DEF PeerAnswers, PeerRefuses, TypeOK
    <3> QED
      BY <3>2, <3>3
  <2> QED
    BY <2>2, <2>3, <2>4 DEF ToldInv
<1>3. ASSUME NEW k \in Call, NEW p \in Node, AttemptTimesOut(k, p) PROVE ToldInv'
  <2>1. live[k] \in told[Owner[k]] /\ Owner[k] \in Node
    BY <1>3, OwnerAssumption DEF AttemptTimesOut, ToldInv, AnswersAreTold
  <2>2. VotesAreTold' /\ FilesAreTold'
    BY <1>3, UntouchedVotes DEF AttemptTimesOut
  <2>3. StraysAreTold'
    BY <1>3, <2>1 DEF AttemptTimesOut, ToldInv, StraysAreTold
  <2>4. AnswersAreTold'
    BY <1>3, OtherCalls DEF AttemptTimesOut, AnswersAreTold
  <2> QED
    BY <2>2, <2>3, <2>4 DEF ToldInv
<1>4. ASSUME NEW k \in Call, NEW p \in Node, PeerGivenUp(k, p) PROVE ToldInv'
  BY <1>4, UntouchedVotes, OldStrays, OtherCalls DEF PeerGivenUp, AnswersAreTold, ToldInv
<1>5. ASSUME NEW k \in Call, NEW p \in Node, NEW saved \in BOOLEAN, RecordPeerVote(k, p, saved)
      PROVE ToldInv'
  <2>1. Owner[k] \in Node /\ live[k] \in Day /\ live[k] \in told[p] /\ got[k] \subseteq Node
    BY <1>5, OwnerAssumption DEF RecordPeerVote, TypeOK, ToldInv, AnswersAreTold
  <2>2. VotesAreTold' /\ FilesAreTold'
    BY <1>5, <2>1, RecordVoteTold DEF RecordPeerVote
  <2>3. StraysAreTold'
    BY <1>5, OldStrays DEF RecordPeerVote
  <2>4. AnswersAreTold'
    <3> SUFFICES ASSUME NEW j \in Call
                 PROVE  /\ pc'[j] = "exchange" => live'[j] \in told'[Owner[j]]
                        /\ pc'[j] # "exchange" => got'[j] = {}
                        /\ \A q \in got'[j] : live'[j] \in told'[q]
      BY DEF AnswersAreTold
    <3>1. CASE j = k
      <4>1. /\ live' = live
            /\ got'[k] \subseteq got[k]
            /\ pc'[k] = "exchange" \/ (pc'[k] = "idle" /\ got'[k] = {})
        BY <1>5 DEF RecordPeerVote, TypeOK
      <4>2. live[k] \in told[Owner[k]] /\ \A q \in got[k] : live[k] \in told[q]
        BY <1>5 DEF RecordPeerVote, ToldInv, AnswersAreTold
      <4> QED
        BY <2>1, <3>1, <4>1, <4>2, ToldGrows
    <3>2. CASE j # k
      BY <1>5, <3>2, OtherCalls DEF RecordPeerVote, TypeOK
    <3> QED
      BY <3>1, <3>2
  <2> QED
    BY <2>2, <2>3, <2>4 DEF ToldInv
<1>6. ASSUME NEW k \in Call, CountVotes(k) PROVE ToldInv'
  <2>1. VotesAreTold' /\ FilesAreTold' /\ StraysAreTold'
    BY <1>6, UntouchedVotes, OldStrays DEF CountVotes
  <2>2. AnswersAreTold'
    BY <1>6 DEF CountVotes, ToldInv, AnswersAreTold, TypeOK
  <2> QED
    BY <2>1, <2>2 DEF ToldInv
<1>7. ASSUME NEW k \in Call,
             \/ SetCurrent(k) \/ PersistDay(k)
             \/ \E w \in BOOLEAN : PersistFails(k, w)
             \/ \E s \in BOOLEAN : Reshare(k, s)
      PROVE ToldInv'
  <2>1. /\ votes' = votes /\ strays' = strays /\ told' = told /\ live' = live /\ got' = got
        /\ pc[k] # "exchange" /\ pc'[k] # "exchange"
        /\ \A j \in Call \ {k} : pc'[j] = pc[j]
    <3>1. CASE SetCurrent(k)
      BY <3>1 DEF SetCurrent, TypeOK
    <3>2. CASE PersistDay(k)
      BY <3>2 DEF PersistDay, TypeOK
    <3>3. CASE \E w \in BOOLEAN : PersistFails(k, w)
      BY <3>3 DEF PersistFails, TypeOK
    <3>4. CASE \E s \in BOOLEAN : Reshare(k, s)
      BY <3>4 DEF Reshare, TypeOK
    <3> QED
      BY <1>7, <3>1, <3>2, <3>3, <3>4
  <2>2. \A n \in Node : diskVotes'[n] = diskVotes[n] \/ diskVotes'[n] = votes[n]
    BY <1>7, OwnerAssumption DEF SetCurrent, PersistDay, PersistFails, Reshare, TypeOK
  <2>3. VotesAreTold' /\ FilesAreTold' /\ StraysAreTold'
    BY <2>1, <2>2 DEF ToldInv, VotesAreTold, FilesAreTold, StraysAreTold
  <2>4. AnswersAreTold'
    BY <2>1 DEF ToldInv, AnswersAreTold
  <2> QED
    BY <2>3, <2>4 DEF ToldInv
<1>8. ASSUME NEW r \in strays, NEW saved \in BOOLEAN, StrayVote(r, saved) PROVE ToldInv'
  <2>1. r.to \in Node /\ r.voter \in Node /\ r.day \in Day /\ r.day \in told[r.voter]
    BY DEF TypeOK, Vote, ToldInv, StraysAreTold
  <2>2. VotesAreTold' /\ FilesAreTold'
    BY <1>8, <2>1, RecordVoteTold DEF StrayVote
  <2>3. StraysAreTold'
    BY <1>8, OldStrays DEF StrayVote
  <2>4. AnswersAreTold'
    BY <1>8, OtherCalls DEF StrayVote, AnswersAreTold
  <2> QED
    BY <2>2, <2>3, <2>4 DEF ToldInv
<1>9. ASSUME NEW n \in Node, NEW d \in AskedDays, NEW saved \in BOOLEAN, VoteSelf(n, d, saved)
      PROVE ToldInv'
  <2>1. d \in Day
    BY DayAssumption DEF Day
  <2>2. VotesAreTold' /\ FilesAreTold'
    BY <1>9, <2>1, RecordVoteTold DEF VoteSelf
  <2>3. StraysAreTold' /\ AnswersAreTold'
    BY <1>9, OldStrays, OtherCalls DEF VoteSelf, AnswersAreTold
  <2> QED
    BY <2>2, <2>3 DEF ToldInv
<1>10. ASSUME NEW n \in Node, Tick(n) PROVE ToldInv'
  BY <1>10 DEF Tick, ToldInv, VotesAreTold, FilesAreTold, StraysAreTold, AnswersAreTold
<1>11. ASSUME NEW n \in Node, CrashRestart(n) PROVE ToldInv'
  <2>1. /\ told' = told /\ strays' = strays /\ diskVotes' = diskVotes /\ live' = live
        /\ \A m \in Node : votes'[m] = votes[m] \/ votes'[m] = diskVotes[m]
    BY <1>11 DEF CrashRestart, TypeOK
  <2>2. VotesAreTold' /\ FilesAreTold' /\ StraysAreTold'
    BY <2>1 DEF ToldInv, VotesAreTold, FilesAreTold, StraysAreTold
  <2>3. AnswersAreTold'
    BY <1>11, <2>1 DEF CrashRestart, ToldInv, AnswersAreTold
  <2> QED
    BY <2>2, <2>3 DEF ToldInv
<1>12. CASE UNCHANGED vars
  BY <1>12 DEF vars, ToldInv, VotesAreTold, FilesAreTold, StraysAreTold, AnswersAreTold
<1> QED
  BY <1>1, <1>2, <1>3, <1>4, <1>5, <1>6, <1>7, <1>8, <1>9, <1>10, <1>11, <1>12, SavedType
     DEF Next, Advance, Exchange

----
\* A quorum that knows a day keeps knowing it.
LEMMA KnownGrows ==
    ASSUME TypeOK, [Next]_vars, NEW d, Cardinality(Known(d)) >= Quorum
    PROVE  Cardinality(Known(d)') >= Quorum
<1>1. Known(d) \subseteq Known(d)' /\ Known(d)' \subseteq Node
  BY ToldGrows DEF Known
<1>2. IsFiniteSet(Known(d)') /\ IsFiniteSet(Known(d))
  BY <1>1, NodeAssumption, FS_Subset
<1>3. Cardinality(Known(d)) <= Cardinality(Known(d)')
  BY <1>1, <1>2, FS_Subset
<1>4. Cardinality(Known(d)) \in Nat /\ Cardinality(Known(d)') \in Nat
  BY <1>2, FS_CardinalityType
<1>5. Quorum \in Nat
  BY NodeAssumption, SigningTAssumption, FS_CardinalityType DEF Quorum, QuorumTwoThirds
<1> QED
  BY <1>3, <1>4, <1>5

\* The count of votes for a day is at most the number of nodes that know it.
LEMMA CountedAreKnown ==
    ASSUME TypeOK, VotesAreTold, NEW n \in Node, NEW d \in Day,
           ~(Cardinality(VotersFor(n, d)) < Quorum)
    PROVE  Cardinality(Known(d)) >= Quorum
<1>1. d # NoDay
  BY DEF Day, NoDay
<1>2. VotersFor(n, d) \subseteq Known(d) /\ Known(d) \subseteq Node
  BY <1>1 DEF VotersFor, Known, VotesAreTold
<1>3. IsFiniteSet(Known(d)) /\ IsFiniteSet(VotersFor(n, d))
  BY <1>2, NodeAssumption, FS_Subset
<1>4. Cardinality(VotersFor(n, d)) <= Cardinality(Known(d))
  BY <1>2, <1>3, FS_Subset
<1>5. Cardinality(VotersFor(n, d)) \in Nat /\ Cardinality(Known(d)) \in Nat
  BY <1>3, FS_CardinalityType
<1>6. Quorum \in Nat
  BY NodeAssumption, SigningTAssumption, FS_CardinalityType DEF Quorum, QuorumTwoThirds
<1> QED
  BY <1>4, <1>5, <1>6

\* Only CountVotes lets a call pass the count, and only a call past the count
\* moves a day.
LEMMA CountStep ==
    ASSUME TypeOK, ToldInv, [Next]_vars
    PROVE  /\ \A k \in Call :
                pc'[k] = "counted" =>
                    /\ live'[k] = live[k]
                    /\ \/ pc[k] = "counted"
                       \/ ~(Cardinality(VotersFor(Owner[k], live[k])) < Quorum)
           /\ \A n \in Node : \A d \in moved'[n] :
                \/ d \in moved[n]
                \/ \E k \in Call : pc[k] = "counted" /\ live[k] = d
<1> DEFINE Passed(k) == pc'[k] = "counted" =>
                          /\ live'[k] = live[k]
                          /\ \/ pc[k] = "counted"
                             \/ ~(Cardinality(VotersFor(Owner[k], live[k])) < Quorum)
           Moved(n, d) == \/ d \in moved[n]
                          \/ \E k \in Call : pc[k] = "counted" /\ live[k] = d
           Goal == /\ \A k \in Call : Passed(k)
                   /\ \A n \in Node : \A d \in moved'[n] : Moved(n, d)
<1> SUFFICES Goal
  OBVIOUS
<1> USE DEF files, callVars, history
<1>1. ASSUME NEW k \in Call, Advance(k) PROVE Goal
  <2>1. CASE \E saved \in Saved : Begin(k, saved)
    BY <2>1 DEF Begin, TypeOK
  <2>2. CASE \E p \in Node : Exchange(k, p)
    BY <2>2 DEF Exchange, PeerAnswers, PeerRefuses, AttemptTimesOut, PeerGivenUp,
                RecordPeerVote, TypeOK
  <2>3. CASE CountVotes(k)
    BY <2>3 DEF CountVotes, TypeOK
  <2>4. CASE SetCurrent(k)
    <3>1. \A j \in Call : Passed(j)
      BY <2>4 DEF SetCurrent, TypeOK
    <3>2. \A n \in Node : moved'[n] \subseteq moved[n] \cup {live[k]}
      <4>1. moved' = moved \/ moved' = [moved EXCEPT ![Owner[k]] = @ \cup {live[k]}]
        BY <2>4 DEF SetCurrent, MoveTo
      <4> QED
        BY <4>1, OwnerAssumption DEF TypeOK
    <3>3. pc[k] = "counted"
      BY <2>4 DEF SetCurrent
    <3> QED
      BY <3>1, <3>2, <3>3
  <2>5. CASE \/ PersistDay(k) \/ \E w \in BOOLEAN : PersistFails(k, w)
             \/ \E s \in BOOLEAN : Reshare(k, s)
    BY <2>5 DEF PersistDay, PersistFails, Reshare, TypeOK
  <2> QED
    BY <1>1, <2>1, <2>2, <2>3, <2>4, <2>5 DEF Advance
<1>2. ASSUME NEW r \in strays, NEW saved \in Saved, StrayVote(r, saved) PROVE Goal
  BY <1>2 DEF StrayVote
<1>3. ASSUME NEW n \in Node, NEW d \in AskedDays, NEW saved \in Saved, VoteSelf(n, d, saved)
      PROVE Goal
  BY <1>3 DEF VoteSelf
<1>4. ASSUME NEW n \in Node, Tick(n) \/ CrashRestart(n) PROVE Goal
  BY <1>4 DEF Tick, CrashRestart
<1>5. CASE UNCHANGED vars
  BY <1>5 DEF vars
<1> QED
  BY <1>1, <1>2, <1>3, <1>4, <1>5 DEF Next

\* The whole invariant is inductive.
LEMMA InvStep == IInv /\ [Next]_vars => IInv'
<1> SUFFICES ASSUME IInv, [Next]_vars PROVE IInv'
  OBVIOUS
<1> USE DEF IInv
<1>1. TypeOK'
  BY TypeStep
<1>2. ToldInv'
  BY ToldStep
<1>3. CountIsKnown'
  <2> SUFFICES ASSUME NEW k \in Call, pc'[k] = "counted"
               PROVE  Cardinality(Known(live[k])') >= Quorum /\ live'[k] = live[k]
    BY DEF CountIsKnown, Known
  <2>1. live'[k] = live[k] /\ Owner[k] \in Node /\ live[k] \in Day
    BY CountStep, OwnerAssumption DEF TypeOK
  <2>2. Cardinality(Known(live[k])) >= Quorum
    <3>1. CASE pc[k] = "counted"
      BY <3>1 DEF CountIsKnown
    <3>2. CASE ~(Cardinality(VotersFor(Owner[k], live[k])) < Quorum)
      BY <2>1, <3>2, CountedAreKnown DEF ToldInv
    <3> QED
      BY <3>1, <3>2, CountStep
  <2>3. \A d : Cardinality(Known(d)) >= Quorum => Cardinality(Known(d)') >= Quorum
    BY KnownGrows
  <2> QED
    BY <2>1, <2>2, <2>3
<1>4. AdvanceIsKnown'
  <2> SUFFICES ASSUME NEW n \in Node, NEW d \in moved'[n]
               PROVE  Cardinality(Known(d)') >= Quorum
    BY DEF AdvanceIsKnown, Known
  <2>1. CASE d \in moved[n]
    BY <2>1, KnownGrows DEF AdvanceIsKnown, Known
  <2>2. CASE \E k \in Call : pc[k] = "counted" /\ live[k] = d
    BY <2>2, KnownGrows DEF CountIsKnown
  <2> QED
    BY <2>1, <2>2, CountStep
<1> QED
  BY <1>1, <1>2, <1>3, <1>4

\* The inductive invariant holds in every reachable state.
THEOREM Invariance == Spec => []IInv
<1>1. Init => IInv
  BY InitInv
<1>2. IInv /\ [Next]_vars => IInv'
  BY InvStep
<1> QED
  BY <1>1, <1>2, PTL DEF Spec

\* Type correctness of the day rotation.
THEOREM TypeCorrect == Spec => []TypeOK
<1>1. IInv => TypeOK
  BY DEF IInv
<1> QED
  BY <1>1, Invariance, PTL

\* The day of a node moves only to a day that a quorum of the mesh has recorded
\* a vote for, for any number of nodes, calls in flight and lost answers.
THEOREM QuorumKnowsTheDay == Spec => []AdvanceIsKnown
<1>1. IInv => AdvanceIsKnown
  BY DEF IInv
<1> QED
  BY <1>1, Invariance, PTL

----
(***************************************************************************)
(* The file, whichever advances of a node overlap.                         *)
(***************************************************************************)

\* Days of n a call may still write or return, and days it finished with.
Pending(n) == {k \in Call : Owner[k] = n /\ pc[k] \in {"same", "changed", "reshare"}}
Finished(n) == ok[n] \cup {d \in Day : hook[n][d] # "none"}
Stood(n) == Finished(n) \cup {live[k] : k \in Pending(n)} \cup {current[n]}

\* A call that has still to write is no older than any of them, overtaken ones aside.
WriterIsNewest ==
    \A n \in Node : \A j \in Unwritten(n) : \A d \in Stood(n) \ overtaken[n] : d <= live[j]

MemoryIsNewest == \A n \in Node : \A d \in Stood(n) \ overtaken[n] : d <= current[n]

FinishedIsOnDisk == \A n \in Node : \A d \in Finished(n) \ overtaken[n] : d <= diskDay[n]

WrittenIsOnDisk ==
    \A k \in Call :
        pc[k] = "reshare" /\ live[k] \notin overtaken[Owner[k]] => live[k] <= diskDay[Owner[k]]

\* One call at most is about to run the hook for a day, and none ran it before.
HookIsDue ==
    \A k \in Call :
        pc[k] \in {"changed", "reshare"} /\ live[k] \notin overtaken[Owner[k]] =>
            /\ hook[Owner[k]][live[k]] = "none"
            /\ \A j \in Call \ {k} :
                  ~(/\ Owner[j] = Owner[k] /\ live[j] = live[k]
                    /\ pc[j] \in {"changed", "reshare"})

FileInv ==
    /\ WriterIsNewest
    /\ MemoryIsNewest
    /\ FinishedIsOnDisk
    /\ WrittenIsOnDisk
    /\ HookIsDue
    /\ ReshareOnce

\* All of these are days.
LEMMA StoodAreDays ==
    ASSUME TypeOK
    PROVE  /\ Day \subseteq Nat
           /\ \A k \in Call : Owner[k] \in Node /\ live[k] \in Day /\ live[k] \in Nat
           /\ \A n \in Node : /\ Stood(n) \subseteq Day /\ Finished(n) \subseteq Stood(n)
                             /\ current[n] \in Nat /\ diskDay[n] \in Nat
<1>1. Day \subseteq Nat /\ NoDay \in Nat
  BY DEF Day, NoDay
<1>2. \A k \in Call : Owner[k] \in Node /\ live[k] \in Day
  BY OwnerAssumption DEF TypeOK
<1>3. \A n \in Node : current[n] \in Day /\ diskDay[n] \in Day \cup {NoDay} /\ ok[n] \subseteq Day
  BY DEF TypeOK
<1>4. \A n \in Node : {live[k] : k \in Pending(n)} \subseteq Day
  BY <1>2 DEF Pending
<1>5. \A n \in Node : Finished(n) \subseteq Day
  BY <1>3 DEF Finished
<1>6. \A n \in Node : Stood(n) \subseteq Day /\ Finished(n) \subseteq Stood(n)
  BY <1>3, <1>4, <1>5 DEF Stood
<1> QED
  BY <1>1, <1>2, <1>3, <1>6

\* A step that moves no day, writes no file and lets no call past the count
\* keeps the file in order.
LEMMA QuietStep ==
    ASSUME TypeOK, FileInv, UNCHANGED <<current, diskDay, ok, hook, overtaken>>,
           \A k \in Call : \/ pc'[k] = pc[k] /\ live'[k] = live[k]
                           \/ pc'[k] \notin {"same", "changed", "reshare"}
    PROVE  FileInv'
<1>1. \A n \in Node : /\ Pending(n)' \subseteq Pending(n)
                      /\ Unwritten(n)' \subseteq Unwritten(n)
                      /\ \A k \in Pending(n)' \cup Unwritten(n)' : live'[k] = live[k]
  BY DEF Pending, Unwritten
<1>2. \A n \in Node : Finished(n)' = Finished(n) /\ Stood(n)' \subseteq Stood(n)
  BY <1>1 DEF Finished, Stood
<1>3. WriterIsNewest' /\ MemoryIsNewest' /\ FinishedIsOnDisk'
  BY <1>1, <1>2 DEF FileInv, WriterIsNewest, MemoryIsNewest, FinishedIsOnDisk
<1>4. WrittenIsOnDisk' /\ HookIsDue' /\ ReshareOnce'
  BY DEF FileInv, WrittenIsOnDisk, HookIsDue, ReshareOnce
<1> QED
  BY <1>3, <1>4 DEF FileInv

\* Moving a day, or finding it moved, keeps the file in order.
LEMMA MoveStep ==
    ASSUME TypeOK, FileInv, NEW k \in Call, SetCurrent(k)
    PROVE  FileInv'
<1> DEFINE o == Owner[k]
<1>1. o \in Node /\ live[k] \in Nat /\ current[o] \in Nat
  BY StoodAreDays
<1>2. /\ UNCHANGED <<diskDay, ok, hook, live>> /\ pc[k] = "counted"
      /\ \A j \in Call \ {k} : pc'[j] = pc[j]
  BY DEF SetCurrent, files, TypeOK
<1>3. CASE pc'[k] = "idle"
  <2>1. UNCHANGED <<current, overtaken>>
    BY <1>3 DEF SetCurrent, TypeOK
  <2> QED
    BY <1>2, <1>3, <2>1, QuietStep
<1>4. CASE pc'[k] # "idle"
  <2>1. \/ pc'[k] = "same" /\ live[k] = current[o] /\ UNCHANGED <<current, overtaken>>
        \/ pc'[k] = "changed" /\ live[k] > current[o] /\ MoveTo(o, live[k])
    BY <1>4 DEF SetCurrent, TypeOK
  <2>2. /\ current' = [current EXCEPT ![o] = live[k]]
        /\ \A n \in Node : overtaken[n] \subseteq overtaken'[n]
        /\ \A n \in Node \ {o} : overtaken'[n] = overtaken[n]
        /\ current[o] <= live[k]
    <3>1. CASE pc'[k] = "same" /\ live[k] = current[o] /\ UNCHANGED <<current, overtaken>>
      BY <1>1, <3>1 DEF TypeOK
    <3>2. CASE pc'[k] = "changed" /\ live[k] > current[o] /\ MoveTo(o, live[k])
      <4>1. /\ current' = [current EXCEPT ![o] = live[k]]
            /\ \/ overtaken' = [overtaken EXCEPT ![o] = @ \cup {live[k]}]
               \/ overtaken' = [overtaken EXCEPT ![o] = @]
        BY <3>2 DEF MoveTo
      <4>2. \A n \in Node : overtaken[n] \subseteq overtaken'[n]
        <5>1. overtaken \in [Node -> SUBSET Day]
          BY DEF TypeOK
        <5>2. \A n \in Node : overtaken'[n] \in {overtaken[n], overtaken[n] \cup {live[k]}}
          BY <1>1, <4>1, <5>1
        <5> QED
          BY <5>2
      <4>3. \A n \in Node \ {o} : overtaken'[n] = overtaken[n]
        BY <1>1, <4>1 DEF TypeOK
      <4>4. current[o] <= live[k]
        BY <1>1, <3>2
      <4> QED
        BY <4>1, <4>2, <4>3, <4>4
    <3> QED
      BY <2>1, <3>1, <3>2
  <2>3. \A j \in Unwritten(o) : live[j] < live[k] => live[k] \in overtaken'[o] \/ live[k] = current[o]
    BY <1>1, <2>1 DEF MoveTo, TypeOK
  <2>4. \A n \in Node : Finished(n)' = Finished(n)
    BY <1>2 DEF Finished
  <2>5. /\ \A n \in Node \ {o} : Stood(n)' = Stood(n) /\ Unwritten(n)' = Unwritten(n)
        /\ Stood(o)' \subseteq Stood(o) \cup {live[k]}
        /\ Unwritten(o)' \subseteq Unwritten(o) \cup {k}
    <3>1. \A n \in Node \ {o} : Pending(n)' = Pending(n) /\ Unwritten(n)' = Unwritten(n)
      BY <1>2 DEF Pending, Unwritten
    <3>2. Pending(o)' \subseteq Pending(o) \cup {k} /\ Unwritten(o)' \subseteq Unwritten(o) \cup {k}
      BY <1>2 DEF Pending, Unwritten
    <3>3. \A n \in Node \ {o} : current'[n] = current[n]
      BY <2>2 DEF TypeOK
    <3>4. current'[o] = live[k]
      BY <1>1, <2>2 DEF TypeOK
    <3>5. \A n \in Node \ {o} : Stood(n)' = Stood(n)
      BY <1>2, <2>4, <3>1, <3>3 DEF Stood
    <3>6. Stood(o)' \subseteq Stood(o) \cup {live[k]}
      BY <1>1, <1>2, <2>4, <3>2, <3>4 DEF Stood
    <3> QED
      BY <3>1, <3>2, <3>5, <3>6
  <2>6. \A d \in Stood(o) \ overtaken'[o] : d <= live[k]
    <3> SUFFICES ASSUME NEW d \in Stood(o) \ overtaken'[o] PROVE d <= live[k]
      OBVIOUS
    <3>1. d <= current[o] /\ d \in Nat
      BY <1>1, <2>2, StoodAreDays DEF FileInv, MemoryIsNewest
    <3> QED
      BY <1>1, <2>2, <3>1
  <2>7. MemoryIsNewest'
    <3> SUFFICES ASSUME NEW n \in Node, NEW d \in Stood(n)' \ overtaken'[n] PROVE d <= current'[n]
      BY DEF MemoryIsNewest
    <3>1. CASE n = o
      <4>1. current'[n] = live[k]
        BY <1>1, <2>2, <3>1 DEF TypeOK
      <4> QED
        BY <1>1, <2>5, <2>6, <3>1, <4>1
    <3>2. CASE n # o
      BY <2>2, <2>5, <3>2 DEF FileInv, MemoryIsNewest, TypeOK
    <3> QED
      BY <3>1, <3>2
  <2>8. WriterIsNewest'
    <3> SUFFICES ASSUME NEW n \in Node, NEW j \in Unwritten(n)', NEW d \in Stood(n)' \ overtaken'[n]
                 PROVE  d <= live[j]
      BY <1>2 DEF WriterIsNewest
    <3>0. j \in Call
      BY DEF Unwritten
    <3>1. CASE n # o
      BY <2>2, <2>5, <3>1 DEF FileInv, WriterIsNewest
    <3>2. CASE n = o /\ j = k
      BY <1>1, <2>5, <2>6, <3>2
    <3>3. CASE n = o /\ j # k
      <4>1. j \in Unwritten(o) /\ live[j] \in Nat
        BY <2>5, <3>0, <3>3, StoodAreDays, <1>1
      <4>2. CASE d \in Stood(o)
        BY <2>2, <3>3, <4>1, <4>2 DEF FileInv, WriterIsNewest
      <4>3. CASE d = live[k]
        <5>1. live[k] # current[o] \/ live[k] \in Stood(o)
          BY DEF Stood
        <5>2. ~(live[j] < live[k]) \/ live[k] \in Stood(o)
          BY <2>3, <3>3, <4>1, <4>3, <5>1
        <5> QED
          BY <1>1, <4>1, <4>2, <4>3, <5>2
      <4> QED
        BY <2>5, <3>3, <4>2, <4>3
    <3> QED
      BY <3>1, <3>2, <3>3
  <2>9. FinishedIsOnDisk' /\ WrittenIsOnDisk' /\ ReshareOnce'
    <3>1. FinishedIsOnDisk'
      BY <1>2, <2>2, <2>4 DEF FileInv, FinishedIsOnDisk
    <3>2. WrittenIsOnDisk'
      BY <1>2, <2>1, <2>2, StoodAreDays, <1>1 DEF FileInv, WrittenIsOnDisk
    <3>3. ReshareOnce'
      BY <1>2, <2>2 DEF FileInv, ReshareOnce
    <3> QED
      BY <3>1, <3>2, <3>3
  <2>10. HookIsDue'
    <3>1. CASE pc'[k] = "same"
      BY <1>2, <2>2, <3>1, StoodAreDays, <1>1 DEF FileInv, HookIsDue
    <3>2. CASE pc'[k] = "changed"
      <4>1. live[k] > current[o]
        BY <2>1, <3>2
      <4>2. live[k] \in Stood(o) => live[k] \in overtaken'[o]
        <5> SUFFICES ASSUME live[k] \in Stood(o), live[k] \notin overtaken[o] PROVE FALSE
          BY <1>1, <2>2
        <5>1. live[k] <= current[o]
          BY <1>1 DEF FileInv, MemoryIsNewest
        <5> QED
          BY <1>1, <4>1, <5>1
      <4>3. live[k] \notin overtaken'[o] => hook[o][live[k]] = "none"
        BY <1>1, <4>2, StoodAreDays DEF Stood, Finished
      <4>4. ASSUME NEW j \in Call \ {k}, Owner[j] = o, live[j] = live[k], pc[j] \in {"changed", "reshare"}
            PROVE  live[k] \in overtaken'[o]
        <5>1. live[k] \in Stood(o)
          BY <4>4 DEF Stood, Pending
        <5> QED
          BY <4>2, <5>1
      <4> QED
        BY <1>2, <2>2, <3>2, <4>3, <4>4, StoodAreDays, <1>1 DEF FileInv, HookIsDue
    <3> QED
      BY <2>1, <3>1, <3>2
  <2> QED
    BY <2>7, <2>8, <2>9, <2>10 DEF FileInv
<1> QED
  BY <1>3, <1>4

\* Writing a day, or failing to, keeps the file in order.
LEMMA WriteStep ==
    ASSUME TypeOK, FileInv, NEW k \in Call, PersistDay(k) \/ \E w \in BOOLEAN : PersistFails(k, w)
    PROVE  FileInv'
<1> DEFINE o == Owner[k]
<1>1. o \in Node /\ live[k] \in Day /\ live[k] \in Nat /\ k \in Unwritten(o) /\ k \in Pending(o)
  BY StoodAreDays DEF PersistDay, PersistFails, Unwritten, Pending
<1>2. /\ UNCHANGED <<current, hook, live, overtaken>>
      /\ \A j \in Call \ {k} : pc'[j] = pc[j]
      /\ \A n \in Node \ {o} : diskDay'[n] = diskDay[n] /\ ok'[n] = ok[n]
      /\ diskDay'[o] \in {diskDay[o], live[k]}
  BY <1>1 DEF PersistDay, PersistFails, history, TypeOK
<1>3. \/ pc'[k] = "idle"
      \/ pc[k] = "changed" /\ pc'[k] = "reshare" /\ diskDay'[o] = live[k]
  BY <1>1 DEF PersistDay, PersistFails, TypeOK
<1>4. \/ ok'[o] = ok[o]
      \/ ok'[o] = ok[o] \cup {live[k]} /\ diskDay'[o] = live[k]
  BY <1>1 DEF PersistDay, PersistFails, history, TypeOK
<1>5. \A n \in Node : /\ Pending(n)' \subseteq Pending(n) /\ Unwritten(n)' \subseteq Unwritten(n)
                      /\ Finished(n)' \subseteq Finished(n) \cup (IF n = o /\ diskDay'[o] = live[k]
                                                                 THEN {live[k]} ELSE {})
  <2>1. \A n \in Node : Pending(n)' \subseteq Pending(n) /\ Unwritten(n)' \subseteq Unwritten(n)
    BY <1>2, <1>3 DEF Pending, Unwritten
  <2>2. \A n \in Node \ {o} : Finished(n)' = Finished(n)
    BY <1>2 DEF Finished
  <2>3. Finished(o)' \subseteq Finished(o) \cup (IF diskDay'[o] = live[k] THEN {live[k]} ELSE {})
    BY <1>2, <1>4 DEF Finished
  <2> QED
    BY <2>1, <2>2, <2>3
<1>6. \A n \in Node : Stood(n)' \subseteq Stood(n)
  <2>1. live[k] \in Stood(o)
    BY <1>1 DEF Stood
  <2> QED
    BY <1>2, <1>5, <2>1 DEF Stood
<1>7. WriterIsNewest' /\ MemoryIsNewest'
  BY <1>2, <1>5, <1>6 DEF FileInv, WriterIsNewest, MemoryIsNewest
<1>8. \A d \in Stood(o) \ overtaken[o] : d <= live[k]
  BY <1>1 DEF FileInv, WriterIsNewest
<1>9. FinishedIsOnDisk'
  <2> SUFFICES ASSUME NEW n \in Node, NEW d \in Finished(n)' \ overtaken[n] PROVE d <= diskDay'[n]
    BY <1>2 DEF FinishedIsOnDisk
  <2>1. CASE n = o /\ diskDay'[o] = live[k]
    <3>1. d \in Stood(o)
      BY <1>1, <1>5, <2>1, StoodAreDays DEF Stood
    <3> QED
      BY <1>8, <2>1, <3>1
  <2>2. CASE n # o \/ diskDay'[o] # live[k]
    BY <1>2, <1>5, <2>2 DEF FileInv, FinishedIsOnDisk
  <2> QED
    BY <2>1, <2>2
<1>10. WrittenIsOnDisk'
  <2> SUFFICES ASSUME NEW j \in Call, pc'[j] = "reshare", live[j] \notin overtaken[Owner[j]]
               PROVE  live[j] <= diskDay'[Owner[j]]
    BY <1>2 DEF WrittenIsOnDisk
  <2>1. CASE j = k
    BY <1>1, <1>3, <2>1
  <2>2. CASE j # k
    <3>1. pc[j] = "reshare" /\ live[j] <= diskDay[Owner[j]] /\ Owner[j] \in Node
      BY <1>2, <2>2, StoodAreDays, <1>1 DEF FileInv, WrittenIsOnDisk
    <3>2. CASE Owner[j] = o
      <4>1. live[j] \in Stood(o)
        BY <3>1, <3>2 DEF Stood, Pending
      <4>2. live[j] <= live[k]
        BY <1>8, <3>2, <4>1
      <4> QED
        BY <1>2, <3>1, <3>2, <4>2
    <3>3. CASE Owner[j] # o
      BY <1>2, <3>1, <3>3
    <3> QED
      BY <3>2, <3>3
  <2> QED
    BY <2>1, <2>2
<1>11. HookIsDue' /\ ReshareOnce'
  BY <1>2, <1>3 DEF FileInv, HookIsDue, ReshareOnce
<1> QED
  BY <1>7, <1>9, <1>10, <1>11 DEF FileInv

\* Running the hook keeps the file in order.
LEMMA HookStep ==
    ASSUME TypeOK, FileInv, NEW k \in Call, NEW s \in BOOLEAN, Reshare(k, s)
    PROVE  FileInv'
<1> DEFINE o == Owner[k]
<1>1. o \in Node /\ live[k] \in Day /\ k \in Pending(o)
  BY StoodAreDays DEF Reshare, Pending
<1>2. /\ UNCHANGED <<current, diskDay, live, overtaken>>
      /\ pc[k] = "reshare" /\ pc'[k] = "idle"
      /\ \A j \in Call \ {k} : pc'[j] = pc[j]
      /\ \A n \in Node : ok'[n] = ok[n] \/ (n = o /\ ok'[n] = ok[n] \cup {live[k]})
  BY <1>1 DEF Reshare, files, TypeOK
<1>3. /\ \A n \in Node, d \in Day : n # o \/ d # live[k] => hook'[n][d] = hook[n][d]
      /\ hook'[o][live[k]] = IF hook[o][live[k]] # "none" THEN "again"
                             ELSE IF s THEN "ok" ELSE "failed"
  BY <1>1 DEF Reshare, TypeOK
<1>4. /\ \A n \in Node : Pending(n)' \subseteq Pending(n) /\ Unwritten(n)' = Unwritten(n)
      /\ \A n \in Node \ {o} : Finished(n)' = Finished(n)
      /\ Finished(o)' \subseteq Finished(o) \cup {live[k]}
  <2>1. \A n \in Node : Pending(n)' \subseteq Pending(n) /\ Unwritten(n)' = Unwritten(n)
    BY <1>2 DEF Pending, Unwritten
  <2>2. \A n \in Node \ {o} : Finished(n)' = Finished(n)
    BY <1>2, <1>3 DEF Finished
  <2>3. Finished(o)' \subseteq Finished(o) \cup {live[k]}
    BY <1>1, <1>2, <1>3 DEF Finished
  <2> QED
    BY <2>1, <2>2, <2>3
<1>5. \A n \in Node : Stood(n)' \subseteq Stood(n)
  <2>1. live[k] \in Stood(o)
    BY <1>1 DEF Stood
  <2> QED
    BY <1>2, <1>4, <2>1 DEF Stood
<1>6. WriterIsNewest' /\ MemoryIsNewest'
  BY <1>2, <1>4, <1>5 DEF FileInv, WriterIsNewest, MemoryIsNewest
<1>7. FinishedIsOnDisk' /\ WrittenIsOnDisk'
  BY <1>1, <1>2, <1>4 DEF FileInv, FinishedIsOnDisk, WrittenIsOnDisk
<1>8. HookIsDue'
  <2> SUFFICES ASSUME NEW j \in Call, pc'[j] \in {"changed", "reshare"}, live[j] \notin overtaken[Owner[j]]
               PROVE  /\ hook'[Owner[j]][live[j]] = "none"
                      /\ \A i \in Call \ {j} : ~(/\ Owner[i] = Owner[j] /\ live[i] = live[j]
                                                 /\ pc'[i] \in {"changed", "reshare"})
    BY <1>2 DEF HookIsDue
  <2>1. j # k /\ pc[j] \in {"changed", "reshare"} /\ Owner[j] \in Node /\ live[j] \in Day
    BY <1>1, <1>2, StoodAreDays
  <2>2. hook[Owner[j]][live[j]] = "none" /\ ~(Owner[k] = Owner[j] /\ live[k] = live[j])
    BY <1>2, <2>1 DEF FileInv, HookIsDue
  <2>3. hook'[Owner[j]][live[j]] = "none"
    BY <1>3, <2>1, <2>2
  <2>4. \A i \in Call : pc'[i] \in {"changed", "reshare"} => pc[i] \in {"changed", "reshare"}
    BY <1>2
  <2> QED
    BY <2>1, <2>3, <2>4 DEF FileInv, HookIsDue
<1>9. ReshareOnce'
  <2> SUFFICES ASSUME NEW n \in Node, NEW d \in Day \ overtaken[n] PROVE hook'[n][d] # "again"
    BY <1>2 DEF ReshareOnce
  <2>1. CASE n = o /\ d = live[k]
    BY <1>2, <1>3, <2>1 DEF FileInv, HookIsDue
  <2>2. CASE n # o \/ d # live[k]
    BY <1>3, <2>2 DEF FileInv, ReshareOnce
  <2> QED
    BY <2>1, <2>2
<1> QED
  BY <1>6, <1>7, <1>8, <1>9 DEF FileInv

\* A restart ends the calls of the node and takes the day of the file.
LEMMA RestartStep ==
    ASSUME TypeOK, FileInv, NEW n \in Node, CrashRestart(n)
    PROVE  FileInv'
<1>1. /\ UNCHANGED <<diskDay, ok, hook, live, overtaken>>
      /\ \A m \in Node \ {n} : current'[m] = current[m]
      /\ diskDay[n] <= current'[n] /\ current'[n] \in Nat /\ diskDay[n] \in Nat
      /\ \A k \in Call : IF Owner[k] = n THEN pc'[k] = "idle" ELSE pc'[k] = pc[k]
  BY DEF CrashRestart, files, history, TypeOK, Day, NoDay
<1>2. /\ \A m \in Node : Finished(m)' = Finished(m)
      /\ \A m \in Node \ {n} : Stood(m)' = Stood(m) /\ Unwritten(m)' = Unwritten(m)
      /\ Stood(n)' = Finished(n) \cup {current'[n]} /\ Unwritten(n)' = {}
  <2>1. \A m \in Node : Finished(m)' = Finished(m)
    BY <1>1 DEF Finished
  <2>2. \A m \in Node \ {n} : Pending(m)' = Pending(m) /\ Unwritten(m)' = Unwritten(m)
    BY <1>1 DEF Pending, Unwritten
  <2>3. Pending(n)' = {} /\ Unwritten(n)' = {}
    BY <1>1 DEF Pending, Unwritten
  <2> QED
    BY <1>1, <2>1, <2>2, <2>3 DEF Stood
<1>3. WriterIsNewest'
  BY <1>1, <1>2 DEF FileInv, WriterIsNewest
<1>4. MemoryIsNewest'
  <2> SUFFICES ASSUME NEW m \in Node, NEW d \in Stood(m)' \ overtaken[m] PROVE d <= current'[m]
    BY <1>1 DEF MemoryIsNewest
  <2>1. CASE m # n
    BY <1>1, <1>2, <2>1 DEF FileInv, MemoryIsNewest
  <2>2. CASE m = n /\ d = current'[n]
    BY <1>1, <2>2
  <2>3. CASE m = n /\ d \in Finished(n)
    <3>1. d <= diskDay[n] /\ d \in Nat
      BY <2>3, StoodAreDays DEF FileInv, FinishedIsOnDisk
    <3> QED
      BY <1>1, <2>3, <3>1
  <2> QED
    BY <1>2, <2>1, <2>2, <2>3
<1>5. FinishedIsOnDisk' /\ WrittenIsOnDisk'
  BY <1>1, <1>2 DEF FileInv, FinishedIsOnDisk, WrittenIsOnDisk
<1>6. HookIsDue' /\ ReshareOnce'
  BY <1>1 DEF FileInv, HookIsDue, ReshareOnce
<1> QED
  BY <1>3, <1>4, <1>5, <1>6 DEF FileInv

\* Every step keeps the file in order.
LEMMA FileStep ==
    ASSUME TypeOK, FileInv, [Next]_vars
    PROVE  FileInv'
<1> USE DEF files, callVars, history
<1>1. ASSUME NEW k \in Call,
             \/ \E saved \in Saved : Begin(k, saved)
             \/ \E p \in Node : Exchange(k, p)
             \/ CountVotes(k)
      PROVE  FileInv'
  <2>1. /\ UNCHANGED <<current, diskDay, ok, hook, overtaken>>
        /\ pc'[k] \notin {"same", "changed", "reshare"}
        /\ \A j \in Call \ {k} : pc'[j] = pc[j] /\ live'[j] = live[j]
    BY <1>1 DEF Begin, Exchange, PeerAnswers, PeerRefuses, AttemptTimesOut, PeerGivenUp,
                RecordPeerVote, CountVotes, TypeOK
  <2> QED
    BY <2>1, QuietStep
<1>2. ASSUME NEW k \in Call, SetCurrent(k) PROVE FileInv'
  BY <1>2, MoveStep
<1>3. ASSUME NEW k \in Call, PersistDay(k) \/ \E w \in BOOLEAN : PersistFails(k, w) PROVE FileInv'
  BY <1>3, WriteStep
<1>4. ASSUME NEW k \in Call, NEW s \in BOOLEAN, Reshare(k, s) PROVE FileInv'
  BY <1>4, HookStep
<1>5. ASSUME \/ \E r \in strays, saved \in Saved : StrayVote(r, saved)
             \/ \E n \in Node, d \in AskedDays, saved \in Saved : VoteSelf(n, d, saved)
             \/ \E n \in Node : Tick(n)
             \/ UNCHANGED vars
      PROVE  FileInv'
  <2>1. UNCHANGED <<pc, live, current, diskDay, ok, hook, overtaken>>
    BY <1>5 DEF StrayVote, VoteSelf, Tick, vars
  <2> QED
    BY <2>1, QuietStep
<1>6. ASSUME NEW n \in Node, CrashRestart(n) PROVE FileInv'
  BY <1>6, RestartStep
<1> QED
  BY <1>1, <1>2, <1>3, <1>4, <1>5, <1>6 DEF Next, Advance

\* The file invariant holds in every reachable state.
THEOREM FileInvariance == Spec => []FileInv
<1>1. Init => FileInv
  <2> SUFFICES ASSUME Init PROVE FileInv
    OBVIOUS
  <2>1. \A n \in Node : Finished(n) = {} /\ Pending(n) = {} /\ Unwritten(n) = {} /\ current[n] = 1
    BY DEF Init, Finished, Pending, Unwritten
  <2>2. WriterIsNewest /\ MemoryIsNewest /\ FinishedIsOnDisk
    BY <2>1 DEF WriterIsNewest, MemoryIsNewest, FinishedIsOnDisk, Stood
  <2>3. WrittenIsOnDisk /\ HookIsDue /\ ReshareOnce
    BY DEF Init, WrittenIsOnDisk, HookIsDue, ReshareOnce
  <2> QED
    BY <2>2, <2>3 DEF FileInv
<1>2. TypeOK /\ FileInv /\ [Next]_vars => FileInv'
  BY FileStep
<1> QED
  BY <1>1, <1>2, TypeCorrect, PTL DEF Spec

\* A day that an advance returned is lost by no failed write, restart or overlap,
\* unless the node moved to it while an older advance had its day to write.
THEOREM AdvanceIsDurable == Spec => []ReturnedDayIsDurable
<1>1. FileInv => ReturnedDayIsDurable
  BY DEF FileInv, FinishedIsOnDisk, Finished, ReturnedDayIsDurable
<1> QED
  BY <1>1, FileInvariance, PTL

\* The reshare hook runs at most once for a day on a node, wherever the node
\* crashes and whichever advances overlap, with the same exception.
THEOREM ReshareRunsOnce == Spec => []ReshareOnce
<1>1. FileInv => ReshareOnce
  BY DEF FileInv
<1> QED
  BY <1>1, FileInvariance, PTL
====
