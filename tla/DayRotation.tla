---- MODULE DayRotation ----
(***************************************************************************)
(* The quorum-gated day epoch of the mesh (adapters/daily_rotation.rs and  *)
(* the handlers of POST /v1/day/vote and /v1/day/advance in http.rs).      *)
(*                                                                         *)
(* Every node keeps the ledger day that signing is bound to and a map of   *)
(* day votes, both on disk.  An advance reads the clock once, votes, posts *)
(* its vote to each peer in turn, records one vote per peer that answered, *)
(* counts, moves the day, writes it to disk and runs the reshare hook.     *)
(* Clocks drift, answers are lost, requests are handled long after their   *)
(* sender gave up, writes and the hook fail, and nodes crash anywhere.     *)
(*                                                                         *)
(* Abstracted: a day is a number; a retried request may also have been     *)
(* handled, so an attempt that times out leaves a stray behind and the     *)
(* number of attempts is not counted; atomic_write_fsync is one step, old  *)
(* or new content.                                                         *)
(***************************************************************************)
EXTENDS Naturals, FiniteSets

CONSTANTS
    Node,       \* the vault nodes; every node lists all others as seed peers
    Call,       \* advance calls, each reusable after it returned
    Owner,      \* Owner[k]: the node that serves call k
    SigningT,   \* signing_t of the constitution
    MaxDay,     \* bound: the clocks stop at this day
    MaxStrays,  \* bound: abandoned requests still on their way
    AskedDays,  \* the days the bank sends /v1/day/vote for
    WriteFails  \* writes to the data directory may fail

ASSUME NodeAssumption == IsFiniteSet(Node) /\ Node # {}
ASSUME OwnerAssumption == Owner \in [Call -> Node]
ASSUME SigningTAssumption == SigningT \in Nat /\ MaxStrays \in Nat
ASSUME DayAssumption == MaxDay \in Nat \ {0} /\ AskedDays \subseteq 1..MaxDay
ASSUME WriteAssumption == WriteFails \in BOOLEAN

Day == 1..MaxDay
Saved == IF WriteFails THEN BOOLEAN ELSE {TRUE}     \* outcomes of a write
NoDay == 0          \* no vote, no file

VARIABLES
    clock,      \* clock[n]: the UTC day the node's clock shows
    current,    \* current[n]: the ledger day in memory
    diskDay,    \* diskDay[n]: the day_epoch file
    votes,      \* votes[n][p]: the vote n holds in p's name
    diskVotes,  \* diskVotes[n]: the votes file
    pc,         \* pc[k]: where the call stands
    live,       \* live[k]: the day the call read from the clock
    todo,       \* todo[k]: peers not contacted yet
    got,        \* got[k]: peers that answered, their vote not yet recorded
    strays,     \* vote requests whose sender no longer waits
    told,       \* history: told[p], days p recorded some vote for
    moved,      \* history: moved[n], days an advance set at n
    ok,         \* history: ok[n], days an advance returned at n
    hook,       \* history: hook[n][d], outcome of the reshare hook for day d
    overtaken   \* history: overtaken[n], days n moved to while a call there had
                \* still to write an older one

files == <<diskDay, diskVotes>>
callVars == <<pc, live, todo, got>>
history == <<told, moved, ok, hook, overtaken>>
vars == <<clock, current, files, votes, callVars, strays, history>>

Where == {"idle", "exchange", "counted", "same", "changed", "reshare"}
HookOutcome == {"none", "ok", "failed", "again"}

Vote == [to : Node, voter : Node, day : Day]

\* rotation_quorum: one without peers, else max(ceil(2n/3), signing_t).
QuorumTwoThirds(n) == (2 * n + 2) \div 3

Quorum ==
    IF Cardinality(Node) = 1 THEN 1
    ELSE IF SigningT > QuorumTwoThirds(Cardinality(Node)) THEN SigningT
    ELSE QuorumTwoThirds(Cardinality(Node))

Init ==
    /\ clock = [n \in Node |-> 1]
    /\ current = [n \in Node |-> 1]
    /\ diskDay = [n \in Node |-> NoDay]
    /\ votes = [n \in Node |-> [p \in Node |-> NoDay]]
    /\ diskVotes = votes
    /\ pc = [k \in Call |-> "idle"]
    /\ live = [k \in Call |-> 1]
    /\ todo = [k \in Call |-> {}]
    /\ got = [k \in Call |-> {}]
    /\ strays = {}
    /\ told = [p \in Node |-> {}]
    /\ moved = [n \in Node |-> {}]
    /\ ok = [n \in Node |-> {}]
    /\ hook = [n \in Node |-> [d \in Day |-> "none"]]
    /\ overtaken = [n \in Node |-> {}]

----
(***************************************************************************)
(* record_vote: insert, then write the whole map; the write may fail.      *)
(***************************************************************************)
RecordVote(n, voter, d, saved) ==
    /\ votes' = [votes EXCEPT ![n][voter] = d]
    /\ diskVotes' = IF saved THEN [diskVotes EXCEPT ![n] = votes'[n]] ELSE diskVotes
    /\ told' = [told EXCEPT ![n] = @ \cup {d}]

\* v1_day_vote without a peer identity: the bank votes for the node itself.
VoteSelf(n, d, saved) ==
    /\ RecordVote(n, n, d, saved)
    /\ UNCHANGED <<clock, current, diskDay, callVars, strays, moved, ok, hook, overtaken>>

\* A request arrives after its sender gave the attempt up.
StrayVote(r, saved) ==
    /\ r \in strays
    /\ strays' = strays \ {r}
    /\ RecordVote(r.to, r.voter, r.day, saved)
    /\ UNCHANGED <<clock, current, diskDay, callVars, moved, ok, hook, overtaken>>

----
(***************************************************************************)
(* advance.                                                                *)
(***************************************************************************)

\* The clock is read once, for the whole call; an unsaved self-vote ends it.
Begin(k, saved) ==
    LET n == Owner[k] IN
    /\ pc[k] = "idle"
    /\ RecordVote(n, n, clock[n], saved)
    /\ live' = [live EXCEPT ![k] = clock[n]]
    /\ pc' = [pc EXCEPT ![k] = IF saved THEN "exchange" ELSE "idle"]
    /\ todo' = [todo EXCEPT ![k] = IF saved THEN Node \ {n} ELSE {}]
    /\ UNCHANGED <<clock, current, diskDay, got, strays, moved, ok, hook, overtaken>>

\* exchange_with_peers and v1_day_vote: the peer records the caller's vote and
\* echoes the target as its own day; the caller takes the echo for its vote.
PeerAnswers(k, p) ==
    /\ pc[k] = "exchange"
    /\ p \in todo[k]
    /\ todo' = [todo EXCEPT ![k] = @ \ {p}]
    /\ got' = [got EXCEPT ![k] = @ \cup {p}]
    /\ RecordVote(p, Owner[k], live[k], TRUE)
    /\ UNCHANGED <<clock, current, diskDay, pc, live, strays, moved, ok, hook, overtaken>>

\* The peer could not write its votes: 400, not retried, but inserted.
PeerRefuses(k, p) ==
    /\ WriteFails
    /\ pc[k] = "exchange"
    /\ p \in todo[k]
    /\ todo' = [todo EXCEPT ![k] = @ \ {p}]
    /\ RecordVote(p, Owner[k], live[k], FALSE)
    /\ UNCHANGED <<clock, current, diskDay, pc, live, got, strays, moved, ok, hook, overtaken>>

\* An attempt times out; its request may still be handled later.
AttemptTimesOut(k, p) ==
    /\ pc[k] = "exchange"
    /\ p \in todo[k]
    /\ Cardinality(strays) < MaxStrays
    /\ strays' = strays \cup {[to |-> p, voter |-> Owner[k], day |-> live[k]]}
    /\ UNCHANGED <<clock, current, files, votes, callVars, history>>

\* The last attempt failed: no vote from this peer.
PeerGivenUp(k, p) ==
    /\ pc[k] = "exchange"
    /\ p \in todo[k]
    /\ todo' = [todo EXCEPT ![k] = @ \ {p}]
    /\ UNCHANGED <<clock, current, files, votes, pc, live, got, strays, history>>

\* After the fan-out: the answers are recorded one by one, as votes for live;
\* a write that fails ends the call.
RecordPeerVote(k, p, saved) ==
    /\ pc[k] = "exchange"
    /\ todo[k] = {}
    /\ p \in got[k]
    /\ RecordVote(Owner[k], p, live[k], saved)
    /\ got' = [got EXCEPT ![k] = IF saved THEN @ \ {p} ELSE {}]
    /\ pc' = [pc EXCEPT ![k] = IF saved THEN @ ELSE "idle"]
    /\ UNCHANGED <<clock, current, diskDay, live, todo, strays, moved, ok, hook, overtaken>>

\* Mutant: every vote in the map counts, for whatever day it was cast.
VotersForAnyDay(n, d) == {p \in Node : votes[n][p] # NoDay}

VotersFor(n, d) == {p \in Node : votes[n][p] = d}

CountVotes(k) ==
    /\ pc[k] = "exchange"
    /\ todo[k] = {}
    /\ got[k] = {}
    /\ pc' = [pc EXCEPT ![k] =
                IF Cardinality(VotersFor(Owner[k], live[k])) < Quorum THEN "idle" ELSE "counted"]
    /\ UNCHANGED <<clock, current, files, votes, live, todo, got, strays, history>>

\* Calls of n that have moved or confirmed the day and not written it yet.
Unwritten(n) == {j \in Call : Owner[j] = n /\ pc[j] \in {"same", "changed"}}

\* The node moves on to day d.
MoveTo(n, d) ==
    /\ current' = [current EXCEPT ![n] = d]
    /\ moved' = [moved EXCEPT ![n] = @ \cup {d}]
    /\ overtaken' = [overtaken EXCEPT ![n] =
                        IF \E j \in Unwritten(n) : live[j] < d THEN @ \cup {d} ELSE @]

\* Mutant: the day the ledger already shows counts as a new one.
SetCurrentRollsAgain(k) ==
    LET n == Owner[k] IN
    /\ pc[k] = "counted"
    /\ \/ /\ live[k] < current[n]
          /\ pc' = [pc EXCEPT ![k] = "idle"]
          /\ UNCHANGED <<current, moved, overtaken>>
       \/ /\ live[k] >= current[n]
          /\ pc' = [pc EXCEPT ![k] = "changed"]
          /\ MoveTo(n, live[k])
    /\ UNCHANGED <<clock, files, votes, live, todo, got, strays, told, ok, hook>>

\* Under the lock of current: the same day, a day in the past (refused), or a new one.
SetCurrent(k) ==
    LET n == Owner[k] IN
    /\ pc[k] = "counted"
    /\ \/ /\ live[k] = current[n]
          /\ pc' = [pc EXCEPT ![k] = "same"]
          /\ UNCHANGED <<current, moved, overtaken>>
       \/ /\ live[k] < current[n]
          /\ pc' = [pc EXCEPT ![k] = "idle"]
          /\ UNCHANGED <<current, moved, overtaken>>
       \/ /\ live[k] > current[n]
          /\ pc' = [pc EXCEPT ![k] = "changed"]
          /\ MoveTo(n, live[k])
    /\ UNCHANGED <<clock, files, votes, live, todo, got, strays, told, ok, hook>>

\* Mutant: already on the live day, so nothing is written.
PersistDaySkipsSame(k) ==
    LET n == Owner[k] IN
    /\ pc[k] \in {"same", "changed"}
    /\ IF pc[k] = "same"
       THEN UNCHANGED files
       ELSE /\ diskDay' = [diskDay EXCEPT ![n] = live[k]]
            /\ diskVotes' = [diskVotes EXCEPT ![n] = votes[n]]
    /\ pc' = [pc EXCEPT ![k] = IF @ = "same" THEN "idle" ELSE "reshare"]
    /\ ok' = IF pc[k] = "same" THEN [ok EXCEPT ![n] = @ \cup {live[k]}] ELSE ok
    /\ UNCHANGED <<clock, current, votes, live, todo, got, strays, told, moved, hook, overtaken>>

\* write_persist, outside the lock: both files, even when the day is the same,
\* which is the end of the call.
PersistDay(k) ==
    LET n == Owner[k] IN
    /\ pc[k] \in {"same", "changed"}
    /\ diskDay' = [diskDay EXCEPT ![n] = live[k]]
    /\ diskVotes' = [diskVotes EXCEPT ![n] = votes[n]]
    /\ pc' = [pc EXCEPT ![k] = IF @ = "same" THEN "idle" ELSE "reshare"]
    /\ ok' = IF pc[k] = "same" THEN [ok EXCEPT ![n] = @ \cup {live[k]}] ELSE ok
    /\ UNCHANGED <<clock, current, votes, live, todo, got, strays, told, moved, hook, overtaken>>

\* One of the two writes fails: the call returns the error, the day in memory stays moved.
PersistFails(k, dayWritten) ==
    LET n == Owner[k] IN
    /\ WriteFails
    /\ pc[k] \in {"same", "changed"}
    /\ diskDay' = IF dayWritten THEN [diskDay EXCEPT ![n] = live[k]] ELSE diskDay
    /\ pc' = [pc EXCEPT ![k] = "idle"]
    /\ UNCHANGED <<clock, current, diskVotes, votes, live, todo, got, strays, history>>

\* on_day_advance, policy daily; an error of the hook is the error of the call.
Reshare(k, succeeds) ==
    LET n == Owner[k] IN
    /\ pc[k] = "reshare"
    /\ pc' = [pc EXCEPT ![k] = "idle"]
    /\ hook' = [hook EXCEPT ![n][live[k]] =
                  IF @ # "none" THEN "again" ELSE IF succeeds THEN "ok" ELSE "failed"]
    /\ ok' = IF succeeds THEN [ok EXCEPT ![n] = @ \cup {live[k]}] ELSE ok
    /\ UNCHANGED <<clock, current, files, votes, live, todo, got, strays, told, moved, overtaken>>

----
\* Clocks only go forward, each at its own pace.
Tick(n) ==
    /\ clock[n] < MaxDay
    /\ clock' = [clock EXCEPT ![n] = @ + 1]
    /\ UNCHANGED <<current, files, votes, callVars, strays, history>>

\* with_persist_path: the day of the file, or of the clock if there is no file.
CrashRestart(n) ==
    /\ current' = [current EXCEPT ![n] = IF diskDay[n] = NoDay THEN clock[n] ELSE diskDay[n]]
    /\ votes' = [votes EXCEPT ![n] = diskVotes[n]]
    /\ pc' = [k \in Call |-> IF Owner[k] = n THEN "idle" ELSE pc[k]]
    /\ todo' = [k \in Call |-> IF Owner[k] = n THEN {} ELSE todo[k]]
    /\ got' = [k \in Call |-> IF Owner[k] = n THEN {} ELSE got[k]]
    /\ UNCHANGED <<clock, files, live, strays, history>>

Exchange(k, p) ==
    \/ PeerAnswers(k, p)
    \/ PeerRefuses(k, p)
    \/ AttemptTimesOut(k, p)
    \/ PeerGivenUp(k, p)
    \/ \E saved \in Saved : RecordPeerVote(k, p, saved)

Advance(k) ==
    \/ \E saved \in Saved : Begin(k, saved)
    \/ \E p \in Node : Exchange(k, p)
    \/ CountVotes(k)
    \/ SetCurrent(k)
    \/ PersistDay(k)
    \/ \E dayWritten \in BOOLEAN : PersistFails(k, dayWritten)
    \/ \E succeeds \in BOOLEAN : Reshare(k, succeeds)

Next ==
    \/ \E k \in Call : Advance(k)
    \/ \E r \in strays, saved \in Saved : StrayVote(r, saved)
    \/ \E n \in Node, d \in AskedDays, saved \in Saved : VoteSelf(n, d, saved)
    \/ \E n \in Node : Tick(n) \/ CrashRestart(n)

Spec == Init /\ [][Next]_vars

----
(***************************************************************************)
(* Properties.                                                             *)
(***************************************************************************)

\* Every variable has its type.
TypeOK ==
    /\ clock \in [Node -> Day]
    /\ current \in [Node -> Day]
    /\ diskDay \in [Node -> Day \cup {NoDay}]
    /\ votes \in [Node -> [Node -> Day \cup {NoDay}]]
    /\ diskVotes \in [Node -> [Node -> Day \cup {NoDay}]]
    /\ pc \in [Call -> Where]
    /\ live \in [Call -> Day]
    /\ todo \in [Call -> SUBSET Node]
    /\ got \in [Call -> SUBSET Node]
    /\ strays \subseteq Vote
    /\ told \in [Node -> SUBSET Day]
    /\ moved \in [Node -> SUBSET Day]
    /\ ok \in [Node -> SUBSET Day]
    /\ hook \in [Node -> [Day -> HookOutcome]]
    /\ overtaken \in [Node -> SUBSET Day]

\* A node's day moves only to a day that a quorum of nodes has recorded a vote
\* for: neither a lost answer nor a stale or late vote stands in for one
\* (have < quorum_t in advance).
AdvanceIsKnown ==
    \A n \in Node : \A d \in moved[n] :
        Cardinality({p \in Node : d \in told[p]}) >= Quorum

\* A day that an advance returned survives every later failed write and
\* restart: the file is never behind it.  The one way to lose it is a call that
\* is older than the day and writes after it: the day is written outside the
\* lock it was moved under, so the node must have moved to this very day while
\* an advance begun before it had not written an older one yet.
ReturnedDayIsDurable ==
    \A n \in Node : \A d \in ok[n] \ overtaken[n] : d <= diskDay[n]

\* The reshare hook, which rotates shares and pays the voters, runs at most once
\* for a day on a node, whatever fails or restarts between moving the day and
\* it and whichever calls overlap, but for a day the node moved to ahead of an
\* older call's write.
ReshareOnce ==
    \A n \in Node : \A d \in Day \ overtaken[n] : hook[n][d] # "again"
====
