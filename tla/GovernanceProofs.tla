------------------------- MODULE GovernanceProofs -------------------------
(***************************************************************************)
(* Proofs about the governance plane for any number of requests in         *)
(* progress, every set of vaults, releases and operators, and files, days  *)
(* and faults of every kind.                                               *)
(*                                                                         *)
(* A request is a place in the program of its operation and the copies it  *)
(* took before, so the invariants say what is true of these copies at      *)
(* every place.  The ledger: the votes in a copy were cast, and nobody's   *)
(* twice; who advances the epoch counted a quorum of them.  Releases: each *)
(* copy of a candidate, in memory, in a request, in a snapshot or in a     *)
(* file, is of a candidate that passed the checks of its phase, so it does *)
(* not matter which one wins.  Payouts do depend on who wins: until two    *)
(* requests overlap in the economy (Apart), what is written is what is in  *)
(* memory, and what a payout took is owed until it answers.                *)
(***************************************************************************)
EXTENDS Governance, FiniteSetTheorems, TLAPS

Requests == UNION {s.requests : s \in Scripts}
Share == [node : Node, dest : Destination, amount : Nat]
Kinds == {"vote_recorded", "epoch_advanced", "governance_reward_accrued", "profit_allocated"}
Entries == [kind : Kinds \cup {"genesis"}, epoch : Nat, prev : Nat]
CallSet == [req : Requests \cup {None}, pc : Nat, prop : Proposals \cup {None}, cand : Candidates(Source) \cup {None},
            snap : ReleaseFiles \cup EconomyFiles \cup {None}, head : Nat, at : Nat, who : SUBSET Vault, pay : SUBSET Share]
HistSet == [votes : [Proposal -> SUBSET Vault], rebuilds : [Release -> SUBSET Vault], cosigns : [Release -> SUBSET Vault],
            earned : Int, paid : Nat, at : Seq(Nat), shares : SUBSET Share]
Contents(f) == IF f = "release" THEN ReleaseFiles ELSE EconomyFiles
Saves == {"rebuild_release", "cosign_release", "activate_release"}

\* A request in progress is at a step of its program, with the locals its steps need.
CallOk(c) ==
    c.req # None =>
        /\ c.req.op \in Operations /\ c.pc \in 1 .. Len(Program(c.req.op))
        /\ c.req.op \in {"propose_epoch", "vote_epoch"} => c.prop # None
        /\ c.req.op \in Saves \cup {"propose_release"} => c.cand # None
        /\ Program(c.req.op)[c.pc][1] = "write" => c.snap \in Contents(Program(c.req.op)[c.pc][2])

CallsTyped == call \in [Worker -> CallSet] /\ \A w \in Worker : CallOk(call[w])

\* The types of memory, files and history.
StoresTyped ==
    /\ todo \subseteq Requests
    /\ now \in Nat /\ hash \in Hash /\ epoch \in Nat /\ faults \in Nat
    /\ chain \in Seq(Entries) /\ Len(chain) >= 1
    /\ props \in [Proposal -> Proposals \cup {None}]
    /\ cands \in [Release -> Candidates(Source) \cup {None}] /\ allow \subseteq [release : Release, hash : Hash]
    /\ eco \in EconomyFiles
    /\ disk \in Files
    /\ tmp \in [File -> ReleaseFiles \cup EconomyFiles \cup {None}]
    /\ \A f \in File : tmp[f] \in Contents(f) \cup {None}
    /\ hist \in HistSet
    /\ refused \in BOOLEAN

Typed == CallsTyped /\ StoresTyped

----
\* The number follows on, and no vault is counted twice.
Sound(q) == q.to = q.from + 1 /\ \A i, j \in DOMAIN q.votes : q.votes[i] = q.votes[j] => i = j
Voters(q) == {q.votes[i] : i \in DOMAIN q.votes}

\* The votes in a stored proposal were cast.
ProposalsSound ==
    \A p \in Proposal : props[p] # None => Sound(props[p]) /\ Voters(props[p]) \subseteq hist.votes[p]

Proposing(c) == c.req # None /\ c.req.op = "propose_epoch" /\ c.pc = 1
Voting(c) == c.req # None /\ c.req.op = "vote_epoch"

\* The copy a request holds is of the stored proposal, its votes were cast or are about to
\* be, and past the count there are enough.
VoteOk(c) ==
    /\ Proposing(c) => Sound(c.prop) /\ Voters(c.prop) = {c.req.by}
    /\ Voting(c) =>
           /\ props[c.req.on] # None /\ props[c.req.on].to = c.prop.to
           /\ Sound(c.prop) /\ Voters(c.prop) \subseteq hist.votes[c.req.on] \cup {c.req.by}
           /\ c.pc > 1 => c.req.by \in hist.votes[c.req.on]
           /\ c.pc > 3 => Len(c.prop.votes) >= GovernanceT

VotesSound == \A w \in Worker : VoteOk(call[w])

\* An epoch not yet on the ledger is that of a request about to write it.
EpochWritten ==
    \/ epoch = 0 \/ refused
    \/ \E i \in DOMAIN chain : chain[i].kind = "epoch_advanced" /\ chain[i].epoch = epoch
    \/ \E w \in Worker : Voting(call[w]) /\ call[w].pc \in {6, 7} /\ call[w].prop.to = epoch

\* Requests that use one store exclude each other until they overlap.
Stores == {"ledger", "release", "economy"}
Ahead(c, f) == c.req # None /\ Uses(c.req.op, f, c.pc)
Apart == \A f \in Stores \ raced : \A u, w \in Worker : Ahead(call[u], f) /\ Ahead(call[w], f) => u = w

\* Without overlap a vote is for the step from the present epoch.
VotesFollow ==
    "ledger" \notin raced => \A w \in Worker : Voting(call[w]) /\ call[w].pc <= 5 => call[w].prop.from = epoch

LedgerInv == ProposalsSound /\ VotesSound /\ EpochHasQuorum /\ ChainLinked /\ EpochWritten /\ VotesFollow

----
\* What no use case changes in a candidate.
Same(a, b) ==
    /\ a.source = b.source /\ a.rebuildable = b.rebuildable /\ a.council = b.council
    /\ a.at = b.at /\ a.hash = b.hash

\* A candidate passed the checks of its phase.
Checked(c) ==
    /\ CouncilOk(c.council)
    /\ c.rebuilds # {} => c.rebuildable
    /\ c.phase = "allowlisted" => CanActivate(c, now, c.hash)

\* A copy of candidate r in memory or in a file is of the candidate that is in memory.
CopyOk(r, c) ==
    /\ cands[r] # None /\ Same(c, cands[r]) /\ Checked(c)
    /\ c.rebuilds \subseteq hist.rebuilds[r] /\ c.cosigns \subseteq hist.cosigns[r]

\* What an entry of the allow-list stands for.
Earned(e) ==
    /\ Cardinality(hist.cosigns[e.release]) >= VaultCosignQuorum
    /\ Cardinality(hist.rebuilds[e.release]) >= MinRebuilds
    /\ cands[e.release] # None
    /\ cands[e.release].rebuildable /\ CouncilOk(cands[e.release].council)
    /\ now - cands[e.release].at >= Timelock /\ cands[e.release].hash = e.hash

\* A release file, or a snapshot of one.
FileOk(x) ==
    /\ \A r \in Release : x.cands[r] # None => CopyOk(r, x.cands[r])
    /\ \A e \in x.allow : x.cands[e.release] # None /\ Earned(e)

Saving(c) == c.req # None /\ c.req.op \in Saves
Activating(c) == c.req # None /\ c.req.op = "activate_release"
Writing(c, f) == c.req # None /\ Program(c.req.op)[c.pc][1] = "write" /\ Program(c.req.op)[c.pc][2] = f

\* The candidate a request holds: that in memory with its own change, to be saved.
CandOk(c) ==
    LET r == c.req.on IN
    /\ cands[r] # None /\ Same(c.cand, cands[r]) /\ Checked(c.cand)
    /\ c.req.op # "rebuild_release" \/ c.pc > 1 => c.cand.rebuilds \subseteq hist.rebuilds[r]
    /\ c.req.op # "cosign_release" \/ c.pc > 1 => c.cand.cosigns \subseteq hist.cosigns[r]
    /\ c.req.op = "rebuild_release" => c.cand.rebuilds \subseteq hist.rebuilds[r] \cup {c.req.by} /\ c.cand.rebuildable
    /\ c.req.op = "cosign_release" => c.cand.cosigns \subseteq hist.cosigns[r] \cup {c.req.by}
    /\ c.req.op = "activate_release" => CanActivate(c.cand, now, hash)

MemoryOk ==
    /\ \A r \in Release : cands[r] # None => CopyOk(r, cands[r])
    /\ \A e \in allow : cands[e.release] # None /\ Earned(e)

\* Every copy of a candidate, wherever it is.
CopiesOk ==
    /\ MemoryOk
    /\ FileOk(disk["release"])
    /\ tmp["release"] # None => FileOk(tmp["release"])
    /\ \A w \in Worker :
        /\ Writing(call[w], "release") => FileOk(call[w].snap)
        /\ Saving(call[w]) => CandOk(call[w])
        /\ call[w].req # None /\ call[w].req.op = "propose_release" /\ call[w].pc = 1
              => Checked(call[w].cand) /\ call[w].cand.rebuilds = {} /\ call[w].cand.cosigns = {}

\* Without overlap and fault: the candidate a request is about to save is the one in
\* memory with its own change, and no saved cosign is missing.
SaveOk(c) ==
    /\ hist.cosigns[c.req.on] \subseteq c.cand.cosigns
    /\ c.req.op = "cosign_release" => c.req.by \in c.cand.cosigns
    /\ c.req.op # "activate_release" => \A e \in allow : e.release # c.req.on
    /\ c.req.op = "activate_release" => c.cand.phase = "allowlisted"

\* Without overlap and fault no cosign is missing.
Held ==
    /\ \A r \in Release : cands[r] = None => hist.cosigns[r] = {}
    /\ \A r \in Release : cands[r] # None =>
           /\ hist.cosigns[r] \subseteq cands[r].cosigns
           /\ (\E e \in allow : e.release = r) => cands[r].phase = "allowlisted"
    /\ \A w \in Worker : Saving(call[w]) /\ call[w].pc = 1 => SaveOk(call[w])
    /\ \A w \in Worker : Activating(call[w]) /\ call[w].pc \in 2 .. 5 => cands[call[w].req.on].phase = "allowlisted"

Kept == "release" \in raced \/ faults > 0 \/ Held

ReleaseInv == CopiesOk /\ Kept
----
\* A payout in progress, and a request about to rename a file.
Paying(c) == c.req # None /\ c.req.op = "propose_payouts"
Renaming(c, f) == c.req # None /\ Program(c.req.op)[c.pc][1] = "rename" /\ Program(c.req.op)[c.pc][2] = f

\* The gate between payouts is in use; with "manual" nothing keeps them apart.
Gated == Cadence \in {"daily", "weekly", "epoch"}
LastPaid == hist.at[Len(hist.at)]

\* The pool in memory and on disk is covered by what is not paid yet, and both know
\* of the last payout.
PurseOk ==
    /\ eco.miners + hist.paid <= hist.earned
    /\ disk["economy"].miners + hist.paid <= hist.earned
    /\ Gated => /\ \A i \in 1 .. Len(hist.at) - 1 : hist.at[i + 1] - hist.at[i] >= 1
                /\ Len(hist.at) > 0 => eco.lastAt >= LastPaid /\ disk["economy"].lastAt >= LastPaid

\* What a payout debited is owed until it answers; it is later than the last one, and
\* once recorded it is the last.
Owed(c) ==
    Paying(c) => /\ c.pc > 3 => eco.miners + hist.paid + c.req.amount <= hist.earned
                 /\ Gated /\ Len(hist.at) > 0 => c.at > LastPaid
                 /\ Gated /\ c.pc > 7 => eco.lastAt = c.at

\* What is written is what is in memory.
Current(c) ==
    /\ Writing(c, "economy") => c.snap = eco
    /\ Renaming(c, "economy") => tmp["economy"] \in {eco, None}

PayOk == PurseOk /\ \A w \in Worker : Owed(call[w]) /\ Current(call[w])
PayInv == "economy" \in raced \/ PayOk

----
(***************************************************************************)
(* The programs.                                                           *)
(***************************************************************************)

\* The steps of ProposeEpochAdvance.
LEMMA ProposeProgram ==
    LET P == Program("propose_epoch") IN
    /\ DOMAIN P = 1 .. 3 /\ Len(P) = 3
    /\ P[1] = <<"put_proposal", "ledger">> /\ P[2] = <<"head", "vote_recorded">> /\ P[3] = <<"append", "vote_recorded">>
  BY SMT DEF Program, Persist, Chained, Accrual

\* The steps of VoteEpochAdvance.
LEMMA VoteProgram ==
    LET P == Program("vote_epoch") IN
    /\ DOMAIN P = 1 .. 7 /\ Len(P) = 7
    /\ P[1] = <<"save_vote", "ledger">> /\ P[2] = <<"head", "vote_recorded">> /\ P[3] = <<"append", "vote_recorded">>
    /\ P[4] = <<"close", "ledger">> /\ P[5] = <<"set_epoch", "ledger">> /\ P[6] = <<"head", "epoch_advanced">>
    /\ P[7] = <<"append", "epoch_advanced">>
  BY SMT DEF Program, Persist, Chained, Accrual

\* The steps of ProposeRelease.
LEMMA ReleaseProgram ==
    LET P == Program("propose_release") IN
    /\ DOMAIN P = 1 .. 4 /\ Len(P) = 4
    /\ P[1] = <<"put_candidate", "release">> /\ P[2] = <<"clone", "release">> /\ P[3] = <<"write", "release">>
    /\ P[4] = <<"rename", "release">>
  BY SMT DEF Program, Persist, Chained, Accrual

\* The steps of RebuildRelease.
LEMMA RebuildProgram ==
    LET P == Program("rebuild_release") IN
    /\ DOMAIN P = 1 .. 4 /\ Len(P) = 4
    /\ P[1] = <<"save_candidate", "release">> /\ P[2] = <<"clone", "release">> /\ P[3] = <<"write", "release">>
    /\ P[4] = <<"rename", "release">>
  BY SMT DEF Program, Persist, Chained, Accrual

\* The steps of CosignRelease.
LEMMA CosignProgram ==
    LET P == Program("cosign_release") IN
    /\ DOMAIN P = 1 .. 10 /\ Len(P) = 10
    /\ P[1] = <<"save_candidate", "release">> /\ P[2] = <<"clone", "release">> /\ P[3] = <<"write", "release">>
    /\ P[4] = <<"rename", "release">> /\ P[5] = <<"accrue_governance", "economy">> /\ P[6] = <<"clone", "economy">>
    /\ P[7] = <<"write", "economy">> /\ P[8] = <<"rename", "economy">> /\ P[9] = <<"head", "governance_reward_accrued">>
    /\ P[10] = <<"append", "governance_reward_accrued">>
  BY SMT DEF Program, Persist, Chained, Accrual

\* The steps of ActivateRelease.
LEMMA ActivateProgram ==
    LET P == Program("activate_release") IN
    /\ DOMAIN P = 1 .. 14 /\ Len(P) = 14
    /\ P[1] = <<"save_candidate", "release">> /\ P[2] = <<"clone", "release">> /\ P[3] = <<"write", "release">>
    /\ P[4] = <<"rename", "release">> /\ P[5] = <<"put_allowlist", "release">> /\ P[6] = <<"clone", "release">>
    /\ P[7] = <<"write", "release">> /\ P[8] = <<"rename", "release">> /\ P[9] = <<"accrue_governance", "economy">>
    /\ P[10] = <<"clone", "economy">> /\ P[11] = <<"write", "economy">> /\ P[12] = <<"rename", "economy">>
    /\ P[13] = <<"head", "governance_reward_accrued">> /\ P[14] = <<"append", "governance_reward_accrued">>
  BY SMT DEF Program, Persist, Chained, Accrual

\* The steps of AccrueMinerRewards.
LEMMA ProfitProgram ==
    LET P == Program("accrue_profit") IN
    /\ DOMAIN P = 1 .. 6 /\ Len(P) = 6
    /\ P[1] = <<"accrue_profit", "economy">> /\ P[2] = <<"clone", "economy">> /\ P[3] = <<"write", "economy">>
    /\ P[4] = <<"rename", "economy">> /\ P[5] = <<"head", "profit_allocated">> /\ P[6] = <<"append", "profit_allocated">>
  BY SMT DEF Program, Persist, Chained, Accrual

\* The steps of UpsertMiner.
LEMMA UpsertProgram ==
    LET P == Program("upsert_miner") IN
    /\ DOMAIN P = 1 .. 4 /\ Len(P) = 4
    /\ P[1] = <<"upsert", "economy">> /\ P[2] = <<"clone", "economy">> /\ P[3] = <<"write", "economy">>
    /\ P[4] = <<"rename", "economy">>
  BY SMT DEF Program, Persist, Chained, Accrual

\* The steps of ProposeMinerPayouts.
LEMMA PayoutProgram ==
    LET P == Program("propose_payouts") IN
    /\ DOMAIN P = 1 .. 10 /\ Len(P) = 10
    /\ P[1] = <<"shares", "economy">> /\ P[2] = <<"assert", "economy">> /\ P[3] = <<"debit", "economy">>
    /\ P[4] = <<"clone", "economy">> /\ P[5] = <<"write", "economy">> /\ P[6] = <<"rename", "economy">>
    /\ P[7] = <<"record", "economy">> /\ P[8] = <<"clone", "economy">> /\ P[9] = <<"write", "economy">>
    /\ P[10] = <<"rename", "economy">>
  BY SMT DEF Program, Persist, Chained, Accrual

\* Where step a on b is.
Placed(op, i, a, b) ==
    /\ a = "put_proposal" => b = "ledger" /\ op = "propose_epoch" /\ i = 1
    /\ a = "save_vote" => b = "ledger" /\ op = "vote_epoch" /\ i = 1
    /\ a = "close" => b = "ledger" /\ op = "vote_epoch" /\ i = 4
    /\ a = "set_epoch" => b = "ledger" /\ op = "vote_epoch" /\ i = 5
    /\ a = "put_candidate" => b = "release" /\ op = "propose_release" /\ i = 1
    /\ a = "put_allowlist" => b = "release" /\ op = "activate_release" /\ i = 5
    /\ a = "accrue_profit" => b = "economy" /\ op = "accrue_profit" /\ i = 1
    /\ a = "upsert" => b = "economy" /\ op = "upsert_miner" /\ i = 1
    /\ a = "shares" => b = "economy" /\ op = "propose_payouts" /\ i = 1
    /\ a = "assert" => b = "economy" /\ op = "propose_payouts" /\ i = 2
    /\ a = "debit" => b = "economy" /\ op = "propose_payouts" /\ i = 3
    /\ a = "record" => b = "economy" /\ op = "propose_payouts" /\ i = 7
    /\ a = "save_candidate" => b = "release" /\ op \in Saves /\ i = 1
    /\ a = "accrue_governance" => b = "economy" /\ op \in {"cosign_release", "activate_release"}
    /\ a \in {"clone", "write", "rename"} => b \in File /\ i > 1
    /\ a \in {"head", "append"} => b \in Kinds /\ i > 1
    /\ b = "vote_recorded" => op = "propose_epoch" \/ (op = "vote_epoch" /\ i \in {2, 3})
    /\ b = "epoch_advanced" => op = "vote_epoch" /\ i \in {6, 7}
    /\ op = "vote_epoch" => /\ a = "append" <=> i \in {3, 7}
                            /\ a = "head" <=> i \in {2, 6}
                            /\ i = 3 => b = "vote_recorded"
                            /\ i = 7 => b = "epoch_advanced"
    /\ a = "write" => i > 1 /\ Program(op)[i - 1][1] = "clone" /\ Program(op)[i - 1][2] = b

\* Every step of every program is where Placed says.
LEMMA Places ==
    ASSUME NEW op \in Operations, NEW i \in 1 .. Len(Program(op))
    PROVE  Placed(op, i, Program(op)[i][1], Program(op)[i][2])
<1>a. PICK a : a = Program(op)[i][1]
  OBVIOUS
<1>b. PICK b : b = Program(op)[i][2]
  OBVIOUS
<1> SUFFICES Placed(op, i, a, b)
  BY <1>a, <1>b
<1> DEFINE Before(f) == Program(op)[i - 1][1] = "clone" /\ Program(op)[i - 1][2] = f
<1>1. CASE op = "propose_epoch"
  <2>1. Len(Program(op)) = 3
    BY <1>1, ProposeProgram
  <2>2. i = 1 \/ i = 2 \/ i = 3
    BY <2>1
  <2>3. /\ i = 1 => a = "put_proposal" /\ b = "ledger"
        /\ i = 2 => a = "head" /\ b = "vote_recorded"
        /\ i = 3 => a = "append" /\ b = "vote_recorded"
    BY <1>a, <1>b, <1>1, ProposeProgram, SMTT(60)
  <2> QED
    BY <1>1, <2>2, <2>3, SMTT(60) DEF Saves, File, Kinds, Placed
<1>2. CASE op = "vote_epoch"
  <2>1. Len(Program(op)) = 7
    BY <1>2, VoteProgram
  <2>2. i = 1 \/ i = 2 \/ i = 3 \/ i = 4 \/ i = 5 \/ i = 6 \/ i = 7
    BY <2>1
  <2>3. /\ i = 1 => a = "save_vote" /\ b = "ledger"
        /\ i = 2 => a = "head" /\ b = "vote_recorded"
        /\ i = 3 => a = "append" /\ b = "vote_recorded"
        /\ i = 4 => a = "close" /\ b = "ledger"
        /\ i = 5 => a = "set_epoch" /\ b = "ledger"
        /\ i = 6 => a = "head" /\ b = "epoch_advanced"
        /\ i = 7 => a = "append" /\ b = "epoch_advanced"
    BY <1>a, <1>b, <1>2, VoteProgram, SMTT(60)
  <2> QED
    BY <1>2, <2>2, <2>3, SMTT(60) DEF Saves, File, Kinds, Placed
<1>3. CASE op = "propose_release"
  <2>1. Len(Program(op)) = 4
    BY <1>3, ReleaseProgram
  <2>2. i = 1 \/ i = 2 \/ i = 3 \/ i = 4
    BY <2>1
  <2>3. /\ i = 1 => a = "put_candidate" /\ b = "release"
        /\ i = 2 => a = "clone" /\ b = "release"
        /\ i = 3 => a = "write" /\ b = "release"
        /\ i = 4 => a = "rename" /\ b = "release"
    BY <1>a, <1>b, <1>3, ReleaseProgram, SMTT(60)
  <2>4. (i = 3 => Before("release"))
    BY <1>3, ReleaseProgram, SMTT(60)
  <2> QED
    BY <1>3, <2>2, <2>3, <2>4, SMTT(60) DEF Saves, File, Kinds, Placed
<1>4. CASE op = "rebuild_release"
  <2>1. Len(Program(op)) = 4
    BY <1>4, RebuildProgram
  <2>2. i = 1 \/ i = 2 \/ i = 3 \/ i = 4
    BY <2>1
  <2>3. /\ i = 1 => a = "save_candidate" /\ b = "release"
        /\ i = 2 => a = "clone" /\ b = "release"
        /\ i = 3 => a = "write" /\ b = "release"
        /\ i = 4 => a = "rename" /\ b = "release"
    BY <1>a, <1>b, <1>4, RebuildProgram, SMTT(60)
  <2>4. (i = 3 => Before("release"))
    BY <1>4, RebuildProgram, SMTT(60)
  <2> QED
    BY <1>4, <2>2, <2>3, <2>4, SMTT(60) DEF Saves, File, Kinds, Placed
<1>5. CASE op = "cosign_release"
  <2>1. Len(Program(op)) = 10
    BY <1>5, CosignProgram
  <2>2. i = 1 \/ i = 2 \/ i = 3 \/ i = 4 \/ i = 5 \/ i = 6 \/ i = 7 \/ i = 8 \/ i = 9 \/ i = 10
    BY <2>1
  <2>3. /\ i = 1 => a = "save_candidate" /\ b = "release"
        /\ i = 2 => a = "clone" /\ b = "release"
        /\ i = 3 => a = "write" /\ b = "release"
        /\ i = 4 => a = "rename" /\ b = "release"
        /\ i = 5 => a = "accrue_governance" /\ b = "economy"
        /\ i = 6 => a = "clone" /\ b = "economy"
        /\ i = 7 => a = "write" /\ b = "economy"
        /\ i = 8 => a = "rename" /\ b = "economy"
        /\ i = 9 => a = "head" /\ b = "governance_reward_accrued"
        /\ i = 10 => a = "append" /\ b = "governance_reward_accrued"
    BY <1>a, <1>b, <1>5, CosignProgram, SMTT(60)
  <2>4. (i = 3 => Before("release")) /\ (i = 7 => Before("economy"))
    BY <1>5, CosignProgram, SMTT(60)
  <2> QED
    BY <1>5, <2>2, <2>3, <2>4, SMTT(60) DEF Saves, File, Kinds, Placed
<1>6. CASE op = "activate_release"
  <2>1. Len(Program(op)) = 14
    BY <1>6, ActivateProgram
  <2>2. i = 1 \/ i = 2 \/ i = 3 \/ i = 4 \/ i = 5 \/ i = 6 \/ i = 7 \/ i = 8 \/ i = 9 \/ i = 10 \/ i = 11 \/ i = 12 \/ i = 13 \/ i = 14
    BY <2>1
  <2>3. /\ i = 1 => a = "save_candidate" /\ b = "release"
        /\ i = 2 => a = "clone" /\ b = "release"
        /\ i = 3 => a = "write" /\ b = "release"
        /\ i = 4 => a = "rename" /\ b = "release"
        /\ i = 5 => a = "put_allowlist" /\ b = "release"
        /\ i = 6 => a = "clone" /\ b = "release"
        /\ i = 7 => a = "write" /\ b = "release"
        /\ i = 8 => a = "rename" /\ b = "release"
        /\ i = 9 => a = "accrue_governance" /\ b = "economy"
        /\ i = 10 => a = "clone" /\ b = "economy"
        /\ i = 11 => a = "write" /\ b = "economy"
        /\ i = 12 => a = "rename" /\ b = "economy"
        /\ i = 13 => a = "head" /\ b = "governance_reward_accrued"
        /\ i = 14 => a = "append" /\ b = "governance_reward_accrued"
    BY <1>a, <1>b, <1>6, ActivateProgram, SMTT(60)
  <2>4. (i = 3 => Before("release")) /\ (i = 7 => Before("release")) /\ (i = 11 => Before("economy"))
    BY <1>6, ActivateProgram, SMTT(60)
  <2>5. CASE i < 6
    BY <1>6, <2>2, <2>3, <2>4, <2>5, SMTT(60) DEF Saves, File, Kinds, Placed
  <2>6. CASE ~ (i < 6)
    BY <1>6, <2>2, <2>3, <2>4, <2>6, SMTT(60) DEF Saves, File, Kinds, Placed
  <2> QED
    BY <2>5, <2>6
<1>7. CASE op = "accrue_profit"
  <2>1. Len(Program(op)) = 6
    BY <1>7, ProfitProgram
  <2>2. i = 1 \/ i = 2 \/ i = 3 \/ i = 4 \/ i = 5 \/ i = 6
    BY <2>1
  <2>3. /\ i = 1 => a = "accrue_profit" /\ b = "economy"
        /\ i = 2 => a = "clone" /\ b = "economy"
        /\ i = 3 => a = "write" /\ b = "economy"
        /\ i = 4 => a = "rename" /\ b = "economy"
        /\ i = 5 => a = "head" /\ b = "profit_allocated"
        /\ i = 6 => a = "append" /\ b = "profit_allocated"
    BY <1>a, <1>b, <1>7, ProfitProgram, SMTT(60)
  <2>4. (i = 3 => Before("economy"))
    BY <1>7, ProfitProgram, SMTT(60)
  <2> QED
    BY <1>7, <2>2, <2>3, <2>4, SMTT(60) DEF Saves, File, Kinds, Placed
<1>8. CASE op = "upsert_miner"
  <2>1. Len(Program(op)) = 4
    BY <1>8, UpsertProgram
  <2>2. i = 1 \/ i = 2 \/ i = 3 \/ i = 4
    BY <2>1
  <2>3. /\ i = 1 => a = "upsert" /\ b = "economy"
        /\ i = 2 => a = "clone" /\ b = "economy"
        /\ i = 3 => a = "write" /\ b = "economy"
        /\ i = 4 => a = "rename" /\ b = "economy"
    BY <1>a, <1>b, <1>8, UpsertProgram, SMTT(60)
  <2>4. (i = 3 => Before("economy"))
    BY <1>8, UpsertProgram, SMTT(60)
  <2> QED
    BY <1>8, <2>2, <2>3, <2>4, SMTT(60) DEF Saves, File, Kinds, Placed
<1>9. CASE op = "propose_payouts"
  <2>1. Len(Program(op)) = 10
    BY <1>9, PayoutProgram
  <2>2. i = 1 \/ i = 2 \/ i = 3 \/ i = 4 \/ i = 5 \/ i = 6 \/ i = 7 \/ i = 8 \/ i = 9 \/ i = 10
    BY <2>1
  <2>3. /\ i = 1 => a = "shares" /\ b = "economy"
        /\ i = 2 => a = "assert" /\ b = "economy"
        /\ i = 3 => a = "debit" /\ b = "economy"
        /\ i = 4 => a = "clone" /\ b = "economy"
        /\ i = 5 => a = "write" /\ b = "economy"
        /\ i = 6 => a = "rename" /\ b = "economy"
        /\ i = 7 => a = "record" /\ b = "economy"
        /\ i = 8 => a = "clone" /\ b = "economy"
        /\ i = 9 => a = "write" /\ b = "economy"
        /\ i = 10 => a = "rename" /\ b = "economy"
    BY <1>a, <1>b, <1>9, PayoutProgram, SMTT(60)
  <2>4. (i = 5 => Before("economy")) /\ (i = 9 => Before("economy"))
    BY <1>9, PayoutProgram, SMTT(60)
  <2> QED
    BY <1>9, <2>2, <2>3, <2>4, SMTT(60) DEF Saves, File, Kinds, Placed
<1> QED
  BY <1>1, <1>2, <1>3, <1>4, <1>5, <1>6, <1>7, <1>8, <1>9 DEF Operations

----
(***************************************************************************)
(* A request goes from step to step.                                       *)
(***************************************************************************)

\* The constants.
LEMMA Given ==
    /\ Hash \subseteq Nat /\ 0 \in Hash
    /\ None \notin Candidates(Source) /\ None \notin Operators /\ None \notin Proposals
    /\ None \notin ReleaseFiles /\ None \notin EconomyFiles
    /\ \A r \in Requests : r # None /\ IsRequest(r)
<1>1. None \notin Candidates(Source) \cup Operators \cup Proposals \cup ReleaseFiles \cup EconomyFiles
  BY GovernanceAssumption
<1>2. \A r \in Requests : r # None /\ IsRequest(r)
  BY GovernanceAssumption DEF Requests
<1>3. Hash \subseteq Nat /\ 0 \in Hash
  BY GovernanceAssumption
<1> QED
  BY <1>1, <1>2, <1>3

\* A worker without a request.
LEMMA IdleOk == Idle \in CallSet /\ CallOk(Idle) /\ Idle.req = None
  BY DEF Idle, CallSet, CallOk

\* What the snapshot of a store is.
LEMMA ContentOk == ASSUME Typed, NEW f \in File PROVE Content(f) \in Contents(f)
<1>1. CASE f = "release"
  BY <1>1 DEF Typed, CallsTyped, StoresTyped, Content, Contents, ReleaseFiles
<1>2. CASE f = "economy"
  BY <1>2 DEF Typed, CallsTyped, StoresTyped, Content, Contents
<1> QED
  BY <1>1, <1>2 DEF File

\* Worker w leaves its step with the locals d, or has answered.
Moved(w, d) ==
    /\ call' = [call EXCEPT ![w] = d]
    /\ d \in CallSet /\ CallOk(d)
    /\ d.req # None =>
           /\ d.req = call[w].req /\ d.pc = call[w].pc + 1
           /\ d.prop = call[w].prop /\ d.cand = call[w].cand /\ d.at = call[w].at
    /\ \A f \in File : Writing(d, f) => At(w, "clone") /\ On(w) = f /\ d.snap = Content(f)

\* A request that ends with an error is idle.
LEMMA FailMoves ==
    ASSUME NEW w \in Worker, Fail(w)
    PROVE  \E d : Moved(w, d) /\ d = Idle
  BY IdleOk DEF Fail, Moved, Writing

\* A request at a step.
LEMMA AtStep ==
    ASSUME Typed, NEW w \in Worker, NEW s, At(w, s)
    PROVE  /\ call[w] \in CallSet /\ call[w].req \in Requests /\ call[w].req # None /\ IsRequest(call[w].req)
           /\ call[w].req.op \in Operations /\ call[w].pc \in 1 .. Len(Program(call[w].req.op))
           /\ Placed(call[w].req.op, call[w].pc, s, On(w))
<1>1. call[w] \in CallSet /\ CallOk(call[w]) /\ call[w].req # None
  BY DEF Typed, CallsTyped, StoresTyped, At
<1>2. call[w].req \in Requests
  BY <1>1 DEF CallSet
<1>3. call[w].req.op \in Operations /\ call[w].pc \in 1 .. Len(Program(call[w].req.op))
  BY <1>1 DEF CallOk
<1>4. Program(call[w].req.op)[call[w].pc][1] = s /\ On(w) = Program(call[w].req.op)[call[w].pc][2]
  BY DEF At, On, Steps
<1>5. Placed(call[w].req.op, call[w].pc, s, On(w))
  BY <1>3, <1>4, Places
<1>6. IsRequest(call[w].req)
  BY <1>2, Given
<1> QED
  BY <1>1, <1>2, <1>3, <1>5, <1>6

\* A request that goes on is at the next step, with locals that fit it.
LEMMA ProceedMoves ==
    ASSUME Typed, NEW w \in Worker, NEW s, At(w, s),
           NEW c \in CallSet, c.req = call[w].req, c.pc = call[w].pc, c.prop = call[w].prop,
           c.cand = call[w].cand, c.at = call[w].at,
           s = "clone" => c.snap = Content(On(w)),
           Proceed(w, c)
    PROVE  \E d : Moved(w, d)
<1> DEFINE op == call[w].req.op
<1>1. /\ call[w] \in CallSet /\ CallOk(call[w]) /\ c.req # None
      /\ op \in Operations /\ c.pc \in 1 .. Len(Program(op))
      /\ Placed(op, c.pc, s, On(w))
  BY AtStep DEF Typed, CallsTyped, StoresTyped
<1>2. CASE c.pc = Len(Program(op))
  <2>1. Fail(w)
    BY <1>2 DEF Proceed, Fail, Steps
  <2> QED
    BY <2>1, FailMoves
<1>3. CASE c.pc # Len(Program(op))
  <2>1. PICK d : d = [c EXCEPT !.pc = c.pc + 1]
    OBVIOUS
  <2>2. call' = [call EXCEPT ![w] = d]
    BY <1>3, <2>1 DEF Proceed, Steps
  <2>3. Len(Program(op)) \in Nat
    BY <1>1, ProposeProgram, VoteProgram, ReleaseProgram, RebuildProgram, CosignProgram, ActivateProgram,
       ProfitProgram, UpsertProgram, PayoutProgram DEF Operations
  <2>4. /\ d \in CallSet /\ d.req = call[w].req /\ d.pc = c.pc + 1 /\ d.pc \in 1 .. Len(Program(op))
        /\ d.prop = c.prop /\ d.cand = c.cand /\ d.at = c.at /\ d.snap = c.snap
    BY <1>1, <1>3, <2>1, <2>3 DEF CallSet
  <2>5. Placed(op, d.pc, Program(op)[d.pc][1], Program(op)[d.pc][2])
    BY <1>1, <2>4, Places
  <2>6. ASSUME Program(op)[d.pc][1] = "write"
        PROVE  s = "clone" /\ On(w) = Program(op)[d.pc][2] /\ On(w) \in File
    <3>1. Program(op)[d.pc - 1][1] = "clone" /\ Program(op)[d.pc - 1][2] = Program(op)[d.pc][2] /\ Program(op)[d.pc][2] \in File
      BY <2>5, <2>6 DEF Placed
    <3>2. d.pc - 1 = c.pc
      BY <1>1, <2>4
    <3> QED
      BY <3>1, <3>2 DEF At, On, Steps
  <2>7. CallOk(d)
    <3>1. Program(op)[d.pc][1] = "write" => d.snap \in Contents(Program(op)[d.pc][2])
      BY <2>4, <2>6, ContentOk
    <3> QED
      BY <1>1, <2>4, <3>1 DEF CallOk
  <2>8. ASSUME NEW f \in File, Writing(d, f) PROVE At(w, "clone") /\ On(w) = f /\ d.snap = Content(f)
    BY <2>4, <2>6, <2>8 DEF Writing
  <2> QED
    BY <1>1, <2>2, <2>4, <2>7, <2>8 DEF Moved
<1> QED
  BY <1>2, <1>3

----
(***************************************************************************)
(* The economy.                                                            *)
(***************************************************************************)

\* Two rounded shares are no more than the whole.
LEMMA TwoShares ==
    ASSUME NEW p \in Nat, NEW a \in Nat, NEW b \in Nat, a + b <= 10000
    PROVE  LET x == (p * a) \div 10000 y == (p * b) \div 10000 IN x \in Nat /\ y \in Nat /\ x + y <= p
<1>1. PICK u \in Nat : u = p * a
  OBVIOUS
<1>2. PICK v \in Nat : v = p * b
  OBVIOUS
<1>3. u + v <= 10000 * p
  <2>1. PICK c \in Nat : c = 10000 - (a + b)
    OBVIOUS
  <2>2. p * c \in Nat
    BY <2>1
  <2>3. p * (a + b + c) = p * a + p * b + p * c
    BY <2>1
  <2>4. a + b + c = 10000
    BY <2>1
  <2> QED
    BY <1>1, <1>2, <2>2, <2>3, <2>4
<1>4. u \div 10000 \in Nat /\ v \div 10000 \in Nat /\ (u \div 10000) + (v \div 10000) <= p
  BY <1>1, <1>2, <1>3
<1> QED
  BY <1>1, <1>2, <1>4

\* The parts of a profit are amounts.
LEMMA AllocateOk ==
    ASSUME NEW p \in Nat
    PROVE  Allocate(Splits, p) \in [miners : Nat, channels : Nat, infra : Nat]
<1>1. RewardBps \in 0 .. 10000
  BY EconomyAssumption DEF Bps
<1>2. Splits.miners \in Nat /\ Splits.channels \in Nat /\ Splits.miners + Splits.channels <= 10000
  <2>1. CASE RewardBps = 0
    BY <2>1 DEF Splits, LabDryRun
  <2>2. CASE RewardBps # 0
    <3>1. /\ Splits.miners = RewardBps /\ Splits.channels = (10000 - RewardBps) \div 2
      BY <2>2 DEF Splits, OpenWithReward, Bps
    <3>2. PICK k \in Nat : k = 10000 - RewardBps
      BY <1>1
    <3>3. k \div 2 \in Nat /\ k \div 2 <= k
      BY <3>2
    <3> QED
      BY <1>1, <3>1, <3>2, <3>3
  <2> QED
    BY <2>1, <2>2
<1>3. PICK x : x = (p * Splits.miners) \div 10000
  OBVIOUS
<1>4. PICK y : y = (p * Splits.channels) \div 10000
  OBVIOUS
<1>5. x \in Nat /\ y \in Nat /\ x + y <= p
  BY <1>2, <1>3, <1>4, TwoShares
<1>6. Allocate(Splits, p) = [miners |-> x, channels |-> y, infra |-> p - x - y]
  BY <1>3, <1>4 DEF Allocate, Bps
<1> QED
  BY <1>5, <1>6

\* Equal shares are amounts.
LEMMA EqualSharesOk ==
    ASSUME NEW amount \in Nat, NEW who \in SUBSET Node
    PROVE  EqualShares(amount, who) \in [who -> Nat]
<1>1. SUFFICES ASSUME NEW n \in who
               PROVE  (amount \div Cardinality(who)
                         + (IF Cardinality({m \in who : m < n}) < amount % Cardinality(who) THEN 1 ELSE 0)) \in Nat
  BY DEF EqualShares
<1>2. IsFiniteSet(who) /\ who # {}
  BY EconomyAssumption, FS_Subset
<1>3. Cardinality(who) \in Nat /\ Cardinality(who) # 0
  BY <1>2, FS_CardinalityType, FS_EmptySet
<1>4. \A k \in Nat : k # 0 => amount \div k \in Nat
  OBVIOUS
<1>5. amount \div Cardinality(who) \in Nat
  BY <1>3, <1>4
<1> QED
  BY <1>5

\* A bounty is an amount.
LEMMA BountyOk == ASSUME NEW pool \in Nat PROVE BountySats(pool) \in Nat
<1>1. Bounty.sats \in Nat /\ Bounty.bps \in Nat
  BY EconomyAssumption
<1>2. PICK x \in Nat : x = pool * Bounty.bps
  BY <1>1
<1>3. x \div 10000 \in Nat
  OBVIOUS
<1> QED
  BY <1>1, <1>2, <1>3 DEF BountySats, Bps

\* Each rule of the economy keeps the shape of its record.
LEMMA EconomyOk ==
    ASSUME NEW e \in EconomyFiles
    PROVE  /\ \A p \in Nat : AccrueProfitSplits(e, p) \in EconomyFiles
           /\ \A who \in SUBSET Vault : AccrueGovernanceJob(e, who) \in EconomyFiles
           /\ \A n \in Node, op \in Operators : UpsertOperator(e, n, op) \in EconomyFiles
           /\ \A a \in Nat : CanDebit(e, a) => DebitPool(e, a) \in EconomyFiles
           /\ \A t \in Nat : RecordMinerPayout(e, t) \in EconomyFiles
           /\ \A a \in Nat : ProposeEqualPayouts(e, a) \in SUBSET Share
<1> USE DEF EconomyFiles
<1>1. ASSUME NEW p \in Nat PROVE AccrueProfitSplits(e, p) \in EconomyFiles
  <2>1. PICK a : a = Allocate(Splits, p)
    OBVIOUS
  <2>2. a.miners \in Nat /\ a.channels \in Nat /\ a.infra \in Nat
    BY <2>1, AllocateOk
  <2>3. PICK m \in Nat : m = e.miners + a.miners
    BY <2>2
  <2>4. PICK c \in Nat : c = e.channels + a.channels
    BY <2>2
  <2>5. PICK i \in Nat : i = e.infra + a.infra
    BY <2>2
  <2>6. PICK q \in Nat : q = e.profit + p
    OBVIOUS
  <2>7. AccrueProfitSplits(e, p) = [e EXCEPT !.miners = m, !.channels = c, !.infra = i, !.profit = q]
    BY <2>1, <2>3, <2>4, <2>5, <2>6 DEF AccrueProfitSplits
  <2> QED
    BY <2>7
<1>2. ASSUME NEW who \in SUBSET Vault PROVE AccrueGovernanceJob(e, who) \in EconomyFiles
  <2>1. PICK b : b = BountySats(e.miners)
    OBVIOUS
  <2>2. b \in Nat
    BY <2>1, BountyOk
  <2>3. PICK W : W = who \cap EligibleActive(e)
    OBVIOUS
  <2>4. PICK share : share = EqualShares(b, W)
    OBVIOUS
  <2>5. share \in [W -> Nat]
    BY <2>2, <2>3, <2>4, EqualSharesOk DEF EligibleActive
  <2>6. PICK k : k = [n \in Node |-> e.credits[n] + (IF n \in W THEN share[n] ELSE 0)]
    OBVIOUS
  <2>7. k \in [Node -> Nat]
    BY <2>5, <2>6
  <2>8. AccrueGovernanceJob(e, who) = IF b = 0 THEN e ELSE [e EXCEPT !.credits = k, !.miners = e.miners + b, !.pending = e.pending + b]
    BY <2>1, <2>3, <2>4, <2>6 DEF AccrueGovernanceJob
  <2> QED
    <3>1. PICK m \in Nat : m = e.miners + b
      BY <2>2
    <3>2. PICK q \in Nat : q = e.pending + b
      BY <2>2
    <3>3. [e EXCEPT !.credits = k, !.miners = m, !.pending = q] \in EconomyFiles
      BY <2>7
    <3> QED
      BY <2>8, <3>1, <3>2, <3>3
<1>3. ASSUME NEW n \in Node, NEW op \in Operators PROVE UpsertOperator(e, n, op) \in EconomyFiles
  BY DEF UpsertOperator
<1>4. ASSUME NEW a \in Nat, CanDebit(e, a) PROVE DebitPool(e, a) \in EconomyFiles
  <2>1. PICK m \in Nat : m = e.miners - a
    BY <1>4 DEF CanDebit
  <2>2. PICK q \in Nat : q = e.pending - (IF a < e.pending THEN a ELSE e.pending)
    OBVIOUS
  <2>3. DebitPool(e, a) = [e EXCEPT !.miners = m, !.pending = q]
    BY <2>1, <2>2 DEF DebitPool
  <2> QED
    BY <2>3
<1>5. ASSUME NEW t \in Nat PROVE RecordMinerPayout(e, t) \in EconomyFiles
  BY DEF RecordMinerPayout
<1>6. ASSUME NEW a \in Nat PROVE ProposeEqualPayouts(e, a) \in SUBSET Share
  <2>1. PICK share : share = EqualShares(a, EligibleActive(e))
    OBVIOUS
  <2>2. share \in [EligibleActive(e) -> Nat]
    BY <2>1, EqualSharesOk DEF EligibleActive
  <2>3. \A n \in EligibleActive(e) : n \in Node /\ e.ops[n].dest \in Destination
    BY DEF EligibleActive, IsEligible, Operators
  <2> QED
    BY <2>1, <2>2, <2>3 DEF ProposeEqualPayouts, Share
<1> QED
  BY <1>1, <1>2, <1>3, <1>4, <1>5, <1>6

----
(***************************************************************************)
(* Types.                                                                  *)
(***************************************************************************)

\* Every step of a request takes it one step on or ends it.
LEMMA Moves ==
    ASSUME Typed, NEW w \in Worker, Step(w)
    PROVE  \E d : Moved(w, d)
<1>1. ASSUME NEW s, At(w, s), s # "clone", Proceed(w, call[w]) PROVE \E d : Moved(w, d)
  BY <1>1, AtStep, ProceedMoves
<1>2. ASSUME Fail(w) PROVE \E d : Moved(w, d)
  BY <1>2, FailMoves
<1>3. ASSUME NEW s, At(w, s), s # "clone", NEW pay \in SUBSET Share, Proceed(w, [call[w] EXCEPT !.pay = pay])
      PROVE  \E d : Moved(w, d)
  <2>1. PICK c : c = [call[w] EXCEPT !.pay = pay]
    OBVIOUS
  <2>2. call[w] \in CallSet
    BY <1>3, AtStep
  <2>3. c \in CallSet /\ c.req = call[w].req /\ c.pc = call[w].pc /\ c.prop = call[w].prop
        /\ c.cand = call[w].cand /\ c.at = call[w].at
    BY <2>1, <2>2 DEF CallSet
  <2> QED
    BY <1>3, <2>1, <2>3, ProceedMoves
<1>4. CASE PutProposal(w) \/ SaveVote(w) \/ Close(w) \/ AdvanceEpoch(w)
  BY <1>1, <1>2, <1>4 DEF PutProposal, SaveVote, Close, AdvanceEpoch
<1>5. CASE ReadHead(w)
  <2>1. PICK c : c = [call[w] EXCEPT !.head = Len(chain)]
    OBVIOUS
  <2>2. call[w] \in CallSet /\ Len(chain) \in Nat
    BY <1>5, AtStep DEF ReadHead, Typed, CallsTyped, StoresTyped
  <2>3. c \in CallSet /\ c.req = call[w].req /\ c.pc = call[w].pc /\ c.prop = call[w].prop
        /\ c.cand = call[w].cand /\ c.at = call[w].at
    BY <2>1, <2>2 DEF CallSet
  <2>4. At(w, "head") /\ Proceed(w, c)
    BY <1>5, <2>1 DEF ReadHead
  <2> QED
    BY <2>3, <2>4, ProceedMoves
<1>6. CASE LedgerAppend(w)
  BY <1>1, <1>2, <1>6 DEF LedgerAppend
<1>7. CASE PutCandidate(w) \/ SaveCandidate(w) \/ PutAllowlist(w)
  BY <1>1, <1>2, <1>7 DEF PutCandidate, SaveCandidate, PutAllowlist
<1>8. CASE AccrueGovernance(w) \/ AccrueProfit(w) \/ Upsert(w) \/ Debit(w) \/ Record(w)
  <2>1. CASE AccrueGovernance(w)
    <3>1. At(w, "accrue_governance") /\ (Earn(w, AccrueGovernanceJob(eco, call[w].who)) \/ Fail(w))
      BY <2>1 DEF AccrueGovernance
    <3>2. Proceed(w, call[w]) \/ Fail(w)
      BY <3>1 DEF Earn
    <3> QED
      BY <1>1, <1>2, <3>1, <3>2
  <2>2. CASE AccrueProfit(w)
    BY <1>1, <2>2 DEF AccrueProfit, Earn
  <2>3. CASE Upsert(w)
    BY <1>1, <1>2, <2>3 DEF Upsert
  <2>4. CASE Debit(w)
    BY <1>1, <1>2, <2>4 DEF Debit
  <2>5. CASE Record(w)
    BY <1>1, <2>5 DEF Record
  <2> QED
    BY <1>8, <2>1, <2>2, <2>3, <2>4, <2>5
<1>9. CASE Shares(w)
  <2>1. PICK pay : pay = (IF CanPropose(eco, call[w].req.amount) THEN ProposeEqualPayouts(eco, call[w].req.amount) ELSE {})
    OBVIOUS
  <2>2. call[w].req.amount \in Nat
    BY <1>9, AtStep DEF Shares, Placed, IsRequest
  <2>3. pay \in SUBSET Share
    BY <2>1, <2>2, EconomyOk DEF Typed, CallsTyped, StoresTyped
  <2> QED
    BY <1>2, <1>3, <1>9, <2>1, <2>3 DEF Shares, Check
<1>10. CASE AssertIntents(w)
  <2>1. call[w].pay \in SUBSET Share
    BY <1>10, AtStep DEF AssertIntents, CallSet
  <2> QED
    BY <1>2, <1>3, <1>10, <2>1 DEF AssertIntents, Check
<1>11. CASE Clone(w)
  <2>1. PICK x : x = Content(On(w))
    OBVIOUS
  <2>2. call[w] \in CallSet /\ On(w) \in File
    BY <1>11, AtStep DEF Clone, Placed
  <2>3. x \in ReleaseFiles \cup EconomyFiles
    BY <2>1, <2>2, ContentOk DEF Contents
  <2>4. PICK c : c = [call[w] EXCEPT !.snap = x]
    OBVIOUS
  <2>5. c \in CallSet /\ c.req = call[w].req /\ c.pc = call[w].pc /\ c.prop = call[w].prop
        /\ c.cand = call[w].cand /\ c.at = call[w].at /\ c.snap = x
    BY <2>2, <2>3, <2>4 DEF CallSet
  <2> QED
    BY <1>11, <2>1, <2>4, <2>5, ProceedMoves DEF Clone
<1>12. CASE WriteTmp(w) \/ Rename(w) \/ WriteFails(w)
  BY <1>1, <1>2, <1>12 DEF WriteTmp, Rename, WriteFails
<1> QED
  BY <1>4, <1>5, <1>6, <1>7, <1>8, <1>9, <1>10, <1>11, <1>12 DEF Step

\* A step of one request leaves the others where they are.
LEMMA MovedCalls ==
    ASSUME Typed, NEW w \in Worker, NEW d, Moved(w, d)
    PROVE  /\ call' \in [Worker -> CallSet] /\ \A u \in Worker : CallOk(call'[u])
           /\ call'[w] = d /\ \A u \in Worker : u # w => call'[u] = call[u]
  BY DEF Typed, CallsTyped, StoresTyped, Moved

\* The history a step leaves: votes, rebuilds, cosigns, and the rest.
LEMMA HistFields ==
    ASSUME NEW h \in HistSet
    PROVE  /\ h.votes \in [Proposal -> SUBSET Vault] /\ h.rebuilds \in [Release -> SUBSET Vault]
           /\ h.cosigns \in [Release -> SUBSET Vault] /\ h.earned \in Int /\ h.paid \in Nat
           /\ h.at \in Seq(Nat) /\ h.shares \in SUBSET Share
  BY DEF HistSet

\* What the history says of payouts.
SamePurse == hist'.earned = hist.earned /\ hist'.paid = hist.paid /\ hist'.at = hist.at /\ hist'.shares = hist.shares

\* A vote is remembered.
LEMMA HistVote ==
    ASSUME hist \in HistSet, NEW p \in Proposal, NEW V \in SUBSET Vault, hist' = [hist EXCEPT !.votes[p] = V]
    PROVE  /\ hist' \in HistSet /\ hist'.votes = [hist.votes EXCEPT ![p] = V]
           /\ hist'.rebuilds = hist.rebuilds /\ hist'.cosigns = hist.cosigns /\ SamePurse
  BY HistFields DEF HistSet, SamePurse

\* So are a rebuild and a cosign.
LEMMA HistSave ==
    ASSUME hist \in HistSet, NEW r \in Release, NEW V \in SUBSET Vault
    PROVE  /\ hist' = [hist EXCEPT !.rebuilds[r] = V] =>
                 /\ hist' \in HistSet /\ hist'.rebuilds = [hist.rebuilds EXCEPT ![r] = V]
                 /\ hist'.votes = hist.votes /\ hist'.cosigns = hist.cosigns /\ SamePurse
           /\ hist' = [hist EXCEPT !.cosigns[r] = V] =>
                 /\ hist' \in HistSet /\ hist'.cosigns = [hist.cosigns EXCEPT ![r] = V]
                 /\ hist'.votes = hist.votes /\ hist'.rebuilds = hist.rebuilds /\ SamePurse
<1>1. ASSUME hist' = [hist EXCEPT !.rebuilds[r] = V]
      PROVE  /\ hist' \in HistSet /\ hist'.rebuilds = [hist.rebuilds EXCEPT ![r] = V]
             /\ hist'.votes = hist.votes /\ hist'.cosigns = hist.cosigns /\ SamePurse
  BY <1>1, HistFields DEF HistSet, SamePurse
<1>2. ASSUME hist' = [hist EXCEPT !.cosigns[r] = V]
      PROVE  /\ hist' \in HistSet /\ hist'.cosigns = [hist.cosigns EXCEPT ![r] = V]
             /\ hist'.votes = hist.votes /\ hist'.rebuilds = hist.rebuilds /\ SamePurse
  BY <1>2, HistFields DEF HistSet, SamePurse
<1> QED
  BY <1>1, <1>2

\* A step of the ledger keeps the stores in shape.
LEMMA LedgerTypes ==
    ASSUME Typed, NEW w \in Worker,
           PutProposal(w) \/ SaveVote(w) \/ ReadHead(w) \/ LedgerAppend(w) \/ Close(w) \/ AdvanceEpoch(w)
    PROVE  StoresTyped'
<1> USE DEF StoresTyped
<1>0. StoresTyped
  BY DEF Typed
<1>1. ASSUME NEW s, At(w, s), s \in {"put_proposal", "save_vote", "close", "set_epoch"}
      PROVE  /\ call[w].req.on \in Proposal /\ call[w].req.by \in Vault
             /\ call[w].prop \in Proposals
  <2>1. call[w] \in CallSet /\ call[w].req # None /\ IsRequest(call[w].req) /\ Placed(call[w].req.op, call[w].pc, s, On(w)) /\ CallOk(call[w])
    BY <1>1, AtStep DEF Typed, CallsTyped
  <2>2. call[w].req.op \in {"propose_epoch", "vote_epoch"}
    BY <1>1, <2>1 DEF Placed
  <2>3. call[w].req.on \in Proposal /\ call[w].req.by \in Vault
    BY <2>1, <2>2 DEF IsRequest
  <2>4. call[w].prop # None
    BY <2>1, <2>2 DEF CallOk
  <2> QED
    BY <2>1, <2>3, <2>4 DEF CallSet
<1>2. CASE PutProposal(w)
  <2>1. CASE props[call[w].req.on] # None
    BY <1>0, <1>2, <2>1 DEF PutProposal
  <2>2. CASE props[call[w].req.on] = None
    <3>1. /\ call[w].req.on \in Proposal /\ {call[w].req.by} \in SUBSET Vault /\ call[w].prop \in Proposals
          /\ hist' = [hist EXCEPT !.votes[call[w].req.on] = {call[w].req.by}]
          /\ props' = [props EXCEPT ![call[w].req.on] = call[w].prop]
      BY <1>1, <1>2, <2>2 DEF PutProposal
    <3>2. hist' \in HistSet
      BY <1>0, <3>1, HistVote
    <3>3. props' \in [Proposal -> Proposals \cup {None}]
      BY <1>0, <3>1
    <3> QED
      BY <1>0, <1>2, <3>2, <3>3 DEF PutProposal
  <2> QED
    BY <2>1, <2>2
<1>3. CASE SaveVote(w)
  <2>1. /\ call[w].req.on \in Proposal /\ call[w].req.by \in Vault /\ call[w].prop \in Proposals
        /\ hist' = [hist EXCEPT !.votes[call[w].req.on] = hist.votes[call[w].req.on] \cup {call[w].req.by}]
        /\ props' = [props EXCEPT ![call[w].req.on] = call[w].prop]
    BY <1>1, <1>3 DEF SaveVote
  <2>2. hist.votes[call[w].req.on] \cup {call[w].req.by} \in SUBSET Vault
    BY <1>0, <2>1, HistFields
  <2>3. hist' \in HistSet
    BY <1>0, <2>1, <2>2, HistVote
  <2>4. props' \in [Proposal -> Proposals \cup {None}]
    BY <1>0, <2>1
  <2> QED
    BY <1>0, <1>3, <2>3, <2>4 DEF SaveVote
<1>4. CASE ReadHead(w)
  BY <1>0, <1>4 DEF ReadHead, memory
<1>5. CASE LedgerAppend(w)
  <2>1. CASE Accepts(w)
    <3>1. PICK x : x = [kind |-> On(w), prev |-> call[w].head,
                        epoch |-> IF On(w) = "epoch_advanced" THEN call[w].prop.to ELSE epoch]
      OBVIOUS
    <3>2. /\ call[w] \in CallSet /\ Placed(call[w].req.op, call[w].pc, "append", On(w)) /\ CallOk(call[w])
          /\ call[w].req # None
      BY <1>5, AtStep DEF LedgerAppend, Typed, CallsTyped
    <3>3. On(w) \in Kinds
      BY <3>2 DEF Placed
    <3>4. call[w].head \in Nat /\ (On(w) = "epoch_advanced" => call[w].prop.to \in Nat)
      <4>1. On(w) = "epoch_advanced" => call[w].prop # None
        BY <3>2 DEF Placed, CallOk
      <4> QED
        BY <3>2, <4>1 DEF CallSet, Proposals
    <3>5. x \in Entries
      BY <1>0, <3>1, <3>3, <3>4 DEF Entries
    <3>6. chain' = chain \o <<x>> /\ UNCHANGED refused
      BY <1>5, <2>1, <3>1 DEF LedgerAppend
    <3>7. chain' \in Seq(Entries) /\ Len(chain') >= 1
      BY <1>0, <3>5, <3>6
    <3> QED
      BY <1>0, <1>5, <3>6, <3>7 DEF LedgerAppend
  <2>2. CASE ~Accepts(w)
    BY <1>0, <1>5, <2>2 DEF LedgerAppend
  <2> QED
    BY <2>1, <2>2
<1>6. CASE Close(w)
  <2>1. PICK q : q = [call[w].prop EXCEPT !.closed = TRUE]
    OBVIOUS
  <2>2. /\ call[w].req.on \in Proposal /\ call[w].prop \in Proposals
        /\ props' = [props EXCEPT ![call[w].req.on] = q]
    BY <1>1, <1>6, <2>1 DEF Close
  <2>3. q \in Proposals
    BY <2>1, <2>2 DEF Proposals
  <2>4. props' \in [Proposal -> Proposals \cup {None}]
    BY <1>0, <2>2, <2>3
  <2> QED
    BY <1>0, <1>6, <2>4 DEF Close
<1>7. CASE AdvanceEpoch(w)
  <2>1. epoch' = call[w].prop.to /\ call[w].prop \in Proposals
    BY <1>1, <1>7 DEF AdvanceEpoch
  <2>2. epoch' \in Nat
    BY <2>1 DEF Proposals
  <2> QED
    BY <1>0, <1>7, <2>2 DEF AdvanceEpoch
<1> QED
  BY <1>2, <1>3, <1>4, <1>5, <1>6, <1>7

\* A release request has a release, a vault and a candidate.
LEMMA ReleaseCall ==
    ASSUME Typed, NEW w \in Worker, call[w].req # None, call[w].req.op \in Saves \cup {"propose_release"}
    PROVE  /\ call[w].req.on \in Release /\ call[w].cand \in Candidates(Source)
           /\ call[w].req.op \in Saves => call[w].req.by \in Vault
<1>1. call[w] \in CallSet /\ CallOk(call[w])
  BY DEF Typed, CallsTyped
<1>2. call[w].req \in Requests /\ IsRequest(call[w].req)
  BY <1>1, Given DEF CallSet
<1>3. call[w].cand # None
  BY <1>1 DEF CallOk
<1> QED
  BY <1>1, <1>2, <1>3 DEF CallSet, IsRequest, Saves

\* So does a step of the release mesh.
LEMMA ReleaseTypes ==
    ASSUME Typed, NEW w \in Worker, PutCandidate(w) \/ SaveCandidate(w) \/ PutAllowlist(w)
    PROVE  StoresTyped'
<1> USE DEF StoresTyped
<1>0. StoresTyped
  BY DEF Typed
<1>1. ASSUME NEW s, At(w, s), s \in {"put_candidate", "save_candidate", "put_allowlist"}
      PROVE  /\ call[w].req # None /\ call[w].req.op \in Saves \cup {"propose_release"}
             /\ call[w].req.on \in Release /\ call[w].cand \in Candidates(Source)
             /\ s # "put_candidate" => call[w].req.op \in Saves /\ call[w].req.by \in Vault
  <2>1. Placed(call[w].req.op, call[w].pc, s, On(w)) /\ call[w].req # None
    BY <1>1, AtStep
  <2>2. call[w].req.op \in Saves \cup {"propose_release"} /\ (s # "put_candidate" => call[w].req.op \in Saves)
    BY <1>1, <2>1 DEF Placed, Saves
  <2> QED
    BY <2>1, <2>2, ReleaseCall
<1>2. CASE PutCandidate(w)
  <2>1. call[w].req.on \in Release /\ call[w].cand \in Candidates(Source)
    BY <1>1, <1>2 DEF PutCandidate
  <2>2. cands' \in [Release -> Candidates(Source) \cup {None}]
    BY <1>0, <1>2, <2>1 DEF PutCandidate
  <2> QED
    BY <1>0, <1>2, <2>2 DEF PutCandidate
<1>3. CASE SaveCandidate(w)
  <2>1. /\ call[w].req.on \in Release /\ call[w].cand \in Candidates(Source) /\ call[w].req.by \in Vault
        /\ call[w].req.op \in Saves
    BY <1>1, <1>3 DEF SaveCandidate
  <2>2. cands' \in [Release -> Candidates(Source) \cup {None}]
    BY <1>0, <1>3, <2>1 DEF SaveCandidate
  <2>3. hist' \in HistSet
    <3>1. /\ hist.rebuilds[call[w].req.on] \cup {call[w].req.by} \in SUBSET Vault
          /\ hist.cosigns[call[w].req.on] \cup {call[w].req.by} \in SUBSET Vault
      BY <1>0, <2>1, HistFields
    <3>2. \/ hist' = [hist EXCEPT !.rebuilds[call[w].req.on] = hist.rebuilds[call[w].req.on] \cup {call[w].req.by}]
          \/ hist' = [hist EXCEPT !.cosigns[call[w].req.on] = hist.cosigns[call[w].req.on] \cup {call[w].req.by}]
          \/ hist' = hist
      BY <1>3, <2>1 DEF SaveCandidate, Saves
    <3> QED
      BY <1>0, <2>1, <3>1, <3>2, HistSave
  <2> QED
    BY <1>0, <1>3, <2>2, <2>3 DEF SaveCandidate
<1>4. CASE PutAllowlist(w)
  <2>1. call[w].req.on \in Release
    BY <1>1, <1>4 DEF PutAllowlist
  <2>2. allow' \subseteq [release : Release, hash : Hash]
    BY <1>0, <1>4, <2>1 DEF PutAllowlist
  <2> QED
    BY <1>0, <1>4, <2>2 DEF PutAllowlist
<1> QED
  BY <1>2, <1>3, <1>4

\* A step of the economy.
LEMMA EconomyTypes ==
    ASSUME Typed, NEW w \in Worker,
           \/ AccrueGovernance(w) \/ AccrueProfit(w) \/ Upsert(w) \/ Shares(w) \/ AssertIntents(w) \/ Debit(w) \/ Record(w)
    PROVE  /\ StoresTyped' /\ hist'.votes = hist.votes /\ hist'.rebuilds = hist.rebuilds /\ hist'.cosigns = hist.cosigns
           /\ UNCHANGED <<todo, now, hash, epoch, chain, props, cands, allow, disk, tmp, raced, refused, faults>>
<1> USE DEF StoresTyped
<1>0. StoresTyped
  BY DEF Typed
<1> DEFINE Goal == /\ StoresTyped' /\ hist'.votes = hist.votes /\ hist'.rebuilds = hist.rebuilds /\ hist'.cosigns = hist.cosigns
                   /\ UNCHANGED <<todo, now, hash, epoch, chain, props, cands, allow, disk, tmp, raced, refused, faults>>
<1>1. ASSUME NEW e \in EconomyFiles, Change(w, e), hist' = hist PROVE Goal
  BY <1>0, <1>1 DEF Change
<1>2. ASSUME NEW e \in EconomyFiles, Earn(w, e) PROVE Goal
  <2>1. PICK n \in Int : n = hist.earned + e.miners - eco.miners
    BY <1>0, HistFields DEF EconomyFiles
  <2>2. hist' = [hist EXCEPT !.earned = n]
    BY <1>2, <2>1 DEF Earn
  <2>3. hist' \in HistSet /\ hist'.votes = hist.votes /\ hist'.rebuilds = hist.rebuilds /\ hist'.cosigns = hist.cosigns
    BY <1>0, <2>2 DEF HistSet
  <2> QED
    BY <1>0, <1>2, <2>3 DEF Earn, Change
<1>3. CASE AccrueGovernance(w)
  <2>1. At(w, "accrue_governance")
    BY <1>3 DEF AccrueGovernance
  <2>2. call[w].who \in SUBSET Vault
    BY <2>1, AtStep DEF CallSet
  <2>3. AccrueGovernanceJob(eco, call[w].who) \in EconomyFiles
    BY <1>0, <2>2, EconomyOk
  <2>4. Earn(w, AccrueGovernanceJob(eco, call[w].who)) \/ (Change(w, eco) /\ hist' = hist)
    BY <1>3 DEF AccrueGovernance
  <2> QED
    BY <1>0, <1>1, <1>2, <2>3, <2>4
<1>4. CASE AccrueProfit(w)
  <2>1. call[w].req.amount \in Nat
    BY <1>4, AtStep DEF AccrueProfit, Placed, IsRequest
  <2>2. AccrueProfitSplits(eco, call[w].req.amount) \in EconomyFiles
    BY <1>0, <2>1, EconomyOk
  <2> QED
    BY <1>2, <1>4, <2>2 DEF AccrueProfit
<1>5. CASE Upsert(w)
  <2>1. call[w].req.by \in Node /\ call[w].req.miner \in Operators
    BY <1>5, AtStep DEF Upsert, Placed, IsRequest
  <2>2. UpsertOperator(eco, call[w].req.by, call[w].req.miner) \in EconomyFiles
    BY <1>0, <2>1, EconomyOk
  <2> QED
    BY <1>1, <1>5, <2>2 DEF Upsert
<1>6. CASE Shares(w) \/ AssertIntents(w)
  <2>1. UNCHANGED <<todo, now, hash, memory, disk, tmp, hist, raced, refused, faults>>
    BY <1>6 DEF Shares, AssertIntents, Check
  <2> QED
    BY <1>0, <2>1 DEF memory
<1>7. CASE Debit(w)
  <2>1. call[w].req.amount \in Nat
    BY <1>7, AtStep DEF Debit, Placed, IsRequest
  <2>2. CanDebit(eco, call[w].req.amount) => DebitPool(eco, call[w].req.amount) \in EconomyFiles
    BY <1>0, <2>1, EconomyOk
  <2>3. \E e \in EconomyFiles : Change(w, e)
    BY <1>0, <1>7, <2>2 DEF Debit
  <2>4. hist' = hist
    BY <1>7 DEF Debit
  <2> QED
    BY <1>1, <2>3, <2>4
<1>8. CASE Record(w)
  <2>1. call[w].at \in Nat
    BY <1>8, AtStep DEF Record, CallSet
  <2>2. RecordMinerPayout(eco, call[w].at) \in EconomyFiles
    BY <1>0, <2>1, EconomyOk
  <2> QED
    BY <1>1, <1>8, <2>2 DEF Record
<1> QED
  BY <1>3, <1>4, <1>5, <1>6, <1>7, <1>8

\* A step of a file.
LEMMA FileTypes ==
    ASSUME Typed, NEW w \in Worker, Clone(w) \/ WriteTmp(w) \/ Rename(w) \/ WriteFails(w)
    PROVE  /\ StoresTyped' /\ hist'.votes = hist.votes /\ hist'.rebuilds = hist.rebuilds /\ hist'.cosigns = hist.cosigns
           /\ UNCHANGED <<now, hash, epoch, chain, props, cands, allow, eco, raced, refused>>
<1> USE DEF StoresTyped
<1>0. StoresTyped
  BY DEF Typed
<1>1. CASE Clone(w)
  BY <1>0, <1>1 DEF Clone, memory
<1>2. CASE WriteTmp(w)
  <2>1. PICK f : f = On(w)
    OBVIOUS
  <2>2. At(w, "write") /\ tmp' = [tmp EXCEPT ![f] = call[w].snap]
    BY <1>2, <2>1 DEF WriteTmp
  <2>3. f \in File /\ call[w].snap \in Contents(f)
    <3>1. CallOk(call[w]) /\ call[w].req # None /\ Placed(call[w].req.op, call[w].pc, "write", f)
      BY <2>1, <2>2, AtStep DEF Typed, CallsTyped
    <3> QED
      BY <2>1, <2>2, <3>1 DEF CallOk, At, On, Steps, Placed
  <2>4. tmp' \in [File -> ReleaseFiles \cup EconomyFiles \cup {None}] /\ \A g \in File : tmp'[g] \in Contents(g) \cup {None}
    BY <1>0, <2>2, <2>3 DEF Contents
  <2> QED
    BY <1>0, <1>2, <2>4 DEF WriteTmp, memory
<1>3. CASE Rename(w)
  <2>1. PICK f : f = On(w)
    OBVIOUS
  <2>2. f \in File
    BY <1>3, <2>1, AtStep DEF Rename, Placed
  <2>3. CASE tmp[f] = None
    BY <1>0, <1>3, <2>1, <2>3 DEF Rename, memory
  <2>4. CASE tmp[f] # None
    <3>1. disk' = [disk EXCEPT ![f] = tmp[f]] /\ tmp' = [tmp EXCEPT ![f] = None] /\ hist' = Answered(w, hist)
      BY <1>3, <2>1, <2>4 DEF Rename
    <3>2. tmp[f] \in Contents(f)
      BY <1>0, <2>2, <2>4
    <3>3. disk' \in Files
      <4>1. CASE f = "release"
        BY <1>0, <3>1, <3>2, <4>1 DEF Files, Contents
      <4>2. CASE f = "economy"
        BY <1>0, <3>1, <3>2, <4>2 DEF Files, Contents
      <4> QED
        BY <2>2, <4>1, <4>2 DEF File
    <3>4. tmp' \in [File -> ReleaseFiles \cup EconomyFiles \cup {None}] /\ \A g \in File : tmp'[g] \in Contents(g) \cup {None}
      BY <1>0, <2>2, <3>1
    <3>5. hist' \in HistSet /\ hist'.votes = hist.votes /\ hist'.rebuilds = hist.rebuilds /\ hist'.cosigns = hist.cosigns
      <4>1. CASE call[w].req.op = "propose_payouts" /\ call[w].pc = Len(Steps(w))
        <5>1. call[w] \in CallSet /\ IsRequest(call[w].req)
          BY <1>3, AtStep DEF Rename
        <5>2. call[w].req.amount \in Nat /\ call[w].at \in Nat /\ call[w].pay \in SUBSET Share
          BY <4>1, <5>1 DEF CallSet, IsRequest
        <5>3. PICK p \in Nat : p = hist.paid + call[w].req.amount
          BY <1>0, <5>2, HistFields
        <5>4. PICK a \in Seq(Nat) : a = hist.at \o <<call[w].at>>
          <6>1. hist.at \in Seq(Nat) /\ <<call[w].at>> \in Seq(Nat)
            BY <1>0, <5>2, HistFields
          <6>2. hist.at \o <<call[w].at>> \in Seq(Nat)
            BY <6>1
          <6> QED
            BY <6>2
        <5>5. hist' = [hist EXCEPT !.paid = p, !.at = a, !.shares = call[w].pay]
          BY <3>1, <4>1, <5>3, <5>4 DEF Answered
        <5> QED
          BY <1>0, <5>2, <5>5 DEF HistSet
      <4>2. CASE ~(call[w].req.op = "propose_payouts" /\ call[w].pc = Len(Steps(w)))
        BY <1>0, <3>1, <4>2 DEF Answered
      <4> QED
        BY <4>1, <4>2
    <3> QED
      BY <1>0, <1>3, <3>3, <3>4, <3>5 DEF Rename, memory
  <2> QED
    BY <2>3, <2>4
<1>4. CASE WriteFails(w)
  BY <1>0, <1>4 DEF WriteFails, Fault, memory
<1> QED
  BY <1>1, <1>2, <1>3, <1>4

\* The locals a request starts with.
Started(r, c) ==
    /\ c \in CallSet /\ c.pc = 1
    /\ r.op \in Operations
    /\ r.op \in {"propose_epoch", "vote_epoch"} => c.prop # None
    /\ r.op \in Saves \cup {"propose_release"} => c.cand # None

\* A request is taken up at the first step of its program.
Taken(w, r, d) ==
    /\ call' = [call EXCEPT ![w] = d] /\ call[w].req = None
    /\ d \in CallSet /\ CallOk(d) /\ d.req = r /\ d.pc = 1 /\ r \in Requests /\ r.op \in Operations
    /\ \A f \in File : ~Writing(d, f)
    /\ raced' = raced \cup Overlap(r)
    /\ todo' = todo \ {r}
    /\ UNCHANGED <<now, hash, epoch, chain, props, cands, allow, eco, disk, tmp, hist, refused, faults>>

\* A request with the locals it needs is taken up.
LEMMA SendTakes ==
    ASSUME Typed, NEW w \in Worker, NEW r \in todo, NEW c, Started(r, c), Send(w, r, c)
    PROVE  \E d : Taken(w, r, d) /\ d.prop = c.prop /\ d.cand = c.cand /\ d.at = now
<1>1. PICK d : d = [c EXCEPT !.req = r, !.at = now]
  OBVIOUS
<1>2. r \in Requests /\ r # None /\ now \in Nat
  BY Given DEF Typed, StoresTyped
<1>3. /\ d \in CallSet /\ d.req = r /\ d.pc = 1 /\ d.prop = c.prop /\ d.cand = c.cand /\ d.at = now
  BY <1>1, <1>2 DEF Started, CallSet
<1>4. r.op \in Operations
  BY DEF Started
<1>5. 1 \in 1 .. Len(Program(r.op))
  BY <1>4, ProposeProgram, VoteProgram, ReleaseProgram, RebuildProgram, CosignProgram, ActivateProgram,
     ProfitProgram, UpsertProgram, PayoutProgram DEF Operations
<1>6. Program(r.op)[1][1] # "write"
  <2>1. Placed(r.op, 1, Program(r.op)[1][1], Program(r.op)[1][2])
    BY <1>4, <1>5, Places
  <2> QED
    BY <2>1 DEF Placed
<1>7. CallOk(d) /\ \A f \in File : ~Writing(d, f)
  BY <1>3, <1>4, <1>5, <1>6 DEF CallOk, Started, Writing
<1>8. call[w] = Idle /\ call' = [call EXCEPT ![w] = d]
  BY <1>1 DEF Send
<1> QED
  BY <1>2, <1>3, <1>4, <1>7, <1>8, IdleOk DEF Taken, Send, memory

\* Candidates after the rules of release.rs.
LEMMA CandidateOk ==
    ASSUME NEW c \in Candidates(Source), NEW v \in Vault
    PROVE  /\ RecordRebuild(c, v) \in Candidates(Source) /\ AddCosign(c, v) \in Candidates(Source)
           /\ Allowlist(c) \in Candidates(Source)
           /\ Same(RecordRebuild(c, v), c) /\ Same(AddCosign(c, v), c) /\ Same(Allowlist(c), c)
           /\ RecordRebuild(c, v).rebuilds = c.rebuilds \cup {v} /\ RecordRebuild(c, v).cosigns = c.cosigns
           /\ RecordRebuild(c, v).phase = c.phase
           /\ AddCosign(c, v).rebuilds = c.rebuilds /\ AddCosign(c, v).cosigns = c.cosigns \cup {v}
           /\ AddCosign(c, v).phase = "cosigning"
           /\ Allowlist(c).rebuilds = c.rebuilds /\ Allowlist(c).cosigns = c.cosigns
           /\ Allowlist(c).phase = "allowlisted"
<1> USE DEF Candidates, Phases
<1>1. PICK R \in SUBSET Vault : R = c.rebuilds \cup {v}
  OBVIOUS
<1>2. PICK C \in SUBSET Vault : C = c.cosigns \cup {v}
  OBVIOUS
<1>3. RecordRebuild(c, v) = [c EXCEPT !.rebuilds = R]
  BY <1>1 DEF RecordRebuild
<1>4. AddCosign(c, v) = [c EXCEPT !.cosigns = C, !.phase = "cosigning"]
  BY <1>2 DEF AddCosign
<1>5. Allowlist(c) = [c EXCEPT !.phase = "allowlisted"]
  BY DEF Allowlist
<1>6. RecordRebuild(c, v) \in Candidates(Source) /\ AddCosign(c, v) \in Candidates(Source) /\ Allowlist(c) \in Candidates(Source)
  BY <1>3, <1>4, <1>5
<1>7. Same(RecordRebuild(c, v), c) /\ Same(AddCosign(c, v), c) /\ Same(Allowlist(c), c)
  BY <1>3, <1>4, <1>5 DEF Same
<1> QED
  BY <1>1, <1>2, <1>3, <1>4, <1>5, <1>6, <1>7

\* One more vote, of a vault that has not voted.
LEMMA AddVoteOk ==
    ASSUME NEW q \in Proposals, NEW v \in Vault
    PROVE  /\ AddVote(q, v) \in Proposals
           /\ AddVote(q, v).from = q.from /\ AddVote(q, v).to = q.to
           /\ Sound(q) => Sound(AddVote(q, v))
           /\ Voters(AddVote(q, v)) = Voters(q) \cup {v}
<1>1. CASE Voted(q, v)
  <2>1. AddVote(q, v) = q /\ v \in Voters(q)
    BY <1>1 DEF AddVote, Voted, Voters
  <2> QED
    BY <2>1
<1>2. CASE ~Voted(q, v)
  <2>1. PICK s : s = q.votes \o <<v>>
    OBVIOUS
  <2>2. q.votes \in Seq(Vault) /\ Len(q.votes) \in Nat /\ DOMAIN q.votes = 1 .. Len(q.votes)
    BY DEF Proposals
  <2>3. /\ s \in Seq(Vault) /\ DOMAIN s = 1 .. Len(q.votes) + 1
        /\ \A i \in 1 .. Len(q.votes) : s[i] = q.votes[i]
        /\ s[Len(q.votes) + 1] = v
    BY <2>1, <2>2
  <2>4. AddVote(q, v) = [q EXCEPT !.votes = s]
    BY <1>2, <2>1 DEF AddVote
  <2>5. /\ AddVote(q, v) \in Proposals /\ AddVote(q, v).votes = s
        /\ AddVote(q, v).from = q.from /\ AddVote(q, v).to = q.to
    BY <2>3, <2>4 DEF Proposals
  <2>6. \A i \in 1 .. Len(q.votes) : q.votes[i] # v
    BY <1>2, <2>2 DEF Voted
  <2>7. Sound(q) => Sound(AddVote(q, v))
    BY <2>2, <2>3, <2>5, <2>6 DEF Sound
  <2>8. Voters(AddVote(q, v)) = Voters(q) \cup {v}
    BY <2>2, <2>3, <2>5 DEF Voters
  <2> QED
    BY <2>5, <2>7, <2>8
<1> QED
  BY <1>1, <1>2

\* What each request starts with.
LEMMA Begins ==
    ASSUME Typed, NEW w \in Worker, Request(w)
    PROVE  \E r \in todo : \E d :
               /\ Taken(w, r, d)
               /\ r.op = "propose_epoch" => d.prop = NewProposal(r.by)
               /\ r.op = "vote_epoch" => /\ props[r.on] # None /\ props[r.on].from = epoch
                                         /\ d.prop = AddVote(props[r.on], r.by)
               /\ r.op = "propose_release" =>
                      /\ CouncilOk(r.council)
                      /\ d.cand = NewCandidate(r.source, r.rebuildable, r.council, now, hash)
               /\ r.op \in Saves => cands[r.on] # None
               /\ r.op = "rebuild_release" => CanRebuild(cands[r.on]) /\ d.cand = RecordRebuild(cands[r.on], r.by)
               /\ r.op = "cosign_release" => CanCosign(cands[r.on], now, hash) /\ d.cand = AddCosign(cands[r.on], r.by)
               /\ r.op = "activate_release" => CanActivate(cands[r.on], now, hash) /\ d.cand = Allowlist(cands[r.on])
               /\ r.op = "propose_payouts" => AssertPayoutCadenceOk(eco, now) /\ d.at = now
<1>0. StoresTyped
  BY DEF Typed
<1>1. PICK r \in todo :
        \/ ProposeEpochAdvance(w, r) \/ VoteEpochAdvance(w, r)
        \/ ProposeRelease(w, r) \/ RebuildRelease(w, r) \/ CosignRelease(w, r) \/ ActivateRelease(w, r)
        \/ EconomyRequest(w, r)
  BY DEF Request
<1>2. r \in Requests /\ IsRequest(r)
  BY <1>0, Given DEF StoresTyped
<1>i. /\ Idle \in CallSet /\ Idle.pc = 1
      /\ \A q \in Proposals : LET c == [Idle EXCEPT !.prop = q] IN c \in CallSet /\ c.pc = 1 /\ c.prop = q
      /\ \A q \in Candidates(Source) : LET c == [Idle EXCEPT !.cand = q] IN c \in CallSet /\ c.pc = 1 /\ c.cand = q
      /\ \A q \in Candidates(Source) : \A who \in SUBSET Vault :
             LET c == [Idle EXCEPT !.cand = q, !.who = who] IN c \in CallSet /\ c.pc = 1 /\ c.cand = q
  BY IdleOk DEF Idle, CallSet
<1>3. CASE ProposeEpochAdvance(w, r)
  <2>1. PICK c : c = [Idle EXCEPT !.prop = NewProposal(r.by)]
    OBVIOUS
  <2>2. r.op = "propose_epoch" /\ Send(w, r, c)
    BY <1>3, <2>1 DEF ProposeEpochAdvance
  <2>3. NewProposal(r.by) \in Proposals
    BY <1>0, <1>2, <2>2 DEF NewProposal, Proposals, IsRequest, StoresTyped
  <2>4. Started(r, c) /\ c.prop = NewProposal(r.by)
    BY <1>i, <2>1, <2>2, <2>3, Given DEF Started, Operations, Saves
  <2>5. PICK d : Taken(w, r, d) /\ d.prop = c.prop
    BY <2>2, <2>4, SendTakes
  <2> QED
    BY <2>2, <2>4, <2>5 DEF Saves
<1>4. CASE VoteEpochAdvance(w, r)
  <2>1. PICK c : c = [Idle EXCEPT !.prop = AddVote(props[r.on], r.by)]
    OBVIOUS
  <2>2. r.op = "vote_epoch" /\ Send(w, r, c) /\ props[r.on] # None /\ props[r.on].from = epoch
    BY <1>4, <2>1 DEF VoteEpochAdvance
  <2>3. r.on \in Proposal /\ r.by \in Vault
    BY <1>2, <2>2 DEF IsRequest
  <2>4. AddVote(props[r.on], r.by) \in Proposals
    BY <1>0, <2>2, <2>3, AddVoteOk DEF StoresTyped
  <2>5. Started(r, c) /\ c.prop = AddVote(props[r.on], r.by)
    BY <1>i, <2>1, <2>2, <2>4, Given DEF Started, Operations, Saves
  <2>6. PICK d : Taken(w, r, d) /\ d.prop = c.prop
    BY <2>2, <2>5, SendTakes
  <2> QED
    BY <2>2, <2>5, <2>6 DEF Saves
<1>5. CASE ProposeRelease(w, r)
  <2>1. PICK q : q = NewCandidate(r.source, r.rebuildable, r.council, now, hash)
    OBVIOUS
  <2>2. PICK c : c = [Idle EXCEPT !.cand = q]
    OBVIOUS
  <2>3. r.op = "propose_release" /\ Send(w, r, c) /\ CouncilOk(r.council)
    BY <1>5, <2>1, <2>2 DEF ProposeRelease
  <2>4. q \in Candidates(Source)
    <3>1. r.source \in Source /\ r.rebuildable \in BOOLEAN /\ r.council \in 0 .. CouncilN /\ now \in Nat /\ hash \in Nat
      BY <1>0, <1>2, <2>3, Given DEF IsRequest, StoresTyped
    <3> QED
      BY <2>1, <3>1 DEF NewCandidate, Candidates, Phases
  <2>5. Started(r, c) /\ c.cand = q
    BY <1>i, <2>2, <2>3, <2>4, Given DEF Started, Operations
  <2>6. PICK d : Taken(w, r, d) /\ d.cand = c.cand
    BY <2>3, <2>5, SendTakes
  <2> QED
    BY <2>1, <2>3, <2>5, <2>6 DEF Saves
<1>6. CASE RebuildRelease(w, r)
  <2>1. PICK q : q = RecordRebuild(cands[r.on], r.by)
    OBVIOUS
  <2>2. PICK c : c = [Idle EXCEPT !.cand = q]
    OBVIOUS
  <2>3. r.op = "rebuild_release" /\ Send(w, r, c) /\ cands[r.on] # None /\ CanRebuild(cands[r.on])
    BY <1>6, <2>1, <2>2 DEF RebuildRelease
  <2>4. r.on \in Release /\ r.by \in Vault
    BY <1>2, <2>3 DEF IsRequest
  <2>5. q \in Candidates(Source)
    <3>1. cands[r.on] \in Candidates(Source)
      BY <1>0, <2>3, <2>4 DEF StoresTyped
    <3> QED
      BY <2>1, <2>4, <3>1, CandidateOk
  <2>6. Started(r, c) /\ c.cand = q
    <3>1. c \in CallSet /\ c.pc = 1 /\ c.cand = q /\ q # None
      BY <1>i, <2>2, <2>5, Given
    <3> QED
      BY <2>3, <3>1 DEF Started, Operations
  <2>7. PICK d : Taken(w, r, d) /\ d.cand = c.cand
    BY <2>3, <2>6, SendTakes
  <2> QED
    BY <2>1, <2>3, <2>6, <2>7
<1>7. CASE CosignRelease(w, r)
  <2>1. PICK q : q = AddCosign(cands[r.on], r.by)
    OBVIOUS
  <2>2. PICK c : c = [Idle EXCEPT !.cand = q, !.who = {r.by}]
    OBVIOUS
  <2>3. r.op = "cosign_release" /\ Send(w, r, c) /\ cands[r.on] # None /\ CanCosign(cands[r.on], now, hash)
    BY <1>7, <2>1, <2>2 DEF CosignRelease
  <2>4. r.on \in Release /\ r.by \in Vault /\ {r.by} \in SUBSET Vault
    BY <1>2, <2>3 DEF IsRequest
  <2>5. q \in Candidates(Source)
    <3>1. cands[r.on] \in Candidates(Source)
      BY <1>0, <2>3, <2>4 DEF StoresTyped
    <3> QED
      BY <2>1, <2>4, <3>1, CandidateOk
  <2>6. Started(r, c) /\ c.cand = q
    <3>1. c \in CallSet /\ c.pc = 1 /\ c.cand = q /\ q # None
      BY <1>i, <2>2, <2>4, <2>5, Given
    <3> QED
      BY <2>3, <3>1 DEF Started, Operations
  <2>7. PICK d : Taken(w, r, d) /\ d.cand = c.cand
    BY <2>3, <2>6, SendTakes
  <2> QED
    BY <2>1, <2>3, <2>6, <2>7
<1>8. CASE ActivateRelease(w, r)
  <2>1. PICK q : q = Allowlist(cands[r.on])
    OBVIOUS
  <2>2. PICK c : c = [Idle EXCEPT !.cand = q, !.who = cands[r.on].cosigns]
    OBVIOUS
  <2>3. r.op = "activate_release" /\ Send(w, r, c) /\ cands[r.on] # None /\ CanActivate(cands[r.on], now, hash)
    BY <1>8, <2>1, <2>2 DEF ActivateRelease
  <2>4. r.on \in Release /\ r.by \in Vault
    BY <1>2, <2>3 DEF IsRequest
  <2>5. cands[r.on] \in Candidates(Source)
    BY <1>0, <2>3, <2>4 DEF StoresTyped
  <2>6. q \in Candidates(Source) /\ cands[r.on].cosigns \in SUBSET Vault
    BY <2>1, <2>4, <2>5, CandidateOk DEF Candidates
  <2>7. Started(r, c) /\ c.cand = q
    <3>1. c \in CallSet /\ c.pc = 1 /\ c.cand = q /\ q # None
      BY <1>i, <2>2, <2>6, Given
    <3> QED
      BY <2>3, <3>1 DEF Started, Operations
  <2>8. PICK d : Taken(w, r, d) /\ d.cand = c.cand
    BY <2>3, <2>7, SendTakes
  <2> QED
    BY <2>1, <2>3, <2>7, <2>8
<1>9. CASE EconomyRequest(w, r)
  <2>1. /\ r.op \in {"accrue_profit", "upsert_miner", "propose_payouts"} /\ Send(w, r, Idle)
        /\ r.op = "propose_payouts" => AssertPayoutCadenceOk(eco, now)
    BY <1>9 DEF EconomyRequest, AccrueMinerRewards, UpsertMiner, ProposeMinerPayouts
  <2>2. Started(r, Idle)
    BY <1>i, <2>1 DEF Started, Operations, Saves
  <2>3. PICK d : Taken(w, r, d) /\ d.at = now
    BY <2>1, <2>2, SendTakes
  <2> QED
    BY <2>1, <2>3 DEF Saves
<1> QED
  BY <1>1, <1>3, <1>4, <1>5, <1>6, <1>7, <1>8, <1>9

\* Every step of a request keeps the types, and every request taken up.
LEMMA TypedStep ==
    ASSUME Typed, NEW w \in Worker, Step(w)
    PROVE  Typed' /\ UNCHANGED <<now, hash, raced>>
<1>1. PICK d : Moved(w, d)
  BY Moves
<1>2. CallsTyped'
  BY <1>1, MovedCalls DEF CallsTyped
<1>3. CASE PutProposal(w) \/ SaveVote(w) \/ ReadHead(w) \/ LedgerAppend(w) \/ Close(w) \/ AdvanceEpoch(w)
  <2>1. StoresTyped'
    BY <1>3, LedgerTypes
  <2>2. UNCHANGED <<now, hash, raced>>
    BY <1>3 DEF PutProposal, SaveVote, ReadHead, LedgerAppend, Close, AdvanceEpoch
  <2> QED
    BY <1>2, <2>1, <2>2 DEF Typed
<1>4. CASE PutCandidate(w) \/ SaveCandidate(w) \/ PutAllowlist(w)
  <2>1. StoresTyped'
    BY <1>4, ReleaseTypes
  <2>2. UNCHANGED <<now, hash, raced>>
    BY <1>4 DEF PutCandidate, SaveCandidate, PutAllowlist
  <2> QED
    BY <1>2, <2>1, <2>2 DEF Typed
<1>5. CASE \/ AccrueGovernance(w) \/ AccrueProfit(w) \/ Upsert(w) \/ Shares(w) \/ AssertIntents(w) \/ Debit(w) \/ Record(w)
  BY <1>2, <1>5, EconomyTypes DEF Typed
<1>6. CASE Clone(w) \/ WriteTmp(w) \/ Rename(w) \/ WriteFails(w)
  BY <1>2, <1>6, FileTypes DEF Typed
<1> QED
  BY <1>3, <1>4, <1>5, <1>6 DEF Step

\* A request that is taken up keeps the types.
LEMMA TypedTaken ==
    ASSUME Typed, NEW w \in Worker, NEW r \in todo, NEW d, Taken(w, r, d)
    PROVE  /\ Typed'
           /\ call'[w] = d /\ \A u \in Worker : u # w => call'[u] = call[u]
<1>1. CallsTyped' /\ call'[w] = d /\ \A u \in Worker : u # w => call'[u] = call[u]
  BY DEF Taken, Typed, CallsTyped
<1>2. StoresTyped'
  BY DEF Taken, Typed, StoresTyped
<1> QED
  BY <1>1, <1>2 DEF Typed

\* A day that passes keeps the types.
LEMMA TypedTick == ASSUME Typed, Tick PROVE Typed'
<1>1. CallsTyped'
  BY DEF Typed, CallsTyped, Tick
<1>2. now' \in Nat /\ todo' \subseteq Requests
  BY DEF Typed, StoresTyped, Tick
<1>3. StoresTyped'
  BY <1>2 DEF Typed, StoresTyped, Tick, memory
<1> QED
  BY <1>1, <1>3 DEF Typed

\* What a restart leaves of the history.
LEMMA RestartHist ==
    ASSUME Typed, Restart
    PROVE  /\ hist' \in HistSet /\ hist'.votes = [p \in Proposal |-> {}]
           /\ hist'.rebuilds = hist.rebuilds /\ hist'.cosigns = hist.cosigns /\ SamePurse
<1>1. PICK v : v = [p \in Proposal |-> {}]
  OBVIOUS
<1>2. v \in [Proposal -> SUBSET Vault]
  BY <1>1
<1>3. hist' = [hist EXCEPT !.votes = v] /\ hist \in HistSet
  BY <1>1 DEF Restart, Typed, StoresTyped
<1> QED
  BY <1>1, <1>2, <1>3 DEF HistSet, SamePurse

\* A restart keeps the types: the files have the type of what they hold.
LEMMA TypedRestart == ASSUME Typed, Restart PROVE Typed'
<1>1. CallsTyped'
  BY IdleOk DEF Restart, CallsTyped
<1>2. chain' \in Seq(Entries) /\ Len(chain') >= 1
  <2>1. chain[1] \in Entries
    BY DEF Typed, StoresTyped
  <2> QED
    BY <2>1 DEF Restart
<1>3. /\ cands' \in [Release -> Candidates(Source) \cup {None}] /\ allow' \subseteq [release : Release, hash : Hash]
      /\ eco' \in EconomyFiles
  BY DEF Restart, HydrateMeta, LoadEconomy, Typed, StoresTyped, Files, ReleaseFiles
<1>4. tmp' \in [File -> ReleaseFiles \cup EconomyFiles \cup {None}] /\ \A f \in File : tmp'[f] \in Contents(f) \cup {None}
  BY DEF Restart
<1>5. /\ todo' \subseteq Requests /\ now' \in Nat /\ hash' \in Hash /\ epoch' \in Nat /\ faults' \in Nat
      /\ props' \in [Proposal -> Proposals \cup {None}] /\ disk' \in Files /\ refused' \in BOOLEAN
  BY DEF Restart, Fault, Typed, StoresTyped
<1>6. hist' \in HistSet
  BY RestartHist
<1> QED
  BY <1>1, <1>2, <1>3, <1>4, <1>5, <1>6 DEF Typed, StoresTyped

\* The files found at boot.
LEMMA Found ==
    ASSUME Init
    PROVE  /\ disk \in Files /\ WellMade(disk["release"]) /\ todo \subseteq Requests
           /\ cands = disk["release"].cands /\ allow = disk["release"].allow /\ eco = disk["economy"]
           /\ cands \in [Release -> Candidates(Source) \cup {None}] /\ allow \subseteq [release : Release, hash : Hash]
           /\ eco \in EconomyFiles
<1>1. PICK s \in Scripts : todo = s.requests /\ disk = s.disk
  BY DEF Init
<1>2. disk \in Files /\ WellMade(disk["release"]) /\ todo \subseteq Requests
  BY <1>1, GovernanceAssumption DEF Requests
<1> QED
  BY <1>2 DEF Init, Files, ReleaseFiles

\* The types hold at boot.
LEMMA TypedInit == Init => Typed
<1> SUFFICES ASSUME Init PROVE Typed
  OBVIOUS
<1>1. CallsTyped
  BY IdleOk DEF Init, CallsTyped
<1>2. PICK x : x = [kind |-> "genesis", epoch |-> 0, prev |-> 0]
  OBVIOUS
<1>3. x \in Entries /\ chain = <<x>>
  BY <1>2 DEF Init, Entries
<1>4. chain \in Seq(Entries) /\ Len(chain) >= 1
  BY <1>3
<1>5. /\ now \in Nat /\ hash \in Hash /\ epoch \in Nat /\ faults \in Nat /\ refused \in BOOLEAN
      /\ props \in [Proposal -> Proposals \cup {None}]
      /\ tmp \in [File -> ReleaseFiles \cup EconomyFiles \cup {None}] /\ \A f \in File : tmp[f] \in Contents(f) \cup {None}
  BY Given DEF Init
<1>6. hist \in HistSet
  <2>1. PICK R : R = [r \in Release |-> IF cands[r] = None THEN {} ELSE cands[r].rebuilds]
    OBVIOUS
  <2>2. PICK C : C = [r \in Release |-> IF cands[r] = None THEN {} ELSE cands[r].cosigns]
    OBVIOUS
  <2>3. PICK V : V = [p \in Proposal |-> {}]
    OBVIOUS
  <2>4. R \in [Release -> SUBSET Vault] /\ C \in [Release -> SUBSET Vault] /\ V \in [Proposal -> SUBSET Vault]
    <3>1. ASSUME NEW r \in Release, cands[r] # None PROVE cands[r].rebuilds \in SUBSET Vault /\ cands[r].cosigns \in SUBSET Vault
      <4>1. cands[r] \in Candidates(Source)
        BY <3>1, Found
      <4> QED
        BY <4>1 DEF Candidates
    <3> QED
      BY <2>1, <2>2, <2>3, <3>1
  <2>5. eco.miners \in Int
    BY Found DEF EconomyFiles
  <2>6. hist = [votes |-> V, rebuilds |-> R, cosigns |-> C, earned |-> eco.miners, paid |-> 0, at |-> <<>>, shares |-> {}]
    BY <2>1, <2>2, <2>3 DEF Init
  <2>7. <<>> \in Seq(Nat) /\ {} \in SUBSET Share
    OBVIOUS
  <2> QED
    BY <2>4, <2>5, <2>6, <2>7 DEF HistSet
<1> QED
  BY <1>1, <1>4, <1>5, <1>6, Found DEF Typed, StoresTyped

----
(***************************************************************************)
(* Requests that use one store.                                            *)
(***************************************************************************)

\* A request that moves on uses no more than it did.
LEMMA AheadBefore ==
    ASSUME Typed, NEW w \in Worker, NEW d, Moved(w, d), NEW f, Ahead(d, f)
    PROVE  Ahead(call[w], f)
<1>1. d.req # None /\ d.req = call[w].req /\ d.pc = call[w].pc + 1 /\ call[w].pc \in Nat
  BY DEF Ahead, Moved, Typed, CallsTyped, CallSet
<1>2. PICK i \in d.pc .. Len(Program(d.req.op)) : Program(d.req.op)[i][2] = f
  BY DEF Ahead, Uses
<1>3. Len(Program(d.req.op)) \in Int
  <2>1. d.req.op \in Operations
    BY <1>1 DEF Moved, CallOk
  <2> QED
    BY <2>1, ProposeProgram, VoteProgram, ReleaseProgram, RebuildProgram, CosignProgram, ActivateProgram,
       ProfitProgram, UpsertProgram, PayoutProgram DEF Operations
<1>4. i \in call[w].pc .. Len(Program(d.req.op))
  BY <1>1, <1>2, <1>3
<1> QED
  BY <1>1, <1>2, <1>4 DEF Ahead, Uses

\* At boot there is no request.
LEMMA ApartInit == Init => Apart
  BY IdleOk DEF Init, Apart, Ahead

\* Requests get into each other's way only by being taken up, which is recorded.
LEMMA ApartStep == ASSUME Typed, Apart, Next PROVE Apart'
<1>1. CASE Restart
  BY <1>1, IdleOk DEF Restart, Apart, Ahead
<1>2. CASE Tick
  BY <1>2 DEF Tick, Apart, Ahead
<1>3. ASSUME NEW w \in Worker, Step(w) PROVE Apart'
  <2>1. PICK d : Moved(w, d)
    BY <1>3, Moves
  <2>2. raced' = raced /\ call'[w] = d /\ \A u \in Worker : u # w => call'[u] = call[u]
    BY <1>3, <2>1, TypedStep, MovedCalls
  <2>3. ASSUME NEW f, NEW u \in Worker, Ahead(call'[u], f) PROVE Ahead(call[u], f)
    BY <2>1, <2>2, <2>3, AheadBefore
  <2> QED
    BY <2>2, <2>3 DEF Apart
<1>4. ASSUME NEW w \in Worker, Request(w) PROVE Apart'
  <2>1. PICK r \in todo : \E d : Taken(w, r, d)
    BY <1>4, Begins
  <2>2. PICK d : Taken(w, r, d)
    BY <2>1
  <2>3. call'[w] = d /\ (\A u \in Worker : u # w => call'[u] = call[u]) /\ raced' = raced \cup Overlap(r)
        /\ d.req = r /\ d.pc = 1
    BY <2>2, TypedTaken DEF Taken
  <2>4. SUFFICES ASSUME NEW f \in Stores, f \notin raced', NEW u \in Worker, NEW v \in Worker,
                        Ahead(call'[u], f), Ahead(call'[v], f), u # v
                 PROVE  FALSE
    BY DEF Apart
  <2>5. f \notin raced /\ f \notin Overlap(r)
    BY <2>3, <2>4
  <2>6. ASSUME NEW x \in Worker, Ahead(call[x], f), Ahead(d, f) PROVE FALSE
    BY <2>3, <2>4, <2>5, <2>6 DEF Overlap, Ahead, Stores
  <2>7. CASE u = w \/ v = w
    BY <2>3, <2>4, <2>6, <2>7
  <2>8. CASE u # w /\ v # w
    BY <2>3, <2>4, <2>5, <2>8 DEF Apart
  <2> QED
    BY <2>7, <2>8
<1> QED
  BY <1>1, <1>2, <1>3, <1>4 DEF Next

----
(***************************************************************************)
(* The ledger.                                                             *)
(***************************************************************************)

\* Proposals keep their number and their votes.
Grows ==
    \A p \in Proposal : props[p] # None =>
        props'[p] # None /\ props'[p].to = props[p].to /\ hist.votes[p] \subseteq hist'.votes[p]

\* An epoch request has a proposal and a vault.
LEMMA EpochCall ==
    ASSUME NEW c \in CallSet, CallOk(c), c.req # None, c.req.op \in {"propose_epoch", "vote_epoch"}
    PROVE  c.req.on \in Proposal /\ c.req.by \in Vault /\ c.prop \in Proposals
<1>1. c.req \in Requests /\ IsRequest(c.req)
  BY Given DEF CallSet
<1>2. c.prop # None
  BY DEF CallOk
<1> QED
  BY <1>1, <1>2 DEF CallSet, IsRequest

\* What is known of a vote in progress stays, as votes are added and proposals change.
LEMMA VoteOkStays ==
    ASSUME Grows, NEW c \in CallSet, CallOk(c), VoteOk(c)
    PROVE  VoteOk(c)'
<1>1. Voting(c) => c.req.on \in Proposal
  BY EpochCall DEF Voting
<1> QED
  BY <1>1 DEF VoteOk, Grows, Proposing, Voting

\* A vote that goes on: it was counted, and after its ledger entry there were enough.
LEMMA MovedVote ==
    ASSUME Typed, Grows, NEW w \in Worker, NEW d, Moved(w, d), VoteOk(call[w]),
           Voting(d) /\ call[w].pc = 1 => call[w].req.by \in hist'.votes[call[w].req.on],
           Voting(d) /\ call[w].pc = 3 => Len(call[w].prop.votes) >= GovernanceT
    PROVE  VoteOk(d)'
<1>1. call[w] \in CallSet /\ CallOk(call[w]) /\ call[w].pc \in Nat
  BY DEF Typed, CallsTyped, CallSet
<1>2. ASSUME d.req # None PROVE d.req = call[w].req /\ d.pc = call[w].pc + 1 /\ d.prop = call[w].prop /\ call[w].pc >= 1
  <2>1. d.req = call[w].req /\ d.pc = call[w].pc + 1 /\ d.prop = call[w].prop
    BY <1>2 DEF Moved
  <2>2. call[w].pc >= 1
    BY <1>1, <1>2, <2>1 DEF CallOk
  <2> QED
    BY <2>1, <2>2
<1>3. ~Proposing(d)
  BY <1>1, <1>2 DEF Proposing
<1>4. ASSUME Voting(d) PROVE VoteOk(d)'
  <2>1. Voting(call[w]) /\ d.req = call[w].req /\ d.pc = call[w].pc + 1 /\ d.prop = call[w].prop /\ call[w].pc >= 1
    BY <1>2, <1>4 DEF Voting
  <2>3. call[w].req.on \in Proposal
    BY <1>1, <2>1, EpochCall DEF Voting
  <2>4. /\ props[call[w].req.on] # None /\ props[call[w].req.on].to = call[w].prop.to
        /\ Sound(call[w].prop) /\ Voters(call[w].prop) \subseteq hist.votes[call[w].req.on] \cup {call[w].req.by}
        /\ call[w].pc > 1 => call[w].req.by \in hist.votes[call[w].req.on]
        /\ call[w].pc > 3 => Len(call[w].prop.votes) >= GovernanceT
    BY <2>1 DEF VoteOk
  <2>5. /\ props'[call[w].req.on] # None /\ props'[call[w].req.on].to = call[w].prop.to
        /\ hist.votes[call[w].req.on] \subseteq hist'.votes[call[w].req.on]
    BY <2>3, <2>4 DEF Grows
  <2>6. d.req.by \in hist'.votes[d.req.on]
    BY <1>1, <1>4, <2>1, <2>4, <2>5
  <2>7. d.pc > 3 => Len(d.prop.votes) >= GovernanceT
    BY <1>1, <1>4, <2>1, <2>4
  <2> QED
    BY <1>3, <2>1, <2>4, <2>5, <2>6, <2>7 DEF VoteOk
<1> QED
  BY <1>3, <1>4 DEF VoteOk

\* The quorum of the present epoch stays.
LEMMA QuorumStays ==
    ASSUME Typed, Typed', Grows, EpochHasQuorum, epoch' = epoch
    PROVE  EpochHasQuorum'
<1> SUFFICES ASSUME epoch > 0 PROVE EpochHasQuorum'
  BY DEF EpochHasQuorum
<1>1. PICK p \in Proposal : props[p] # None /\ props[p].to = epoch /\ Cardinality(hist.votes[p]) >= GovernanceT
  BY DEF EpochHasQuorum
<1>2. props'[p] # None /\ props'[p].to = epoch' /\ hist.votes[p] \subseteq hist'.votes[p]
  BY <1>1 DEF Grows
<1>3. hist'.votes[p] \in SUBSET Vault /\ hist.votes[p] \in SUBSET Vault
  BY HistFields DEF Typed, StoresTyped
<1>4. Cardinality(hist.votes[p]) <= Cardinality(hist'.votes[p]) /\ Cardinality(hist.votes[p]) \in Nat /\ Cardinality(hist'.votes[p]) \in Nat
  BY <1>2, <1>3, ReleasesAssumption, FS_Subset, FS_CardinalityType
<1>5. Cardinality(hist'.votes[p]) >= GovernanceT
  <2>1. GovernanceT \in Int
    <3>1. Cardinality(Vault) \in Nat
      BY ReleasesAssumption, FS_CardinalityType
    <3> QED
      BY <3>1 DEF GovernanceT, QuorumTwoThirds
  <2> QED
    BY <1>1, <1>4, <2>1
<1> QED
  BY <1>2, <1>5 DEF EpochHasQuorum

\* Enough different votes are votes of enough vaults.
LEMMA VotesCount ==
    ASSUME NEW q \in Proposals, Sound(q), NEW V \in SUBSET Vault, Voters(q) \subseteq V, Len(q.votes) >= GovernanceT
    PROVE  Cardinality(V) >= GovernanceT
<1>1. q.votes \in Seq(Vault) /\ Len(q.votes) \in Nat /\ DOMAIN q.votes = 1 .. Len(q.votes)
  BY DEF Proposals
<1>2. IsFiniteSet(1 .. Len(q.votes)) /\ Cardinality(1 .. Len(q.votes)) = Len(q.votes)
  BY <1>1, FS_Interval
<1>3. IsFiniteSet(V)
  BY ReleasesAssumption, FS_Subset
<1>4. q.votes \in Injection(1 .. Len(q.votes), V)
  <2>1. \A i \in 1 .. Len(q.votes) : q.votes[i] \in V
    BY <1>1 DEF Voters
  <2>2. q.votes \in [1 .. Len(q.votes) -> V]
    BY <1>1, <2>1
  <2>3. \A i, j \in 1 .. Len(q.votes) : q.votes[i] = q.votes[j] => i = j
    BY <1>1 DEF Sound
  <2> QED
    BY <2>2, <2>3 DEF Injection, IsInjective
<1>5. Cardinality(1 .. Len(q.votes)) <= Cardinality(V)
  BY <1>2, <1>3, <1>4, FS_Injection
<1>6. Cardinality(V) \in Nat /\ GovernanceT \in Int
  <2>1. Cardinality(Vault) \in Nat /\ Cardinality(V) \in Nat
    BY <1>3, ReleasesAssumption, FS_CardinalityType
  <2> QED
    BY <2>1 DEF GovernanceT, QuorumTwoThirds
<1> QED
  BY <1>1, <1>2, <1>5, <1>6

\* Where a vote stands when it takes a step.
LEMMA VoteStep ==
    ASSUME Typed, NEW w \in Worker, NEW s, At(w, s), Voting(call[w])
    PROVE  /\ call[w].pc \in 1 .. 7
           /\ call[w].pc = 1 => s = "save_vote"
           /\ call[w].pc \in {2, 6} => s = "head"
           /\ call[w].pc \in {3, 7} => s = "append"
           /\ call[w].pc = 4 => s = "close"
           /\ call[w].pc = 5 => s = "set_epoch"
           /\ call[w].pc = 3 => On(w) = "vote_recorded"
           /\ call[w].pc = 7 => On(w) = "epoch_advanced"
<1>1. call[w].req.op = "vote_epoch"
  BY DEF Voting
<1>2. call[w].pc \in 1 .. 7
  BY <1>1, AtStep, VoteProgram
<1>3. s = Program("vote_epoch")[call[w].pc][1] /\ On(w) = Program("vote_epoch")[call[w].pc][2]
  BY <1>1 DEF At, On, Steps
<1> QED
  BY <1>2, <1>3, VoteProgram

\* A request that has not set the epoch still uses the ledger.
LEMMA VotingAhead ==
    ASSUME Typed, NEW w \in Worker, Voting(call[w]), call[w].pc <= 5
    PROVE  Ahead(call[w], "ledger")
<1>1. call[w].req # None /\ call[w].req.op = "vote_epoch" /\ call[w].pc \in Nat
  BY DEF Voting, Typed, CallsTyped, CallSet
<1>2. 5 \in call[w].pc .. Len(Program("vote_epoch")) /\ Program("vote_epoch")[5][2] = "ledger"
  BY <1>1, VoteProgram
<1> QED
  BY <1>1, <1>2 DEF Ahead, Uses

\* What is left to show of a step that does not set the epoch.
LEMMA LedgerKept ==
    ASSUME Typed, Typed', LedgerInv, NEW w \in Worker, NEW d, Moved(w, d), Grows,
           epoch' = epoch, raced' = raced, ProposalsSound', ChainLinked', EpochWritten',
           Voting(d) /\ call[w].pc = 1 => call[w].req.by \in hist'.votes[call[w].req.on],
           Voting(d) /\ call[w].pc = 3 => Len(call[w].prop.votes) >= GovernanceT
    PROVE  LedgerInv'
<1>1. call'[w] = d /\ \A u \in Worker : u # w => call'[u] = call[u]
  BY MovedCalls
<1>2. VotesSound'
  <2>1. ASSUME NEW u \in Worker PROVE VoteOk(call[u])'
    <3>1. CASE u = w
      <4>1. VoteOk(call[w])
        BY DEF LedgerInv, VotesSound
      <4>2. VoteOk(d)'
        BY <4>1, MovedVote
      <4> QED
        BY <1>1, <3>1, <4>2 DEF VoteOk, Voting, Proposing
    <3>2. CASE u # w
      <4>1. call[u] \in CallSet /\ CallOk(call[u]) /\ VoteOk(call[u])
        BY DEF LedgerInv, VotesSound, Typed, CallsTyped
      <4>2. PICK c : c = call[u]
        OBVIOUS
      <4>3. VoteOk(c)'
        BY <4>1, <4>2, VoteOkStays
      <4> QED
        BY <1>1, <3>2, <4>2, <4>3 DEF VoteOk, Voting, Proposing
    <3> QED
      BY <3>1, <3>2
  <2> QED
    BY <2>1 DEF VotesSound
<1>3. EpochHasQuorum'
  BY QuorumStays DEF LedgerInv
<1>4. VotesFollow'
  <2>1. ASSUME NEW u \in Worker, Voting(call'[u]), call'[u].pc <= 5
        PROVE  Voting(call[u]) /\ call[u].pc <= 5 /\ call[u].prop = call'[u].prop
    <3>1. call[w].pc \in Nat
      BY DEF Typed, CallsTyped, CallSet
    <3> QED
      BY <1>1, <2>1, <3>1 DEF Moved, Voting
  <2> QED
    BY <2>1 DEF VotesFollow, LedgerInv, Voting
<1> QED
  BY <1>2, <1>3, <1>4 DEF LedgerInv

\* A step that leaves the ledger alone.
LEMMA LedgerQuiet ==
    ASSUME Typed, Typed', LedgerInv, NEW w \in Worker, NEW d, Moved(w, d), ~Voting(call[w]),
           UNCHANGED <<epoch, chain, props, refused, raced>>, hist'.votes = hist.votes
    PROVE  LedgerInv'
<1>1. call'[w] = d /\ \A u \in Worker : u # w => call'[u] = call[u]
  BY MovedCalls
<1>2. Grows
  BY DEF Grows
<1>3. ProposalsSound' /\ ChainLinked'
  BY DEF LedgerInv, ProposalsSound, ChainLinked
<1>4. EpochWritten'
  BY <1>1 DEF LedgerInv, EpochWritten, Voting
<1>5. ~Voting(d)
  BY DEF Moved, Voting
<1> QED
  BY <1>2, <1>3, <1>4, <1>5, LedgerKept

\* The three steps that store a proposal.
LEMMA LedgerStores ==
    ASSUME Typed, LedgerInv, NEW w \in Worker, PutProposal(w) \/ SaveVote(w) \/ Close(w)
    PROVE  LedgerInv'
<1>0. Typed' /\ raced' = raced /\ StoresTyped /\ ProposalsSound /\ VoteOk(call[w])
  <2>1. Step(w)
    BY DEF Step
  <2> QED
    BY <2>1, TypedStep DEF Typed, LedgerInv, VotesSound
<1>1. PICK d : Moved(w, d)
  BY Moves DEF Step
<1>2. call'[w] = d /\ (\A u \in Worker : u # w => call'[u] = call[u]) /\ epoch' = epoch /\ chain' = chain /\ refused' = refused
  BY <1>1, MovedCalls DEF PutProposal, SaveVote, Close
<1>3. ChainLinked'
  BY <1>2 DEF LedgerInv, ChainLinked
<1>4. PICK s \in {"put_proposal", "save_vote", "close"} : At(w, s)
  BY DEF PutProposal, SaveVote, Close
<1>5. /\ call[w] \in CallSet /\ CallOk(call[w]) /\ call[w].req # None
      /\ Placed(call[w].req.op, call[w].pc, s, On(w))
  BY <1>4, AtStep DEF Typed, CallsTyped
<1>6. EpochWritten'
  <2>1. Voting(call[w]) => call[w].pc \notin {6, 7}
    BY <1>4, VoteStep
  <2>2. EpochWritten
    BY DEF LedgerInv
  <2> QED
    BY <1>2, <2>1, <2>2 DEF EpochWritten, Voting
<1>7. PICK p : p = call[w].req.on
  OBVIOUS
<1>8. p \in Proposal /\ call[w].req.by \in Vault /\ call[w].prop \in Proposals
  <2>1. call[w].req.op \in {"propose_epoch", "vote_epoch"}
    BY <1>5 DEF Placed
  <2> QED
    BY <1>5, <1>7, <2>1, EpochCall
<1>9. ASSUME NEW q \in Proposals, NEW V \in SUBSET Vault, props' = [props EXCEPT ![p] = q], Sound(q), Voters(q) \subseteq V,
             hist'.votes = [hist.votes EXCEPT ![p] = V],
             props[p] # None => q.to = props[p].to /\ hist.votes[p] \subseteq V
      PROVE  Grows /\ ProposalsSound'
  <2>1. /\ props'[p] = q /\ (\A x \in Proposal : x # p => props'[x] = props[x])
        /\ hist'.votes[p] = V /\ (\A x \in Proposal : x # p => hist'.votes[x] = hist.votes[x])
    BY <1>0, <1>8, <1>9, HistFields DEF StoresTyped
  <2>2. q # None
    BY <1>9, Given
  <2>3. Grows
    BY <1>9, <2>1, <2>2 DEF Grows
  <2>4. ProposalsSound'
    BY <1>0, <1>9, <2>1 DEF ProposalsSound, Sound, Voters
  <2> QED
    BY <2>3, <2>4
<1>10. CASE PutProposal(w)
  <2>1. At(w, "put_proposal") /\ call[w].req.op = "propose_epoch" /\ call[w].pc = 1
    BY <1>10, AtStep DEF PutProposal, Placed
  <2>2. ~Voting(call[w])
    BY <2>1 DEF Voting
  <2>3. CASE props[p] # None
    <3>1. props' = props /\ hist' = hist
      BY <1>7, <1>10, <2>3 DEF PutProposal
    <3> QED
      BY <1>0, <1>1, <1>2, <2>2, <3>1, LedgerQuiet
  <2>4. CASE props[p] = None
    <3>1. /\ props' = [props EXCEPT ![p] = call[w].prop]
          /\ hist' = [hist EXCEPT !.votes[p] = {call[w].req.by}]
      BY <1>7, <1>10, <2>4 DEF PutProposal
    <3>2. {call[w].req.by} \in SUBSET Vault
      BY <1>8
    <3>3. hist'.votes = [hist.votes EXCEPT ![p] = {call[w].req.by}]
      BY <1>0, <1>8, <3>1, <3>2, HistVote DEF StoresTyped
    <3>4. Sound(call[w].prop) /\ Voters(call[w].prop) = {call[w].req.by}
      BY <1>0, <1>5, <2>1 DEF VoteOk, Proposing
    <3>5. Grows /\ ProposalsSound'
      BY <1>8, <1>9, <2>4, <3>1, <3>2, <3>3, <3>4
    <3>6. ~Voting(d)
      BY <1>1, <2>2 DEF Moved, Voting
    <3> QED
      BY <1>0, <1>1, <1>2, <1>3, <1>6, <3>5, <3>6, LedgerKept
  <2> QED
    BY <2>3, <2>4
<1>11. CASE SaveVote(w)
  <2>1. At(w, "save_vote") /\ Voting(call[w]) /\ call[w].pc = 1
    BY <1>5, <1>11, AtStep DEF SaveVote, Placed, Voting
  <2>2. PICK V : V = hist.votes[p] \cup {call[w].req.by}
    OBVIOUS
  <2>3. V \in SUBSET Vault
    BY <1>0, <1>8, <2>2, HistFields DEF StoresTyped
  <2>4. props' = [props EXCEPT ![p] = call[w].prop] /\ hist' = [hist EXCEPT !.votes[p] = V]
    BY <1>7, <1>11, <2>2 DEF SaveVote
  <2>5. hist'.votes = [hist.votes EXCEPT ![p] = V]
    BY <1>0, <1>8, <2>3, <2>4, HistVote DEF StoresTyped
  <2>6. Sound(call[w].prop) /\ Voters(call[w].prop) \subseteq V /\ props[p].to = call[w].prop.to
    BY <1>0, <1>7, <2>1, <2>2 DEF VoteOk
  <2>7. Grows /\ ProposalsSound'
    BY <1>8, <1>9, <2>2, <2>3, <2>4, <2>5, <2>6
  <2>8. call[w].req.by \in hist'.votes[call[w].req.on]
    BY <1>0, <1>7, <1>8, <2>2, <2>5, HistFields DEF StoresTyped
  <2> QED
    BY <1>0, <1>1, <1>2, <1>3, <1>6, <2>1, <2>7, <2>8, LedgerKept
<1>12. CASE Close(w)
  <2>1. At(w, "close") /\ Voting(call[w]) /\ call[w].pc = 4
    BY <1>5, <1>12, AtStep DEF Close, Placed, Voting
  <2>2. PICK q : q = [call[w].prop EXCEPT !.closed = TRUE]
    OBVIOUS
  <2>3. q \in Proposals /\ q.votes = call[w].prop.votes /\ q.to = call[w].prop.to /\ q.from = call[w].prop.from
    BY <1>8, <2>2 DEF Proposals
  <2>4. props' = [props EXCEPT ![p] = q] /\ hist' = hist
    BY <1>7, <1>12, <2>2 DEF Close
  <2>5. /\ Sound(call[w].prop) /\ Voters(call[w].prop) \subseteq hist.votes[p] \cup {call[w].req.by}
        /\ call[w].req.by \in hist.votes[p] /\ props[p].to = call[w].prop.to
    BY <1>0, <1>7, <2>1 DEF VoteOk
  <2>6. Sound(q) /\ Voters(q) \subseteq hist.votes[p]
    BY <2>3, <2>5 DEF Sound, Voters
  <2>7. hist.votes[p] \in SUBSET Vault /\ hist'.votes = [hist.votes EXCEPT ![p] = hist.votes[p]]
    BY <1>0, <1>8, <2>4, HistFields DEF StoresTyped
  <2>8. Grows /\ ProposalsSound'
    BY <1>8, <1>9, <2>3, <2>4, <2>5, <2>6, <2>7
  <2> QED
    BY <1>0, <1>1, <1>2, <1>3, <1>6, <2>1, <2>8, LedgerKept
<1> QED
  BY <1>10, <1>11, <1>12

\* A vote that has more to do goes to its next step.
LEMMA VoteGoesOn ==
    ASSUME Typed, NEW w \in Worker, NEW c, c.pc = call[w].pc, c.req = call[w].req, c.prop = call[w].prop, c \in CallSet,
           Voting(call[w]), call[w].pc \in {5, 6}, Proceed(w, c)
    PROVE  Voting(call'[w]) /\ call'[w].pc = call[w].pc + 1 /\ call'[w].prop = call[w].prop
<1>1. Len(Steps(w)) = 7
  BY VoteProgram DEF Steps, Voting
<1>2. call' = [call EXCEPT ![w] = [c EXCEPT !.pc = c.pc + 1]]
  <2>1. c.pc # Len(Steps(w))
    BY <1>1
  <2>2. PICK n : n = Len(Steps(w))
    OBVIOUS
  <2>3. call' = [call EXCEPT ![w] = IF c.pc = n THEN Idle ELSE [c EXCEPT !.pc = c.pc + 1]]
    BY <2>2 DEF Proceed
  <2> QED
    BY <2>1, <2>2, <2>3
<1>3. PICK e : e = [c EXCEPT !.pc = c.pc + 1]
  OBVIOUS
<1>4. call'[w] = e
  BY <1>2, <1>3 DEF Typed, CallsTyped
<1>5. e.pc = c.pc + 1 /\ e.req = c.req /\ e.prop = c.prop
  BY <1>3 DEF CallSet
<1> QED
  BY <1>4, <1>5 DEF Voting

\* Reading the end of the chain.
LEMMA LedgerReads ==
    ASSUME Typed, LedgerInv, NEW w \in Worker, ReadHead(w)
    PROVE  LedgerInv'
<1>0. Typed' /\ raced' = raced
  <2>1. Step(w)
    BY DEF Step
  <2> QED
    BY <2>1, TypedStep
<1>1. PICK d : Moved(w, d)
  BY Moves DEF Step
<1>2. /\ call'[w] = d /\ (\A u \in Worker : u # w => call'[u] = call[u])
      /\ UNCHANGED <<epoch, chain, props, refused, hist>>
  BY <1>1, MovedCalls DEF ReadHead, memory
<1>3. ProposalsSound' /\ ChainLinked' /\ Grows
  BY <1>2 DEF LedgerInv, ProposalsSound, ChainLinked, Grows
<1>4. At(w, "head")
  BY DEF ReadHead
<1>5. Voting(call[w]) => call[w].pc \in {2, 6}
  BY <1>4, VoteStep
<1>6. EpochWritten'
  <2>1. CASE Voting(call[w]) /\ call[w].pc = 6
    <3>1. PICK c : c = [call[w] EXCEPT !.head = Len(chain)]
      OBVIOUS
    <3>2. call[w] \in CallSet /\ Len(chain) \in Nat
      BY DEF Typed, CallsTyped, StoresTyped
    <3>3. c \in CallSet /\ c.req = call[w].req /\ c.pc = call[w].pc /\ c.prop = call[w].prop
      BY <3>1, <3>2 DEF CallSet
    <3>4. Proceed(w, c)
      BY <3>1 DEF ReadHead
    <3>5. Voting(call'[w]) /\ call'[w].pc = 7 /\ call'[w].prop = call[w].prop
      BY <2>1, <3>3, <3>4, VoteGoesOn
    <3>6. EpochWritten
      BY DEF LedgerInv
    <3> QED
      BY <1>2, <2>1, <3>5, <3>6 DEF EpochWritten, Voting
  <2>2. CASE ~(Voting(call[w]) /\ call[w].pc = 6)
    BY <1>2, <1>5, <2>2 DEF LedgerInv, EpochWritten, Voting
  <2> QED
    BY <2>1, <2>2
<1>7. Voting(d) => Voting(call[w])
  BY <1>1 DEF Moved, Voting
<1> QED
  BY <1>0, <1>1, <1>2, <1>3, <1>5, <1>6, <1>7, LedgerKept

\* An entry joins the chain, or is refused.
LEMMA LedgerAppends ==
    ASSUME Typed, LedgerInv, NEW w \in Worker, LedgerAppend(w)
    PROVE  LedgerInv'
<1>0. Typed' /\ raced' = raced /\ StoresTyped
  <2>1. Step(w)
    BY DEF Step
  <2> QED
    BY <2>1, TypedStep DEF Typed
<1>1. PICK d : Moved(w, d)
  BY Moves DEF Step
<1>2. /\ call'[w] = d /\ (\A u \in Worker : u # w => call'[u] = call[u])
      /\ UNCHANGED <<epoch, props, hist>>
  BY <1>1, MovedCalls DEF LedgerAppend
<1>3. ProposalsSound' /\ Grows
  BY <1>2 DEF LedgerInv, ProposalsSound, Grows
<1>4. At(w, "append")
  BY DEF LedgerAppend
<1>5. Voting(call[w]) => /\ call[w].pc \in {3, 7} /\ call[w].prop # None
                         /\ call[w].pc = 3 => On(w) = "vote_recorded"
                         /\ call[w].pc = 7 => On(w) = "epoch_advanced"
  <2>1. Voting(call[w]) => call[w].prop # None
    BY DEF Voting, Typed, CallsTyped, CallOk
  <2> QED
    BY <1>4, <2>1, VoteStep
<1>6. Voting(d) => Voting(call[w])
  BY <1>1 DEF Moved, Voting
<1>7. CASE ~Accepts(w)
  <2>1. refused' = TRUE /\ Fail(w) /\ chain' = chain
    BY <1>7 DEF LedgerAppend
  <2>2. d = Idle
    BY <1>2, <2>1 DEF Fail, Typed, CallsTyped
  <2>3. ~Voting(d)
    BY <2>2, IdleOk DEF Voting
  <2>4. ChainLinked' /\ EpochWritten'
    BY <2>1 DEF LedgerInv, ChainLinked, EpochWritten
  <2> QED
    BY <1>0, <1>1, <1>2, <1>3, <2>3, <2>4, LedgerKept
<1>8. CASE Accepts(w)
  <2>1. PICK x : x = [kind |-> On(w), prev |-> call[w].head,
                      epoch |-> IF On(w) = "epoch_advanced" THEN call[w].prop.to ELSE epoch]
    OBVIOUS
  <2>2. /\ chain' = chain \o <<x>> /\ refused' = refused
        /\ IF On(w) = "vote_recorded" /\ ~Enough(call[w]) THEN Fail(w) ELSE Proceed(w, call[w])
    BY <1>8, <2>1 DEF LedgerAppend
  <2>3. /\ chain \in Seq(Entries) /\ Len(chain) \in Nat /\ DOMAIN chain = 1 .. Len(chain)
        /\ Len(chain') = Len(chain) + 1 /\ DOMAIN chain' = 1 .. Len(chain) + 1
        /\ chain'[Len(chain) + 1] = x /\ \A i \in 1 .. Len(chain) : chain'[i] = chain[i]
    BY <1>0, <2>2 DEF StoresTyped
  <2>4. x.prev = Len(chain)
    BY <1>8, <2>1 DEF Accepts
  <2>5. ChainLinked'
    <3>1. ChainLinked
      BY DEF LedgerInv
    <3>2. ASSUME NEW i \in 2 .. Len(chain') PROVE chain'[i].prev = i - 1
      <4>1. CASE i = Len(chain) + 1
        BY <2>3, <2>4, <4>1
      <4>2. CASE i # Len(chain) + 1
        BY <2>3, <3>1, <4>2 DEF ChainLinked
      <4> QED
        BY <4>1, <4>2
    <3> QED
      BY <3>2 DEF ChainLinked
  <2>6. EpochWritten'
    <3>1. EpochWritten
      BY DEF LedgerInv
    <3>2. CASE epoch = 0 \/ refused
      BY <1>2, <2>2, <3>2 DEF EpochWritten
    <3>3. CASE \E i \in DOMAIN chain : chain[i].kind = "epoch_advanced" /\ chain[i].epoch = epoch
      <4>1. PICK i \in DOMAIN chain : chain[i].kind = "epoch_advanced" /\ chain[i].epoch = epoch
        BY <3>3
      <4>2. i \in DOMAIN chain' /\ chain'[i] = chain[i]
        BY <2>3, <4>1
      <4> QED
        BY <1>2, <4>1, <4>2 DEF EpochWritten
    <3>4. CASE \E u \in Worker : Voting(call[u]) /\ call[u].pc \in {6, 7} /\ call[u].prop.to = epoch
      <4>1. PICK u \in Worker : Voting(call[u]) /\ call[u].pc \in {6, 7} /\ call[u].prop.to = epoch
        BY <3>4
      <4>2. CASE u # w
        BY <1>2, <4>1, <4>2 DEF EpochWritten, Voting
      <4>3. CASE u = w
        <5>1. On(w) = "epoch_advanced"
          BY <1>5, <4>1, <4>3
        <5>2. x.kind = "epoch_advanced" /\ x.epoch = epoch
          BY <2>1, <4>1, <4>3, <5>1
        <5>3. Len(chain) + 1 \in DOMAIN chain'
          BY <2>3
        <5> QED
          BY <1>2, <2>3, <5>2, <5>3 DEF EpochWritten
      <4> QED
        BY <4>2, <4>3
    <3> QED
      BY <3>1, <3>2, <3>3, <3>4 DEF EpochWritten
  <2>7. ASSUME Voting(d), call[w].pc = 3 PROVE Len(call[w].prop.votes) >= GovernanceT
    <3>1. On(w) = "vote_recorded" /\ call[w].prop # None
      BY <1>5, <1>6, <2>7
    <3>2. ~Fail(w)
      BY <1>2, <2>7, IdleOk DEF Fail, Voting, Typed, CallsTyped
    <3>3. Enough(call[w])
      BY <2>2, <3>1, <3>2
    <3> QED
      BY <3>1, <3>3 DEF Enough
  <2>8. ~(Voting(d) /\ call[w].pc = 1)
    BY <1>5, <1>6
  <2> QED
    BY <1>0, <1>1, <1>2, <1>3, <2>5, <2>6, <2>7, <2>8, LedgerKept
<1> QED
  BY <1>7, <1>8

\* The epoch is set to that of a proposal with a quorum, and one further while votes do not overlap.
LEMMA LedgerAdvances ==
    ASSUME Typed, Apart, LedgerInv, NEW w \in Worker, AdvanceEpoch(w)
    PROVE  LedgerInv' /\ ("ledger" \notin raced => epoch' = epoch + 1)
<1>0. Typed' /\ raced' = raced /\ StoresTyped
  <2>1. Step(w)
    BY DEF Step
  <2> QED
    BY <2>1, TypedStep DEF Typed
<1>1. PICK d : Moved(w, d)
  BY Moves DEF Step
<1>2. /\ call'[w] = d /\ (\A u \in Worker : u # w => call'[u] = call[u])
      /\ UNCHANGED <<chain, props, hist, refused>> /\ epoch' = call[w].prop.to
  BY <1>1, MovedCalls DEF AdvanceEpoch
<1>3. ProposalsSound' /\ ChainLinked' /\ Grows
  BY <1>2 DEF LedgerInv, ProposalsSound, ChainLinked, Grows
<1>4. call[w] \in CallSet /\ CallOk(call[w]) /\ Voting(call[w]) /\ call[w].pc = 5 /\ Proceed(w, call[w])
  <2>1. At(w, "set_epoch") /\ Proceed(w, call[w])
    BY DEF AdvanceEpoch
  <2>2. Placed(call[w].req.op, call[w].pc, "set_epoch", On(w)) /\ call[w].req # None
    BY <2>1, AtStep
  <2> QED
    BY <2>1, <2>2 DEF Placed, Voting, Typed, CallsTyped
<1>5. Voting(call'[w]) /\ call'[w].pc = 6 /\ call'[w].prop = call[w].prop
  BY <1>4, VoteGoesOn
<1>6. call[w].req.on \in Proposal /\ call[w].req.by \in Vault /\ call[w].prop \in Proposals
  BY <1>4, EpochCall DEF Voting
<1>7. VoteOk(call[w])
  BY DEF LedgerInv, VotesSound
<1>8. VotesSound'
  <2>1. ASSUME NEW u \in Worker PROVE VoteOk(call[u])'
    <3>1. CASE u = w
      <4>1. VoteOk(d)'
        BY <1>1, <1>3, <1>4, <1>7, MovedVote
      <4> QED
        BY <1>2, <3>1, <4>1 DEF VoteOk, Voting, Proposing
    <3>2. CASE u # w
      <4>1. call[u] \in CallSet /\ CallOk(call[u]) /\ VoteOk(call[u])
        BY DEF LedgerInv, VotesSound, Typed, CallsTyped
      <4>2. PICK c : c = call[u]
        OBVIOUS
      <4>3. VoteOk(c)'
        BY <1>3, <4>1, <4>2, VoteOkStays
      <4> QED
        BY <1>2, <3>2, <4>2, <4>3 DEF VoteOk, Voting, Proposing
    <3> QED
      BY <3>1, <3>2
  <2> QED
    BY <2>1 DEF VotesSound
<1>9. EpochHasQuorum'
  <2>1. PICK p \in Proposal : p = call[w].req.on
    BY <1>6
  <2>2. /\ props[p] # None /\ props[p].to = call[w].prop.to /\ Sound(call[w].prop)
        /\ Voters(call[w].prop) \subseteq hist.votes[p] /\ Len(call[w].prop.votes) >= GovernanceT
    BY <1>4, <1>7, <2>1 DEF VoteOk
  <2>3. hist.votes[p] \in SUBSET Vault
    BY <1>0, HistFields DEF StoresTyped
  <2>4. Cardinality(hist.votes[p]) >= GovernanceT
    BY <1>6, <2>2, <2>3, VotesCount
  <2> QED
    BY <1>2, <2>2, <2>4 DEF EpochHasQuorum
<1>10. EpochWritten'
  BY <1>2, <1>5 DEF EpochWritten, Voting
<1>11. VotesFollow'
  <2>1. SUFFICES ASSUME "ledger" \notin raced, NEW u \in Worker, Voting(call'[u]), call'[u].pc <= 5 PROVE FALSE
    BY <1>0 DEF VotesFollow, Voting
  <2>2. u # w
    BY <1>5, <2>1
  <2>3. Ahead(call[u], "ledger") /\ Ahead(call[w], "ledger")
    BY <1>2, <1>4, <2>1, <2>2, VotingAhead
  <2> QED
    BY <2>1, <2>2, <2>3 DEF Apart, Stores
<1>12. "ledger" \notin raced => epoch' = epoch + 1
  BY <1>2, <1>4, <1>7 DEF VoteOk, Sound, LedgerInv, VotesFollow
<1> QED
  BY <1>3, <1>8, <1>9, <1>10, <1>11, <1>12 DEF LedgerInv

\* Releases and economy append to the chain and leave the rest of the ledger alone.
LEMMA LedgerElsewhere ==
    ASSUME Typed, LedgerInv, NEW w \in Worker,
           \/ PutCandidate(w) \/ SaveCandidate(w) \/ PutAllowlist(w)
           \/ AccrueGovernance(w) \/ AccrueProfit(w) \/ Upsert(w) \/ Shares(w) \/ AssertIntents(w) \/ Debit(w) \/ Record(w)
           \/ Clone(w) \/ WriteTmp(w) \/ Rename(w) \/ WriteFails(w)
    PROVE  LedgerInv' /\ epoch' = epoch
<1>0. Typed' /\ raced' = raced /\ StoresTyped
  <2>1. Step(w)
    BY DEF Step
  <2> QED
    BY <2>1, TypedStep DEF Typed
<1>1. PICK d : Moved(w, d)
  BY Moves DEF Step
<1>2. UNCHANGED <<epoch, chain, props, refused>> /\ hist'.votes = hist.votes
  <2>1. CASE PutCandidate(w) \/ PutAllowlist(w)
    BY <2>1 DEF PutCandidate, PutAllowlist
  <2>2. CASE SaveCandidate(w)
    <3>1. UNCHANGED <<epoch, chain, props, refused>>
      BY <2>2 DEF SaveCandidate
    <3>2. At(w, "save_candidate")
      BY <2>2 DEF SaveCandidate
    <3>3. call[w].req # None /\ call[w].req.op \in Saves
      BY <3>2, AtStep DEF Placed
    <3>4. call[w].req.on \in Release /\ call[w].req.by \in Vault
      BY <3>3, ReleaseCall
    <3>5. /\ hist.rebuilds[call[w].req.on] \cup {call[w].req.by} \in SUBSET Vault
          /\ hist.cosigns[call[w].req.on] \cup {call[w].req.by} \in SUBSET Vault
      BY <1>0, <3>4, HistFields DEF StoresTyped
    <3>6. \/ hist' = [hist EXCEPT !.rebuilds[call[w].req.on] = hist.rebuilds[call[w].req.on] \cup {call[w].req.by}]
          \/ hist' = [hist EXCEPT !.cosigns[call[w].req.on] = hist.cosigns[call[w].req.on] \cup {call[w].req.by}]
          \/ hist' = hist
      BY <2>2, <3>3 DEF SaveCandidate, Saves
    <3>7. hist'.votes = hist.votes
      BY <1>0, <3>4, <3>5, <3>6, HistSave DEF StoresTyped
    <3> QED
      BY <3>1, <3>7
  <2>3. CASE \/ AccrueGovernance(w) \/ AccrueProfit(w) \/ Upsert(w) \/ Shares(w) \/ AssertIntents(w) \/ Debit(w) \/ Record(w)
    BY <2>3, EconomyTypes
  <2>4. CASE Clone(w) \/ WriteTmp(w) \/ Rename(w) \/ WriteFails(w)
    BY <2>4, FileTypes
  <2> QED
    BY <2>1, <2>2, <2>3, <2>4
<1>3. PICK s \in {"put_candidate", "save_candidate", "put_allowlist", "accrue_governance", "accrue_profit", "upsert",
                  "shares", "assert", "debit", "record", "clone", "write", "rename"} : At(w, s)
  <2>1. CASE PutCandidate(w) \/ SaveCandidate(w) \/ PutAllowlist(w)
    BY <2>1 DEF PutCandidate, SaveCandidate, PutAllowlist
  <2>2. CASE AccrueGovernance(w) \/ AccrueProfit(w) \/ Upsert(w) \/ Shares(w)
    BY <2>2, Zenon DEF AccrueGovernance, AccrueProfit, Upsert, Shares
  <2>3. CASE AssertIntents(w) \/ Debit(w) \/ Record(w)
    BY <2>3, Zenon DEF AssertIntents, Debit, Record
  <2>4. CASE Clone(w) \/ WriteTmp(w) \/ Rename(w) \/ WriteFails(w)
    BY <2>4 DEF Clone, WriteTmp, Rename, WriteFails
  <2> QED
    BY <2>1, <2>2, <2>3, <2>4
<1>4. ~Voting(call[w])
  BY <1>3, VoteStep
<1> QED
  BY <1>0, <1>1, <1>2, <1>4, LedgerQuiet

\* A request taken up.
LEMMA LedgerBegins ==
    ASSUME Typed, LedgerInv, NEW w \in Worker, Request(w)
    PROVE  LedgerInv' /\ epoch' = epoch
<1>1. PICK r \in todo : \E d :
        /\ Taken(w, r, d)
        /\ r.op = "propose_epoch" => d.prop = NewProposal(r.by)
        /\ r.op = "vote_epoch" => /\ props[r.on] # None /\ props[r.on].from = epoch
                                  /\ d.prop = AddVote(props[r.on], r.by)
  BY Begins
<1>2. PICK d :
        /\ Taken(w, r, d)
        /\ r.op = "propose_epoch" => d.prop = NewProposal(r.by)
        /\ r.op = "vote_epoch" => /\ props[r.on] # None /\ props[r.on].from = epoch
                                  /\ d.prop = AddVote(props[r.on], r.by)
  BY <1>1
<1>3. /\ Typed' /\ call'[w] = d /\ (\A u \in Worker : u # w => call'[u] = call[u])
      /\ call[w].req = None /\ d.req = r /\ d.pc = 1 /\ raced \subseteq raced'
      /\ UNCHANGED <<epoch, chain, props, hist, refused>> /\ d \in CallSet /\ CallOk(d) /\ StoresTyped
      /\ r \in Requests /\ r.op \in Operations
  BY <1>2, TypedTaken DEF Taken, Typed
<1>4. Grows /\ ProposalsSound' /\ ChainLinked'
  BY <1>3 DEF LedgerInv, ProposalsSound, ChainLinked, Grows
<1>5. EpochHasQuorum'
  BY <1>3, <1>4, QuorumStays DEF LedgerInv
<1>6. EpochWritten'
  <2>1. EpochWritten
    BY DEF LedgerInv
  <2> QED
    BY <1>3, <2>1 DEF EpochWritten, Voting
<1>7. r.op \in {"propose_epoch", "vote_epoch"} => r.on \in Proposal /\ r.by \in Vault
  BY <1>3, Given DEF IsRequest
<1>8. VoteOk(d)'
  <2>1. CASE r.op = "propose_epoch"
    <3>1. d.prop = [from |-> epoch, to |-> epoch + 1, votes |-> <<r.by>>, closed |-> FALSE]
      BY <1>2, <2>1 DEF NewProposal
    <3>2. d.prop.from = epoch /\ d.prop.to = epoch + 1 /\ d.prop.votes = <<r.by>>
      BY <3>1
    <3>3. Sound(d.prop) /\ Voters(d.prop) = {r.by}
      BY <3>2 DEF Sound, Voters
    <3> QED
      BY <1>3, <2>1, <3>3 DEF VoteOk, Voting, Proposing
  <2>2. CASE r.op = "vote_epoch"
    <3>1. /\ r.on \in Proposal /\ r.by \in Vault /\ props[r.on] \in Proposals
          /\ Sound(props[r.on]) /\ Voters(props[r.on]) \subseteq hist.votes[r.on]
      BY <1>2, <1>3, <1>7, <2>2 DEF LedgerInv, ProposalsSound, StoresTyped
    <3>2. /\ d.prop.to = props[r.on].to /\ Sound(d.prop) /\ Voters(d.prop) = Voters(props[r.on]) \cup {r.by}
      BY <1>2, <2>2, <3>1, AddVoteOk
    <3> QED
      BY <1>2, <1>3, <2>2, <3>1, <3>2 DEF VoteOk, Voting, Proposing
  <2>3. CASE r.op \notin {"propose_epoch", "vote_epoch"}
    BY <1>3, <2>3 DEF VoteOk, Voting, Proposing
  <2> QED
    BY <2>1, <2>2, <2>3
<1>9. VotesSound'
  <2>1. ASSUME NEW u \in Worker PROVE VoteOk(call[u])'
    <3>1. CASE u = w
      BY <1>3, <1>8, <3>1 DEF VoteOk, Voting, Proposing
    <3>2. CASE u # w
      <4>1. call[u] \in CallSet /\ CallOk(call[u]) /\ VoteOk(call[u])
        BY DEF LedgerInv, VotesSound, Typed, CallsTyped
      <4>2. PICK c : c = call[u]
        OBVIOUS
      <4>3. VoteOk(c)'
        BY <1>4, <4>1, <4>2, VoteOkStays
      <4> QED
        BY <1>3, <3>2, <4>2, <4>3 DEF VoteOk, Voting, Proposing
    <3> QED
      BY <3>1, <3>2
  <2> QED
    BY <2>1 DEF VotesSound
<1>10. VotesFollow'
  <2>1. ASSUME Voting(d) PROVE d.prop.from = epoch
    <3>1. r.op = "vote_epoch" /\ r.on \in Proposal /\ r.by \in Vault
      BY <1>3, <1>7, <2>1 DEF Voting
    <3>2. props[r.on] \in Proposals
      BY <1>2, <1>3, <3>1 DEF StoresTyped
    <3> QED
      BY <1>2, <3>1, <3>2, AddVoteOk
  <2> QED
    BY <1>3, <2>1 DEF VotesFollow, LedgerInv, Voting
<1> QED
  BY <1>3, <1>4, <1>5, <1>6, <1>9, <1>10 DEF LedgerInv

\* A boot starts the ledger from genesis; a day changes nothing in it.
LEMMA LedgerRestarts == ASSUME Typed, LedgerInv, Restart PROVE LedgerInv' /\ faults' > faults
<1>1. /\ call' = [w \in Worker |-> Idle] /\ epoch' = 0 /\ props' = [p \in Proposal |-> None]
      /\ chain' = <<chain[1]>> /\ faults' = faults + 1 /\ faults \in Nat
  BY DEF Restart, Fault, Typed, StoresTyped
<1>2. Len(chain') = 1
  BY <1>1
<1> QED
  BY <1>1, <1>2, IdleOk DEF LedgerInv, ProposalsSound, VotesSound, VoteOk, Voting, Proposing, EpochHasQuorum, ChainLinked,
     EpochWritten, VotesFollow

\* The ledger does not look at the day.
LEMMA LedgerTicks == ASSUME LedgerInv, Tick PROVE LedgerInv' /\ epoch' = epoch
  BY DEF Tick, memory, LedgerInv, ProposalsSound, VotesSound, VoteOk, Voting, Proposing, EpochHasQuorum, ChainLinked,
         EpochWritten, VotesFollow

\* Before anything happened.
LEMMA LedgerStarts == Init => LedgerInv
<1> SUFFICES ASSUME Init PROVE LedgerInv
  OBVIOUS
<1>1. Len(chain) = 1
  BY DEF Init
<1> QED
  BY <1>1, IdleOk DEF Init, LedgerInv, ProposalsSound, VotesSound, VoteOk, Voting, Proposing, EpochHasQuorum, ChainLinked,
     EpochWritten, VotesFollow

\* Every step keeps the ledger sound, and takes the epoch back only after an overlap or a restart.
LEMMA LedgerStep ==
    ASSUME Typed, Apart, LedgerInv, Next
    PROVE  LedgerInv' /\ (epoch' >= epoch \/ faults' > faults \/ "ledger" \in raced')
<1>0. epoch \in Nat
  BY DEF Typed, StoresTyped
<1>1. CASE Restart
  BY <1>1, LedgerRestarts
<1>2. CASE Tick
  BY <1>0, <1>2, LedgerTicks
<1>3. ASSUME NEW w \in Worker, Request(w) PROVE LedgerInv' /\ epoch' >= epoch
  BY <1>0, <1>3, LedgerBegins
<1>4. ASSUME NEW w \in Worker, Step(w) PROVE LedgerInv' /\ (epoch' >= epoch \/ "ledger" \in raced')
  <2>1. CASE PutProposal(w) \/ SaveVote(w) \/ Close(w)
    <3>1. epoch' = epoch
      BY <2>1 DEF PutProposal, SaveVote, Close
    <3> QED
      BY <1>0, <2>1, <3>1, LedgerStores
  <2>2. CASE ReadHead(w)
    BY <1>0, <2>2, LedgerReads DEF ReadHead, memory
  <2>3. CASE LedgerAppend(w)
    <3>1. epoch' = epoch
      BY <2>3 DEF LedgerAppend
    <3> QED
      BY <1>0, <2>3, <3>1, LedgerAppends
  <2>4. CASE AdvanceEpoch(w)
    <3>1. raced' = raced
      BY <2>4 DEF AdvanceEpoch
    <3> QED
      BY <1>0, <2>4, <3>1, LedgerAdvances
  <2>5. CASE ~(PutProposal(w) \/ SaveVote(w) \/ Close(w) \/ ReadHead(w) \/ LedgerAppend(w) \/ AdvanceEpoch(w))
    BY <1>0, <1>4, <2>5, LedgerElsewhere DEF Step
  <2> QED
    BY <2>1, <2>2, <2>3, <2>4, <2>5
<1> QED
  BY <1>1, <1>2, <1>3, <1>4 DEF Next

\* Every step keeps the types.
LEMMA TypedNext == ASSUME Typed, Next PROVE Typed'
<1>1. ASSUME NEW w \in Worker, Request(w) PROVE Typed'
  <2>1. PICK r \in todo : \E d : Taken(w, r, d)
    BY <1>1, Begins
  <2> QED
    BY <2>1, TypedTaken
<1> QED
  BY <1>1, TypedStep, TypedTick, TypedRestart DEF Next

\* The stores have the types that the run checks, and what is proposed follows on.
LEMMA TypesOf == ASSUME Typed, ProposalsSound PROVE TypeOK
<1>0. StoresTyped
  BY DEF Typed
<1>1. PICK x \in ReleaseFiles : x = [cands |-> cands, allow |-> allow]
  BY <1>0 DEF StoresTyped, ReleaseFiles
<1>2. [release |-> x, economy |-> eco] \in Files
  BY <1>0 DEF StoresTyped, Files
<1>3. ASSUME NEW p \in Proposal, props[p] # None PROVE props[p].to = props[p].from + 1 /\ props[p].closed \in BOOLEAN
  <2>1. props[p] \in Proposals
    BY <1>0, <1>3 DEF StoresTyped
  <2> QED
    BY <1>3, <2>1 DEF Proposals, ProposalsSound, Sound
<1>4. ASSUME NEW f \in File, tmp[f] # None PROVE [disk EXCEPT ![f] = tmp[f]] \in Files
  <2>1. tmp[f] \in Contents(f) /\ disk \in Files
    BY <1>0, <1>4 DEF StoresTyped
  <2>2. PICK y : y = tmp[f]
    OBVIOUS
  <2>3. CASE f = "release"
    <3>1. y \in ReleaseFiles
      BY <2>1, <2>2, <2>3 DEF Contents
    <3>2. [disk EXCEPT !["release"] = y] \in Files
      BY <2>1, <3>1 DEF Files
    <3> QED
      BY <2>2, <2>3, <3>2
  <2>4. CASE f = "economy"
    <3>1. y \in EconomyFiles
      BY <2>1, <2>2, <2>4 DEF Contents
    <3>2. [disk EXCEPT !["economy"] = y] \in Files
      BY <2>1, <3>1 DEF Files
    <3> QED
      BY <2>2, <2>4, <3>2
  <2> QED
    BY <2>3, <2>4 DEF File
<1> QED
  BY <1>0, <1>1, <1>2, <1>3, <1>4 DEF StoresTyped, TypeOK

\* A vote that has set the epoch is about to write it to the ledger.
LEMMA WrittenOrSoon == ASSUME Typed, EpochWritten PROVE EpochOnLedger
<1>1. ASSUME NEW w \in Worker, Voting(call[w]), call[w].pc \in {6, 7} PROVE At(w, "head") \/ At(w, "append")
  <2>1. call[w].req # None /\ call[w].req.op = "vote_epoch"
    BY <1>1 DEF Voting
  <2> QED
    BY <1>1, <2>1, VoteProgram DEF At, Steps
<1> QED
  BY <1>1 DEF EpochWritten, EpochOnLedger, Voting

\* The inductive invariant of the ledger.
THEOREM LedgerInvariant == Spec => [](Typed /\ Apart /\ LedgerInv)
<1>1. Init => Typed /\ Apart /\ LedgerInv
  BY TypedInit, ApartInit, LedgerStarts
<1>2. Typed /\ Apart /\ LedgerInv /\ [Next]_vars => (Typed /\ Apart /\ LedgerInv)'
  <2>1. ASSUME Typed, Apart, LedgerInv, Next PROVE (Typed /\ Apart /\ LedgerInv)'
    BY <2>1, TypedNext, ApartStep, LedgerStep
  <2>2. ASSUME Typed, Apart, LedgerInv, UNCHANGED vars PROVE (Typed /\ Apart /\ LedgerInv)'
    <3>1. Typed'
      BY <2>2 DEF vars, memory, Typed, CallsTyped, StoresTyped
    <3>2. Apart'
      BY <2>2 DEF vars, memory, Apart, Ahead
    <3>3. LedgerInv'
      BY <2>2 DEF vars, memory, LedgerInv, ProposalsSound, VotesSound, VoteOk, Voting, Proposing, EpochHasQuorum, ChainLinked,
             EpochWritten, VotesFollow
    <3> QED
      BY <3>1, <3>2, <3>3
  <2> QED
    BY <2>1, <2>2
<1> QED
  BY <1>1, <1>2, PTL DEF Spec

\* The epoch was voted for by governance_t different vaults and, unless an append was
\* refused, is on a ledger whose chain is whole, however votes, releases and the
\* economy interleave (VoteEpochAdvance, advance_epoch, append).
THEOREM LedgerIsSound == Spec => []LedgerSound
<1>1. Typed /\ Apart /\ LedgerInv => LedgerSound
  BY TypesOf, WrittenOrSoon DEF LedgerInv, LedgerSound
<1> QED
  BY <1>1, LedgerInvariant, PTL

\* The epoch goes back only after votes overlapped or with a restart (set_epoch takes
\* the number of the proposal, whatever the epoch is by then).
THEOREM EpochGoesForward == Spec => EpochForward
<1>1. Typed /\ Apart /\ LedgerInv /\ [Next]_vars => [epoch' >= epoch \/ faults' > faults \/ "ledger" \in raced']_vars
  BY LedgerStep
<1> QED
  BY <1>1, LedgerInvariant, PTL DEF Spec, EpochForward

----
(***************************************************************************)
(* The release mesh.                                                       *)
(***************************************************************************)

\* Candidates keep what no use case changes, the history grows, the clock too.
Grown ==
    /\ \A r \in Release : cands[r] # None => cands'[r] # None /\ Same(cands'[r], cands[r])
    /\ \A r \in Release : hist.rebuilds[r] \subseteq hist'.rebuilds[r] /\ hist.cosigns[r] \subseteq hist'.cosigns[r]
    /\ now' >= now

\* A set of vaults that grows does not lose its quorum.
LEMMA CardGrows ==
    ASSUME NEW A \in SUBSET Vault, NEW B \in SUBSET Vault, A \subseteq B, NEW n \in Int, Cardinality(A) >= n
    PROVE  Cardinality(B) >= n
<1>1. IsFiniteSet(B) /\ IsFiniteSet(A)
  BY ReleasesAssumption, FS_Subset
<1>2. Cardinality(A) <= Cardinality(B) /\ Cardinality(A) \in Nat /\ Cardinality(B) \in Nat
  BY <1>1, FS_Subset, FS_CardinalityType
<1> QED
  BY <1>2

\* The sizes that are asked for.
LEMMA QuorumSizes == VaultCosignQuorum \in Int /\ MinRebuilds \in Int /\ MinRebuilds > 0 /\ Timelock \in Int
<1>1. Cardinality(Vault) \in Nat
  BY ReleasesAssumption, FS_CardinalityType
<1> QED
  BY <1>1, ReleasesAssumption DEF VaultCosignQuorum

\* A candidate that passed the checks passes them later.
LEMMA CheckedStays ==
    ASSUME Typed, Typed', NEW c \in Candidates(Source), Checked(c), now' >= now
    PROVE  Checked(c)'
<1>1. now \in Nat /\ now' \in Nat /\ c.at \in Nat /\ Timelock \in Int
  BY QuorumSizes DEF Typed, StoresTyped, Candidates
<1>2. now - c.at >= Timelock => now' - c.at >= Timelock
  BY <1>1
<1> QED
  BY <1>2 DEF Checked, CanActivate, PredicatesOk

\* So does a release that could be activated.
LEMMA ActivateStays ==
    ASSUME Typed, Typed', NEW c \in Candidates(Source), CanActivate(c, now, hash), now' >= now, hash' = hash
    PROVE  CanActivate(c, now', hash')
<1>1. now \in Nat /\ now' \in Nat /\ c.at \in Nat /\ Timelock \in Int
  BY QuorumSizes DEF Typed, StoresTyped, Candidates
<1>2. now - c.at >= Timelock => now' - c.at >= Timelock
  BY <1>1
<1> QED
  BY <1>2 DEF CanActivate, PredicatesOk

\* A copy stays a copy.
LEMMA CopyStays ==
    ASSUME Typed, Typed', Grown, NEW r \in Release, NEW c \in Candidates(Source), CopyOk(r, c)
    PROVE  CopyOk(r, c)'
<1>1. Checked(c)'
  BY CheckedStays DEF CopyOk, Grown
<1>2. cands'[r] # None /\ Same(c, cands'[r])
  BY DEF CopyOk, Grown, Same
<1> QED
  BY <1>1, <1>2 DEF CopyOk, Grown, Same

\* What was earned stays earned.
LEMMA EarnedStays ==
    ASSUME Typed, Typed', Grown, NEW e \in [release : Release, hash : Hash], Earned(e)
    PROVE  Earned(e)'
<1>1. PICK r \in Release : r = e.release
  OBVIOUS
<1>2. /\ hist.rebuilds[r] \in SUBSET Vault /\ hist'.rebuilds[r] \in SUBSET Vault
      /\ hist.cosigns[r] \in SUBSET Vault /\ hist'.cosigns[r] \in SUBSET Vault
  BY HistFields DEF Typed, StoresTyped
<1>3. Cardinality(hist'.cosigns[r]) >= VaultCosignQuorum /\ Cardinality(hist'.rebuilds[r]) >= MinRebuilds
  BY <1>1, <1>2, CardGrows, QuorumSizes DEF Earned, Grown
<1>4. cands'[r] # None /\ Same(cands'[r], cands[r])
  BY <1>1 DEF Earned, Grown
<1>5. now' - cands'[r].at >= Timelock
  <2>1. now \in Nat /\ now' \in Nat /\ Timelock \in Int
    BY QuorumSizes DEF Typed, StoresTyped
  <2>2. cands[r] \in Candidates(Source)
    BY <1>1 DEF Earned, Typed, StoresTyped
  <2>3. cands[r].at \in Nat /\ cands'[r].at = cands[r].at
    BY <1>4, <2>2 DEF Candidates, Same
  <2>4. now - cands[r].at >= Timelock /\ now' >= now
    BY <1>1 DEF Earned, Grown
  <2> QED
    BY <2>1, <2>3, <2>4
<1> QED
  BY <1>1, <1>3, <1>4, <1>5 DEF Earned, Same

\* So does a file that was right.
LEMMA FileStays ==
    ASSUME Typed, Typed', Grown, NEW x \in ReleaseFiles, FileOk(x)
    PROVE  FileOk(x)'
<1>1. /\ x.cands \in [Release -> Candidates(Source) \cup {None}]
      /\ x.allow \subseteq [release : Release, hash : Hash]
  BY DEF ReleaseFiles
<1>2. ASSUME NEW r \in Release, x.cands[r] # None PROVE CopyOk(r, x.cands[r])'
  <2>1. PICK c \in Candidates(Source) : c = x.cands[r]
    BY <1>1, <1>2
  <2>2. CopyOk(r, c)'
    BY <1>2, <2>1, CopyStays DEF FileOk
  <2> QED
    BY <2>1, <2>2
<1>3. ASSUME NEW e \in x.allow PROVE x.cands[e.release] # None /\ Earned(e)'
  <2>1. e \in [release : Release, hash : Hash]
    BY <1>1
  <2> QED
    BY <1>3, <2>1, EarnedStays DEF FileOk
<1> QED
  BY <1>2, <1>3 DEF FileOk

\* A request that saves a candidate keeps the right one.
LEMMA CandStays ==
    ASSUME Typed, Typed', Grown, hash' = hash, NEW c \in CallSet, CallOk(c), Saving(c), CandOk(c)
    PROVE  CandOk(c)'
<1>1. c.req.on \in Release /\ c.cand \in Candidates(Source)
  <2>1. c.req \in Requests /\ IsRequest(c.req) /\ c.cand # None
    BY Given DEF CallSet, CallOk, Saving
  <2> QED
    BY <2>1 DEF CallSet, IsRequest, Saving, Saves
<1>2. Checked(c.cand)'
  BY <1>1, CheckedStays DEF CandOk, Grown
<1>3. cands'[c.req.on] # None /\ Same(c.cand, cands'[c.req.on])
  BY <1>1 DEF CandOk, Grown, Same
<1>4. c.req.op = "activate_release" => CanActivate(c.cand, now', hash')
  BY <1>1, ActivateStays DEF CandOk, Grown
<1>5. hist.rebuilds[c.req.on] \subseteq hist'.rebuilds[c.req.on] /\ hist.cosigns[c.req.on] \subseteq hist'.cosigns[c.req.on]
  BY <1>1 DEF Grown
<1> QED
  BY <1>2, <1>3, <1>4, <1>5 DEF CandOk

\* A snapshot of a memory that is right.
LEMMA MemoryFile == ASSUME Typed, MemoryOk PROVE Content("release") \in ReleaseFiles /\ FileOk(Content("release"))
<1>1. Content("release") = [cands |-> cands, allow |-> allow]
  BY DEF Content
<1>2. Content("release") \in ReleaseFiles
  BY ContentOk DEF Contents, File
<1>3. Content("release").cands = cands /\ Content("release").allow = allow
  BY <1>1
<1> QED
  BY <1>2, <1>3 DEF FileOk, MemoryOk

\* What is left to show of a step of a request.
LEMMA CopiesKept ==
    ASSUME Typed, Typed', CopiesOk, NEW w \in Worker, NEW d, Moved(w, d), Grown, hash' = hash,
           MemoryOk', FileOk(disk["release"])', (tmp["release"] # None => FileOk(tmp["release"]))',
           Saving(d) /\ call[w].pc = 1 => /\ call[w].cand.rebuilds \subseteq hist'.rebuilds[call[w].req.on]
                                          /\ call[w].cand.cosigns \subseteq hist'.cosigns[call[w].req.on]
    PROVE  CopiesOk'
<1>1. call'[w] = d /\ \A u \in Worker : u # w => call'[u] = call[u]
  BY MovedCalls
<1>2. ASSUME Writing(d, "release") PROVE FileOk(d.snap)'
  <2>1. d.snap = Content("release")
    BY <1>2 DEF Moved, File
  <2>2. d.snap \in ReleaseFiles /\ FileOk(d.snap)
    BY <2>1, MemoryFile DEF CopiesOk
  <2>3. PICK x : x = d.snap
    OBVIOUS
  <2>4. FileOk(x)'
    BY <2>2, <2>3, FileStays
  <2> QED
    BY <2>3, <2>4
<1>3. ASSUME d.req # None PROVE d.req = call[w].req /\ d.cand = call[w].cand /\ d.pc = call[w].pc + 1 /\ call[w].pc \in Nat /\ call[w].pc >= 1
  <2>1. d.req = call[w].req /\ d.cand = call[w].cand /\ d.pc = call[w].pc + 1
    BY <1>3 DEF Moved
  <2>2. call[w].pc \in Nat /\ CallOk(call[w])
    BY DEF Typed, CallsTyped, CallSet
  <2>3. call[w].pc >= 1
    BY <1>3, <2>1, <2>2 DEF CallOk
  <2> QED
    BY <2>1, <2>2, <2>3
<1>4. ASSUME Saving(d) PROVE CandOk(d)'
  <2>1. d.req = call[w].req /\ d.cand = call[w].cand /\ d.pc = call[w].pc + 1 /\ call[w].pc \in Nat /\ call[w].pc >= 1
    BY <1>3, <1>4 DEF Saving
  <2>2. Saving(call[w])
    BY <1>4, <2>1 DEF Saving
  <2>3. CandOk(call[w]) /\ call[w] \in CallSet /\ CallOk(call[w])
    BY <2>2 DEF CopiesOk, Typed, CallsTyped
  <2>4. PICK c : c = call[w]
    OBVIOUS
  <2>5. CandOk(c)'
    BY <2>2, <2>3, <2>4, CandStays
  <2>6. /\ call[w].pc = 1 \/ call[w].pc > 1
        /\ d.pc > 1
    BY <2>1
  <2>7. c.cand.rebuilds \subseteq hist'.rebuilds[c.req.on] /\ c.cand.cosigns \subseteq hist'.cosigns[c.req.on]
    BY <1>4, <2>4, <2>5, <2>6 DEF CandOk
  <2> QED
    BY <2>1, <2>4, <2>5, <2>6, <2>7 DEF CandOk
<1>5. ASSUME NEW u \in Worker
      PROVE  /\ Writing(call'[u], "release") => FileOk(call[u].snap)'
             /\ Saving(call'[u]) => CandOk(call[u])'
             /\ call'[u].req # None /\ call'[u].req.op = "propose_release" /\ call'[u].pc = 1
                  => Checked(call[u].cand)' /\ call'[u].cand.rebuilds = {} /\ call'[u].cand.cosigns = {}
  <2>1. CASE u = w
    <3>1. ~(d.req # None /\ d.pc = 1)
      BY <1>3
    <3> QED
      BY <1>1, <1>2, <1>4, <2>1, <3>1 DEF FileOk, CandOk, CopyOk, Earned, Checked
  <2>2. CASE u # w
    <3>1. PICK c : c = call[u]
      OBVIOUS
    <3>2. c \in CallSet /\ CallOk(c) /\ call'[u] = c
      BY <1>1, <2>2, <3>1 DEF Typed, CallsTyped
    <3>3. ASSUME Writing(c, "release") PROVE FileOk(c.snap)'
      <4>1. c.snap \in ReleaseFiles
        BY <3>2, <3>3 DEF Writing, CallOk, Contents
      <4>2. FileOk(c.snap)
        BY <3>1, <3>3 DEF CopiesOk
      <4>3. PICK x : x = c.snap
        OBVIOUS
      <4>4. FileOk(x)'
        BY <4>1, <4>2, <4>3, FileStays
      <4> QED
        BY <4>3, <4>4
    <3>4. ASSUME Saving(c) PROVE CandOk(c)'
      BY <3>1, <3>2, <3>4, CandStays DEF CopiesOk
    <3>5. ASSUME c.req # None, c.req.op = "propose_release", c.pc = 1
          PROVE  Checked(c.cand)' /\ c.cand.rebuilds = {} /\ c.cand.cosigns = {}
      <4>1. c.cand \in Candidates(Source)
        BY <3>2, <3>5 DEF CallSet, CallOk
      <4>2. Checked(c.cand) /\ c.cand.rebuilds = {} /\ c.cand.cosigns = {}
        BY <3>1, <3>5 DEF CopiesOk
      <4> QED
        BY <4>1, <4>2, CheckedStays DEF Grown
    <3> QED
      BY <3>2, <3>3, <3>4, <3>5 DEF FileOk, CandOk, CopyOk, Earned, Checked
  <2> QED
    BY <2>1, <2>2
<1> QED
  BY <1>5 DEF CopiesOk, Writing, Saving

\* Both files stay right while they are not written.
LEMMA FilesStay ==
    ASSUME Typed, Typed', CopiesOk, Grown, disk'["release"] = disk["release"], tmp'["release"] = tmp["release"]
    PROVE  FileOk(disk["release"])' /\ (tmp["release"] # None => FileOk(tmp["release"]))'
<1>1. PICK x : x = disk["release"]
  OBVIOUS
<1>2. x \in ReleaseFiles /\ FileOk(x)
  BY <1>1 DEF CopiesOk, Typed, StoresTyped, Files
<1>3. FileOk(x)'
  BY <1>2, FileStays
<1>4. PICK y : y = tmp["release"]
  OBVIOUS
<1>5. y # None => y \in ReleaseFiles /\ FileOk(y)
  BY <1>4 DEF CopiesOk, Typed, StoresTyped, File, Contents
<1>6. y # None => FileOk(y)'
  BY <1>5, FileStays
<1> QED
  BY <1>1, <1>3, <1>4, <1>6 DEF FileOk, CopyOk, Earned, Checked

\* So does the memory while it is not changed.
LEMMA MemoryStays ==
    ASSUME Typed, Typed', MemoryOk, Grown, cands' = cands, allow' = allow
    PROVE  MemoryOk'
<1>1. ASSUME NEW r \in Release, cands'[r] # None PROVE CopyOk(r, cands[r])'
  <2>1. PICK c \in Candidates(Source) : c = cands[r]
    BY <1>1 DEF Typed, StoresTyped
  <2>2. CopyOk(r, c)'
    BY <1>1, <2>1, CopyStays DEF MemoryOk
  <2> QED
    BY <2>1, <2>2 DEF CopyOk, Checked
<1>2. ASSUME NEW e \in allow PROVE cands'[e.release] # None /\ Earned(e)'
  <2>1. e \in [release : Release, hash : Hash]
    BY DEF Typed, StoresTyped
  <2> QED
    BY <1>2, <2>1, EarnedStays DEF MemoryOk
<1> QED
  BY <1>1, <1>2 DEF MemoryOk

\* A step that leaves the release mesh alone.
LEMMA CopiesQuiet ==
    ASSUME Typed, Typed', CopiesOk, NEW w \in Worker, NEW d, Moved(w, d),
           UNCHANGED <<now, hash, cands, allow>>, disk'["release"] = disk["release"], tmp'["release"] = tmp["release"],
           hist'.rebuilds = hist.rebuilds, hist'.cosigns = hist.cosigns, ~(Saving(call[w]) /\ call[w].pc = 1)
    PROVE  CopiesOk'
<1>1. Grown
  BY DEF Grown, Same, Typed, StoresTyped
<1>2. MemoryOk'
  BY <1>1, MemoryStays DEF CopiesOk
<1>3. FileOk(disk["release"])' /\ (tmp["release"] # None => FileOk(tmp["release"]))'
  BY <1>1, FilesStay
<1>4. ~(Saving(d) /\ call[w].pc = 1)
  BY DEF Moved, Saving
<1> QED
  BY <1>1, <1>2, <1>3, <1>4, CopiesKept

\* A new candidate passed the council's check.
LEMMA CopiesPut ==
    ASSUME Typed, CopiesOk, NEW w \in Worker, PutCandidate(w)
    PROVE  CopiesOk'
<1>0. Typed' /\ StoresTyped
  <2>1. Step(w)
    BY DEF Step
  <2> QED
    BY <2>1, TypedStep DEF Typed
<1>1. PICK d : Moved(w, d)
  BY Moves DEF Step
<1>2. UNCHANGED <<now, hash, allow, disk, tmp, hist>> /\ At(w, "put_candidate")
  BY DEF PutCandidate
<1>3. call[w].req # None /\ call[w].req.op = "propose_release" /\ call[w].pc = 1
  BY <1>2, AtStep DEF Placed
<1>4. ~Saving(call[w])
  BY <1>3 DEF Saving, Saves
<1>5. PICK r : r = call[w].req.on
  OBVIOUS
<1>6. CASE cands[r] # None
  <2>1. cands' = cands
    BY <1>5, <1>6 DEF PutCandidate
  <2> QED
    BY <1>0, <1>1, <1>2, <1>4, <2>1, CopiesQuiet
<1>7. CASE cands[r] = None
  <2>1. cands' = [cands EXCEPT ![r] = call[w].cand]
    BY <1>5, <1>7 DEF PutCandidate
  <2>2. r \in Release /\ call[w].cand \in Candidates(Source) /\ call[w].cand # None
    BY <1>3, <1>5, ReleaseCall, Given
  <2>3. cands'[r] = call[w].cand /\ \A x \in Release : x # r => cands'[x] = cands[x]
    BY <1>0, <2>1, <2>2 DEF StoresTyped
  <2>4. Grown
    BY <1>0, <1>2, <1>7, <2>3 DEF Grown, Same, StoresTyped
  <2>5. FileOk(disk["release"])' /\ (tmp["release"] # None => FileOk(tmp["release"]))'
    BY <1>0, <1>2, <2>4, FilesStay
  <2>6. Checked(call[w].cand) /\ call[w].cand.rebuilds = {} /\ call[w].cand.cosigns = {}
    BY <1>3 DEF CopiesOk
  <2>7. ASSUME NEW x \in Release, cands'[x] # None PROVE CopyOk(x, cands[x])'
    <3>1. CASE x = r
      BY <1>2, <2>2, <2>3, <2>6, <3>1 DEF CopyOk, Same, Checked
    <3>2. CASE x # r
      <4>1. PICK c \in Candidates(Source) : c = cands[x] /\ c = cands'[x]
        BY <1>0, <2>3, <2>7, <3>2 DEF StoresTyped
      <4>2. CopyOk(x, c)
        BY <2>3, <2>7, <3>2, <4>1 DEF CopiesOk, MemoryOk
      <4>3. CopyOk(x, c)'
        BY <1>0, <2>4, <4>2, CopyStays
      <4> QED
        BY <4>1, <4>3 DEF CopyOk, Checked
    <3> QED
      BY <3>1, <3>2
  <2>8. ASSUME NEW e \in allow PROVE cands'[e.release] # None /\ Earned(e)'
    <3>1. e \in [release : Release, hash : Hash] /\ Earned(e)
      BY <1>0, <2>8 DEF StoresTyped, CopiesOk, MemoryOk
    <3>2. Earned(e)'
      BY <1>0, <2>4, <3>1, EarnedStays
    <3> QED
      BY <3>2 DEF Earned
  <2>9. MemoryOk'
    BY <1>2, <2>7, <2>8 DEF MemoryOk
  <2>10. ~Saving(d)
    BY <1>1, <1>4 DEF Moved, Saving
  <2> QED
    BY <1>0, <1>1, <1>2, <2>4, <2>5, <2>9, <2>10, CopiesKept
<1> QED
  BY <1>6, <1>7

\* What saving a candidate adds to the history.
LEMMA SaveHist ==
    ASSUME Typed, NEW w \in Worker, SaveCandidate(w)
    PROVE  LET r == call[w].req.on IN
           /\ call[w].req # None /\ call[w].req.op \in Saves /\ call[w].pc = 1
           /\ r \in Release /\ call[w].cand \in Candidates(Source) /\ call[w].req.by \in Vault
           /\ cands' = [cands EXCEPT ![r] = call[w].cand]
           /\ call[w].req.op = "rebuild_release" =>
                 hist'.rebuilds = [hist.rebuilds EXCEPT ![r] = hist.rebuilds[r] \cup {call[w].req.by}]
           /\ call[w].req.op # "rebuild_release" => hist'.rebuilds = hist.rebuilds
           /\ call[w].req.op = "cosign_release" =>
                 hist'.cosigns = [hist.cosigns EXCEPT ![r] = hist.cosigns[r] \cup {call[w].req.by}]
           /\ call[w].req.op # "cosign_release" => hist'.cosigns = hist.cosigns
<1>1. At(w, "save_candidate")
  BY DEF SaveCandidate
<1>2. call[w].req # None /\ call[w].req.op \in Saves /\ call[w].pc = 1
  BY <1>1, AtStep DEF Placed
<1>3. call[w].req.on \in Release /\ call[w].cand \in Candidates(Source) /\ call[w].req.by \in Vault
  BY <1>2, ReleaseCall
<1>4. hist \in HistSet
  BY DEF Typed, StoresTyped
<1>5. /\ hist.rebuilds[call[w].req.on] \cup {call[w].req.by} \in SUBSET Vault
      /\ hist.cosigns[call[w].req.on] \cup {call[w].req.by} \in SUBSET Vault
  BY <1>3, <1>4, HistFields
<1>6. CASE call[w].req.op = "rebuild_release"
  <2>1. hist' = [hist EXCEPT !.rebuilds[call[w].req.on] = hist.rebuilds[call[w].req.on] \cup {call[w].req.by}]
    BY <1>6 DEF SaveCandidate
  <2> QED
    BY <1>2, <1>3, <1>4, <1>5, <1>6, <2>1, HistSave DEF SaveCandidate
<1>7. CASE call[w].req.op = "cosign_release"
  <2>1. hist' = [hist EXCEPT !.cosigns[call[w].req.on] = hist.cosigns[call[w].req.on] \cup {call[w].req.by}]
    BY <1>7 DEF SaveCandidate
  <2> QED
    BY <1>2, <1>3, <1>4, <1>5, <1>7, <2>1, HistSave DEF SaveCandidate
<1>8. CASE call[w].req.op = "activate_release"
  <2>1. hist' = hist
    BY <1>8 DEF SaveCandidate
  <2> QED
    BY <1>2, <1>3, <1>8, <2>1 DEF SaveCandidate
<1> QED
  BY <1>2, <1>6, <1>7, <1>8 DEF Saves

\* The copy that is saved is of the same candidate, whatever was saved in between.
LEMMA CopiesSave ==
    ASSUME Typed, CopiesOk, NEW w \in Worker, SaveCandidate(w)
    PROVE  CopiesOk' /\ Grown
<1>0. Typed' /\ StoresTyped
  <2>1. Step(w)
    BY DEF Step
  <2> QED
    BY <2>1, TypedStep DEF Typed
<1>1. PICK d : Moved(w, d)
  BY Moves DEF Step
<1>2. UNCHANGED <<now, hash, allow, disk, tmp>>
  BY DEF SaveCandidate
<1>3. PICK r : r = call[w].req.on
  OBVIOUS
<1>4. PICK v : v = call[w].req.by
  OBVIOUS
<1>5. /\ call[w].req # None /\ call[w].req.op \in Saves /\ call[w].pc = 1
      /\ r \in Release /\ call[w].cand \in Candidates(Source) /\ v \in Vault
      /\ cands' = [cands EXCEPT ![r] = call[w].cand]
  BY <1>3, <1>4, SaveHist
<1>6. /\ call[w].req.op = "rebuild_release" => hist'.rebuilds = [hist.rebuilds EXCEPT ![r] = hist.rebuilds[r] \cup {v}]
      /\ call[w].req.op # "rebuild_release" => hist'.rebuilds = hist.rebuilds
      /\ call[w].req.op = "cosign_release" => hist'.cosigns = [hist.cosigns EXCEPT ![r] = hist.cosigns[r] \cup {v}]
      /\ call[w].req.op # "cosign_release" => hist'.cosigns = hist.cosigns
  BY <1>3, <1>4, SaveHist
<1>7. hist.rebuilds \in [Release -> SUBSET Vault] /\ hist.cosigns \in [Release -> SUBSET Vault]
  BY <1>0, HistFields DEF StoresTyped
<1>8. /\ \A x \in Release : hist.rebuilds[x] \subseteq hist'.rebuilds[x] /\ hist.cosigns[x] \subseteq hist'.cosigns[x]
      /\ call[w].req.op = "rebuild_release" => hist'.rebuilds[r] = hist.rebuilds[r] \cup {v}
      /\ call[w].req.op = "cosign_release" => hist'.cosigns[r] = hist.cosigns[r] \cup {v}
  <2>1. CASE call[w].req.op = "rebuild_release"
    BY <1>5, <1>6, <1>7, <2>1
  <2>2. CASE call[w].req.op = "cosign_release"
    BY <1>5, <1>6, <1>7, <2>2
  <2>3. CASE call[w].req.op = "activate_release"
    BY <1>6, <2>3
  <2> QED
    BY <1>5, <2>1, <2>2, <2>3 DEF Saves
<1>9. CandOk(call[w])
  BY <1>5 DEF CopiesOk, Saving
<1>10. cands'[r] = call[w].cand /\ (\A x \in Release : x # r => cands'[x] = cands[x]) /\ call[w].cand # None
  BY <1>0, <1>5, Given DEF StoresTyped
<1>11. cands[r] # None /\ Same(call[w].cand, cands[r]) /\ Checked(call[w].cand)
  BY <1>3, <1>9 DEF CandOk
<1>12. Grown
  <2>1. now' >= now
    BY <1>0, <1>2 DEF StoresTyped
  <2> QED
    BY <1>8, <1>10, <1>11, <2>1 DEF Grown, Same
<1>13. call[w].cand.rebuilds \subseteq hist'.rebuilds[r] /\ call[w].cand.cosigns \subseteq hist'.cosigns[r]
  <2>1. call[w].cand.rebuilds \subseteq hist'.rebuilds[r]
    <3>1. CASE call[w].req.op = "rebuild_release"
      BY <1>3, <1>4, <1>8, <1>9, <3>1 DEF CandOk
    <3>2. CASE call[w].req.op # "rebuild_release"
      BY <1>3, <1>5, <1>8, <1>9, <3>2 DEF CandOk
    <3> QED
      BY <3>1, <3>2
  <2>2. call[w].cand.cosigns \subseteq hist'.cosigns[r]
    <3>1. CASE call[w].req.op = "cosign_release"
      BY <1>3, <1>4, <1>8, <1>9, <3>1 DEF CandOk
    <3>2. CASE call[w].req.op # "cosign_release"
      BY <1>3, <1>5, <1>8, <1>9, <3>2 DEF CandOk
    <3> QED
      BY <3>1, <3>2
  <2> QED
    BY <2>1, <2>2
<1>14. FileOk(disk["release"])' /\ (tmp["release"] # None => FileOk(tmp["release"]))'
  BY <1>0, <1>2, <1>12, FilesStay
<1>15. ASSUME NEW x \in Release, cands'[x] # None PROVE CopyOk(x, cands[x])'
  <2>1. CASE x = r
    BY <1>2, <1>10, <1>11, <1>13, <2>1 DEF CopyOk, Same, Checked
  <2>2. CASE x # r
    <3>1. PICK c \in Candidates(Source) : c = cands[x] /\ c = cands'[x]
      BY <1>0, <1>10, <1>15, <2>2 DEF StoresTyped
    <3>2. CopyOk(x, c)
      BY <1>10, <1>15, <2>2, <3>1 DEF CopiesOk, MemoryOk
    <3>3. CopyOk(x, c)'
      BY <1>0, <1>12, <3>2, CopyStays
    <3> QED
      BY <3>1, <3>3 DEF CopyOk, Checked
  <2> QED
    BY <2>1, <2>2
<1>16. ASSUME NEW e \in allow PROVE cands'[e.release] # None /\ Earned(e)'
  <2>1. e \in [release : Release, hash : Hash] /\ Earned(e)
    BY <1>0, <1>16 DEF StoresTyped, CopiesOk, MemoryOk
  <2>2. Earned(e)'
    BY <1>0, <1>12, <2>1, EarnedStays
  <2> QED
    BY <2>2 DEF Earned
<1>17. MemoryOk'
  BY <1>2, <1>15, <1>16 DEF MemoryOk
<1> QED
  BY <1>0, <1>1, <1>2, <1>3, <1>12, <1>13, <1>14, <1>17, CopiesKept

\* What goes on the allow-list was rebuilt and cosigned.
LEMMA CopiesAllow ==
    ASSUME Typed, CopiesOk, NEW w \in Worker, PutAllowlist(w)
    PROVE  CopiesOk'
<1>0. Typed' /\ StoresTyped
  <2>1. Step(w)
    BY DEF Step
  <2> QED
    BY <2>1, TypedStep DEF Typed
<1>1. PICK d : Moved(w, d)
  BY Moves DEF Step
<1>2. UNCHANGED <<now, hash, cands, disk, tmp, hist>> /\ At(w, "put_allowlist")
  BY DEF PutAllowlist
<1>3. call[w].req # None /\ call[w].req.op = "activate_release" /\ call[w].pc = 5
  BY <1>2, AtStep DEF Placed
<1>4. PICK r : r = call[w].req.on
  OBVIOUS
<1>5. PICK e : e = [release |-> r, hash |-> hash]
  OBVIOUS
<1>6. allow' = {x \in allow : x.release # r} \cup {e} /\ e.release = r /\ e.hash = hash
  BY <1>4, <1>5 DEF PutAllowlist
<1>7. PICK c : c = call[w].cand
  OBVIOUS
<1>8. r \in Release /\ c \in Candidates(Source)
  BY <1>3, <1>4, <1>7, ReleaseCall DEF Saves
<1>9. CandOk(call[w])
  BY <1>3 DEF CopiesOk, Saving, Saves
<1>10. /\ cands[r] # None /\ Same(c, cands[r]) /\ Checked(c) /\ CanActivate(c, now, hash)
       /\ c.rebuilds \subseteq hist.rebuilds[r] /\ c.cosigns \subseteq hist.cosigns[r]
  BY <1>3, <1>4, <1>7, <1>9 DEF CandOk
<1>11. /\ c.rebuilds \in SUBSET Vault /\ c.cosigns \in SUBSET Vault
       /\ hist.rebuilds[r] \in SUBSET Vault /\ hist.cosigns[r] \in SUBSET Vault
  BY <1>0, <1>8, HistFields DEF StoresTyped, Candidates
<1>12. Cardinality(hist.cosigns[r]) >= VaultCosignQuorum /\ Cardinality(hist.rebuilds[r]) >= MinRebuilds
  BY <1>10, <1>11, CardGrows, QuorumSizes DEF CanActivate, PredicatesOk
<1>13. c.rebuilds # {}
  <2>1. Cardinality(c.rebuilds) >= MinRebuilds
    BY <1>10 DEF CanActivate, PredicatesOk
  <2>2. Cardinality({}) = 0
    BY FS_EmptySet
  <2> QED
    BY <2>1, <2>2, QuorumSizes
<1>14. Earned(e)
  <2>1. c.rebuildable /\ CouncilOk(c.council) /\ now - c.at >= Timelock /\ c.hash = hash
    BY <1>10, <1>13 DEF Checked, CanActivate, PredicatesOk
  <2> QED
    BY <1>6, <1>10, <1>12, <2>1 DEF Earned, Same
<1>15. Grown
  BY <1>0, <1>2 DEF Grown, Same, StoresTyped
<1>16. MemoryOk'
  <2>1. ASSUME NEW x \in allow' PROVE cands[x.release] # None /\ Earned(x)
    BY <1>6, <1>10, <1>14, <2>1 DEF CopiesOk, MemoryOk
  <2>2. MemoryOk
    BY DEF CopiesOk
  <2> QED
    BY <1>2, <2>1, <2>2 DEF MemoryOk, Earned, CopyOk, Checked
<1>17. FileOk(disk["release"])' /\ (tmp["release"] # None => FileOk(tmp["release"]))'
  BY <1>0, <1>2, <1>15, FilesStay
<1> QED
  BY <1>0, <1>1, <1>2, <1>3, <1>15, <1>16, <1>17, CopiesKept

\* The files hold what a snapshot held.
LEMMA CopiesFiles ==
    ASSUME Typed, CopiesOk, NEW w \in Worker, Clone(w) \/ WriteTmp(w) \/ Rename(w) \/ WriteFails(w)
    PROVE  CopiesOk'
<1>0. Typed' /\ StoresTyped
  <2>1. Step(w)
    BY DEF Step
  <2> QED
    BY <2>1, TypedStep DEF Typed
<1>1. PICK d : Moved(w, d)
  BY Moves DEF Step
<1>2. UNCHANGED <<now, hash, cands, allow>> /\ hist'.rebuilds = hist.rebuilds /\ hist'.cosigns = hist.cosigns
  BY FileTypes
<1>3. PICK s \in {"clone", "write", "rename"} : At(w, s)
  BY DEF Clone, WriteTmp, Rename, WriteFails
<1>4. On(w) \in File /\ call[w].pc # 1 /\ call[w].req # None
  BY <1>3, AtStep DEF Placed
<1>5. Grown
  BY <1>0, <1>2 DEF Grown, Same, StoresTyped
<1>6. MemoryOk'
  BY <1>0, <1>2, <1>5, MemoryStays DEF CopiesOk
<1>7. CASE disk'["release"] = disk["release"] /\ tmp'["release"] = tmp["release"]
  BY <1>0, <1>1, <1>2, <1>4, <1>7, CopiesQuiet
<1>8. CASE ~(disk'["release"] = disk["release"] /\ tmp'["release"] = tmp["release"])
  <2>1. WriteTmp(w) \/ Rename(w)
    BY <1>8 DEF Clone, WriteFails
  <2>t. DOMAIN tmp = File /\ DOMAIN disk = File /\ "release" \in File
    <3>1. DOMAIN disk = File
      BY <1>0 DEF StoresTyped, Files, File
    <3> QED
      BY <1>0, <3>1 DEF StoresTyped, File
  <2>2. CASE WriteTmp(w)
    <3>1. /\ tmp' = [tmp EXCEPT ![On(w)] = call[w].snap] /\ disk' = disk /\ At(w, "write")
      BY <2>2 DEF WriteTmp
    <3>2. On(w) = "release"
      BY <1>4, <1>8, <2>t, <3>1
    <3>3. PICK x : x = call[w].snap
      OBVIOUS
    <3>4. Writing(call[w], "release")
      BY <3>1, <3>2 DEF At, On, Steps, Writing
    <3>5. FileOk(x) /\ x \in ReleaseFiles
      <4>1. CallOk(call[w])
        BY DEF Typed, CallsTyped
      <4> QED
        BY <3>3, <3>4, <4>1 DEF CopiesOk, Writing, CallOk, Contents
    <3>6. FileOk(x)'
      BY <1>0, <1>5, <3>5, FileStays
    <3>7. tmp'["release"] = x
      BY <2>t, <3>1, <3>2, <3>3
    <3>8. PICK y : y = disk["release"]
      OBVIOUS
    <3>9. y \in ReleaseFiles /\ FileOk(y)
      BY <1>0, <3>8 DEF StoresTyped, Files, CopiesOk
    <3>10. FileOk(y)'
      BY <1>0, <1>5, <3>9, FileStays
    <3>11. FileOk(disk["release"])' /\ (tmp["release"] # None => FileOk(tmp["release"]))'
      BY <3>1, <3>6, <3>7, <3>8, <3>10
    <3> QED
      BY <1>0, <1>1, <1>2, <1>4, <1>5, <1>6, <3>11, CopiesKept
  <2>3. CASE Rename(w)
    <3>1. PICK f : f = On(w)
      OBVIOUS
    <3>2. tmp[f] # None
      BY <1>8, <2>3, <3>1 DEF Rename
    <3>3. disk' = [disk EXCEPT ![f] = tmp[f]] /\ tmp' = [tmp EXCEPT ![f] = None]
      BY <2>3, <3>1, <3>2 DEF Rename
    <3>4. f = "release"
      BY <1>4, <1>8, <2>t, <3>1, <3>3
    <3>5. PICK x : x = tmp["release"]
      OBVIOUS
    <3>6. FileOk(x) /\ x \in ReleaseFiles
      BY <1>0, <3>2, <3>4, <3>5 DEF CopiesOk, StoresTyped, File, Contents
    <3>7. FileOk(x)'
      BY <1>0, <1>5, <3>6, FileStays
    <3>8. disk'["release"] = x /\ tmp'["release"] = None
      BY <2>t, <3>3, <3>4, <3>5
    <3>9. FileOk(disk["release"])' /\ (tmp["release"] # None => FileOk(tmp["release"]))'
      BY <3>7, <3>8
    <3> QED
      BY <1>0, <1>1, <1>2, <1>4, <1>5, <1>6, <3>9, CopiesKept
  <2> QED
    BY <2>1, <2>2, <2>3
<1> QED
  BY <1>7, <1>8

\* The ledger and the economy leave the release mesh alone.
LEMMA ReleaseElsewhere ==
    ASSUME Typed, NEW w \in Worker,
           \/ PutProposal(w) \/ SaveVote(w) \/ ReadHead(w) \/ LedgerAppend(w) \/ Close(w) \/ AdvanceEpoch(w)
           \/ AccrueGovernance(w) \/ AccrueProfit(w) \/ Upsert(w) \/ Shares(w) \/ AssertIntents(w) \/ Debit(w) \/ Record(w)
    PROVE  /\ UNCHANGED <<now, hash, cands, allow, disk, tmp, faults>>
           /\ hist'.rebuilds = hist.rebuilds /\ hist'.cosigns = hist.cosigns
           /\ ~(Saving(call[w]) /\ call[w].pc = 1)
<1>0. hist \in HistSet
  BY DEF Typed, StoresTyped
<1>1. PICK s \in {"put_proposal", "save_vote", "head", "append", "close", "set_epoch", "accrue_governance", "accrue_profit",
                  "upsert", "shares", "assert", "debit", "record"} : At(w, s)
  <2>1. CASE PutProposal(w) \/ SaveVote(w) \/ ReadHead(w) \/ LedgerAppend(w) \/ Close(w) \/ AdvanceEpoch(w)
    BY <2>1, Zenon DEF PutProposal, SaveVote, ReadHead, LedgerAppend, Close, AdvanceEpoch
  <2>2. CASE AccrueGovernance(w) \/ AccrueProfit(w) \/ Upsert(w) \/ Shares(w)
    BY <2>2, Zenon DEF AccrueGovernance, AccrueProfit, Upsert, Shares
  <2>3. CASE AssertIntents(w) \/ Debit(w) \/ Record(w)
    BY <2>3, Zenon DEF AssertIntents, Debit, Record
  <2> QED
    BY <2>1, <2>2, <2>3
<1>2. ~(Saving(call[w]) /\ call[w].pc = 1)
  <2>1. SUFFICES ASSUME Saving(call[w]), call[w].pc = 1 PROVE FALSE
    OBVIOUS
  <2>2. call[w].req.op \in Saves
    BY <2>1 DEF Saving
  <2>3. Program(call[w].req.op)[1][1] = "save_candidate"
    BY <2>2, RebuildProgram, CosignProgram, ActivateProgram DEF Saves
  <2>4. s = "save_candidate"
    BY <1>1, <2>1, <2>3 DEF At, Steps
  <2> QED
    BY <2>4
<1>3. CASE \/ AccrueGovernance(w) \/ AccrueProfit(w) \/ Upsert(w) \/ Shares(w) \/ AssertIntents(w) \/ Debit(w) \/ Record(w)
  BY <1>2, <1>3, EconomyTypes
<1>4. CASE PutProposal(w) \/ SaveVote(w)
  <2>1. UNCHANGED <<now, hash, cands, allow, disk, tmp, faults>>
    BY <1>4 DEF PutProposal, SaveVote
  <2>2. call[w].req # None /\ call[w].req.op \in {"propose_epoch", "vote_epoch"} /\ call[w] \in CallSet /\ CallOk(call[w])
    BY <1>4, AtStep DEF PutProposal, SaveVote, Placed, Typed, CallsTyped
  <2>3. call[w].req.on \in Proposal /\ call[w].req.by \in Vault
    BY <2>2, EpochCall
  <2>4. /\ hist.votes[call[w].req.on] \cup {call[w].req.by} \in SUBSET Vault
        /\ {call[w].req.by} \in SUBSET Vault
    BY <1>0, <2>3, HistFields
  <2>5. \/ hist' = [hist EXCEPT !.votes[call[w].req.on] = hist.votes[call[w].req.on] \cup {call[w].req.by}]
        \/ hist' = [hist EXCEPT !.votes[call[w].req.on] = {call[w].req.by}]
        \/ hist' = hist
    BY <1>4 DEF PutProposal, SaveVote
  <2>6. hist'.rebuilds = hist.rebuilds /\ hist'.cosigns = hist.cosigns
    BY <1>0, <2>3, <2>4, <2>5, HistVote
  <2> QED
    BY <1>2, <2>1, <2>6
<1>5. CASE ReadHead(w) \/ LedgerAppend(w) \/ Close(w) \/ AdvanceEpoch(w)
  BY <1>2, <1>5 DEF ReadHead, LedgerAppend, Close, AdvanceEpoch, memory
<1> QED
  BY <1>3, <1>4, <1>5

\* A request taken up has a candidate that passed the checks.
LEMMA CopiesBegin ==
    ASSUME Typed, CopiesOk, NEW w \in Worker, Request(w)
    PROVE  CopiesOk'
<1>1. PICK r \in todo : \E d :
        /\ Taken(w, r, d)
        /\ r.op = "propose_release" => /\ CouncilOk(r.council)
                                       /\ d.cand = NewCandidate(r.source, r.rebuildable, r.council, now, hash)
        /\ r.op \in Saves => cands[r.on] # None
        /\ r.op = "rebuild_release" => CanRebuild(cands[r.on]) /\ d.cand = RecordRebuild(cands[r.on], r.by)
        /\ r.op = "cosign_release" => CanCosign(cands[r.on], now, hash) /\ d.cand = AddCosign(cands[r.on], r.by)
        /\ r.op = "activate_release" => CanActivate(cands[r.on], now, hash) /\ d.cand = Allowlist(cands[r.on])
  BY Begins
<1>2. PICK d :
        /\ Taken(w, r, d)
        /\ r.op = "propose_release" => /\ CouncilOk(r.council)
                                       /\ d.cand = NewCandidate(r.source, r.rebuildable, r.council, now, hash)
        /\ r.op \in Saves => cands[r.on] # None
        /\ r.op = "rebuild_release" => CanRebuild(cands[r.on]) /\ d.cand = RecordRebuild(cands[r.on], r.by)
        /\ r.op = "cosign_release" => CanCosign(cands[r.on], now, hash) /\ d.cand = AddCosign(cands[r.on], r.by)
        /\ r.op = "activate_release" => CanActivate(cands[r.on], now, hash) /\ d.cand = Allowlist(cands[r.on])
  BY <1>1
<1>3. /\ call'[w] = d /\ (\A u \in Worker : u # w => call'[u] = call[u])
      /\ d.req = r /\ d.pc = 1 /\ r \in Requests /\ StoresTyped
      /\ UNCHANGED <<now, hash, cands, allow, disk, tmp, hist>>
      /\ ~Writing(d, "release")
  BY <1>2, TypedTaken DEF Taken, Typed, File
<1>4. r.op \in Saves => r.on \in Release /\ r.by \in Vault
  BY <1>3, Given DEF IsRequest, Saves
<1>5. ASSUME r.op = "propose_release" PROVE Checked(d.cand) /\ d.cand.rebuilds = {} /\ d.cand.cosigns = {}
  BY <1>2, <1>5 DEF NewCandidate, Checked
<1>6. ASSUME r.op \in Saves PROVE CandOk(d)
  <2>1. PICK c : c = cands[r.on]
    OBVIOUS
  <2>2. c \in Candidates(Source) /\ c # None /\ CopyOk(r.on, c) /\ r.by \in Vault
    BY <1>2, <1>3, <1>4, <1>6, <2>1 DEF StoresTyped, CopiesOk, MemoryOk
  <2>3. CASE r.op = "rebuild_release"
    <3>1. CanRebuild(c) /\ d.cand = RecordRebuild(c, r.by)
      BY <1>2, <2>1, <2>3
    <3>2. /\ Same(d.cand, c) /\ d.cand.rebuilds = c.rebuilds \cup {r.by} /\ d.cand.cosigns = c.cosigns
          /\ d.cand.phase = c.phase
      <4>1. c \in Candidates(Source) /\ r.by \in Vault
        BY <2>2
      <4>2. /\ Same(RecordRebuild(c, r.by), c) /\ RecordRebuild(c, r.by).rebuilds = c.rebuilds \cup {r.by}
            /\ RecordRebuild(c, r.by).cosigns = c.cosigns /\ RecordRebuild(c, r.by).phase = c.phase
        BY <4>1, CandidateOk
      <4> QED
        BY <3>1, <4>2
    <3>3. Checked(d.cand)
      BY <2>2, <3>1, <3>2 DEF Checked, CopyOk, Same, CanRebuild, Open
    <3> QED
      BY <1>3, <2>1, <2>2, <2>3, <3>1, <3>2, <3>3 DEF CandOk, CopyOk, Same, CanRebuild
  <2>4. CASE r.op = "cosign_release"
    <3>1. d.cand = AddCosign(c, r.by)
      BY <1>2, <2>1, <2>4
    <3>2. /\ Same(d.cand, c) /\ d.cand.rebuilds = c.rebuilds /\ d.cand.cosigns = c.cosigns \cup {r.by}
          /\ d.cand.phase = "cosigning"
      BY <2>2, <3>1, CandidateOk
    <3>3. Checked(d.cand)
      BY <2>2, <3>2 DEF Checked, CopyOk, Same
    <3> QED
      BY <1>3, <2>1, <2>2, <2>4, <3>2, <3>3 DEF CandOk, CopyOk, Same
  <2>5. CASE r.op = "activate_release"
    <3>1. CanActivate(c, now, hash) /\ d.cand = Allowlist(c)
      BY <1>2, <2>1, <2>5
    <3>2. Same(d.cand, c) /\ d.cand.rebuilds = c.rebuilds /\ d.cand.cosigns = c.cosigns
      BY <2>2, <3>1, CandidateOk
    <3>3. CanActivate(d.cand, now, hash) /\ CanActivate(d.cand, now, d.cand.hash)
      BY <3>1, <3>2 DEF CanActivate, PredicatesOk, Same
    <3>4. Checked(d.cand)
      BY <2>2, <3>2, <3>3 DEF Checked, CopyOk, Same
    <3> QED
      BY <1>3, <2>1, <2>2, <2>5, <3>2, <3>3, <3>4 DEF CandOk, CopyOk, Same
  <2> QED
    BY <1>6, <2>3, <2>4, <2>5 DEF Saves
<1>7. MemoryOk' /\ FileOk(disk["release"])' /\ (tmp["release"] # None => FileOk(tmp["release"]))'
  <2>1. MemoryOk /\ FileOk(disk["release"]) /\ (tmp["release"] # None => FileOk(tmp["release"]))
    BY DEF CopiesOk
  <2> QED
    BY <1>3, <2>1 DEF MemoryOk, FileOk, CopyOk, Earned, Checked
<1>8. ASSUME NEW u \in Worker
      PROVE  /\ Writing(call'[u], "release") => FileOk(call[u].snap)'
             /\ Saving(call'[u]) => CandOk(call[u])'
             /\ call'[u].req # None /\ call'[u].req.op = "propose_release" /\ call'[u].pc = 1
                  => Checked(call[u].cand)' /\ call'[u].cand.rebuilds = {} /\ call'[u].cand.cosigns = {}
  <2>1. CASE u = w
    BY <1>3, <1>5, <1>6, <2>1 DEF Saving, CandOk, Checked
  <2>2. CASE u # w
    <3>1. /\ Writing(call[u], "release") => FileOk(call[u].snap)
          /\ Saving(call[u]) => CandOk(call[u])
          /\ call[u].req # None /\ call[u].req.op = "propose_release" /\ call[u].pc = 1
              => Checked(call[u].cand) /\ call[u].cand.rebuilds = {} /\ call[u].cand.cosigns = {}
      BY DEF CopiesOk
    <3>2. call'[u] = call[u]
      BY <1>3, <2>2
    <3> QED
      BY <1>3, <3>1, <3>2 DEF CandOk, Checked, FileOk, CopyOk, Earned
  <2> QED
    BY <2>1, <2>2
<1> QED
  BY <1>7, <1>8 DEF CopiesOk, Writing, Saving

\* A day later every copy is still right.
LEMMA CopiesTick == ASSUME Typed, CopiesOk, Tick PROVE CopiesOk'
<1>0. Typed' /\ StoresTyped
  BY TypedTick DEF Typed
<1>1. now' = now + 1 /\ UNCHANGED <<call, hash, cands, allow, disk, tmp, hist>>
  BY DEF Tick, memory
<1>2. Grown
  BY <1>0, <1>1 DEF Grown, Same, StoresTyped
<1>3. MemoryOk'
  BY <1>0, <1>1, <1>2, MemoryStays DEF CopiesOk
<1>4. FileOk(disk["release"])' /\ (tmp["release"] # None => FileOk(tmp["release"]))'
  BY <1>0, <1>1, <1>2, FilesStay
<1>5. ASSUME NEW u \in Worker
      PROVE  /\ Writing(call'[u], "release") => FileOk(call[u].snap)'
             /\ Saving(call'[u]) => CandOk(call[u])'
             /\ call'[u].req # None /\ call'[u].req.op = "propose_release" /\ call'[u].pc = 1
                  => Checked(call[u].cand)' /\ call'[u].cand.rebuilds = {} /\ call'[u].cand.cosigns = {}
  <2>1. PICK c : c = call[u]
    OBVIOUS
  <2>2. c \in CallSet /\ CallOk(c) /\ call'[u] = c
    BY <1>1, <2>1 DEF Typed, CallsTyped
  <2>3. ASSUME Writing(c, "release") PROVE FileOk(c.snap)'
    <3>1. c.snap \in ReleaseFiles
      BY <2>2, <2>3 DEF Writing, CallOk, Contents
    <3>2. FileOk(c.snap)
      BY <2>1, <2>3 DEF CopiesOk
    <3>3. PICK x : x = c.snap
      OBVIOUS
    <3>4. FileOk(x)'
      BY <1>0, <1>2, <3>1, <3>2, <3>3, FileStays
    <3> QED
      BY <3>3, <3>4
  <2>4. ASSUME Saving(c) PROVE CandOk(c)'
    BY <1>0, <1>1, <1>2, <2>1, <2>2, <2>4, CandStays DEF CopiesOk
  <2>5. ASSUME c.req # None, c.req.op = "propose_release", c.pc = 1
        PROVE  Checked(c.cand)' /\ c.cand.rebuilds = {} /\ c.cand.cosigns = {}
    <3>1. c.cand \in Candidates(Source)
      BY <2>2, <2>5 DEF CallSet, CallOk
    <3>2. Checked(c.cand) /\ c.cand.rebuilds = {} /\ c.cand.cosigns = {}
      BY <2>1, <2>5 DEF CopiesOk
    <3> QED
      BY <1>0, <1>2, <3>1, <3>2, CheckedStays DEF Grown
  <2> QED
    BY <2>2, <2>3, <2>4, <2>5 DEF FileOk, CandOk, CopyOk, Earned, Checked
<1> QED
  BY <1>3, <1>4, <1>5 DEF CopiesOk, Writing, Saving

\* What boot reads back is of candidates that were checked before.
LEMMA CopiesRestart == ASSUME Typed, CopiesOk, Restart PROVE CopiesOk'
<1>1. PICK x : x = disk["release"]
  OBVIOUS
<1>2. x \in ReleaseFiles /\ FileOk(x)
  BY <1>1 DEF CopiesOk, Typed, StoresTyped, Files
<1>3. /\ cands' = x.cands /\ allow' = x.allow /\ disk' = disk /\ now' = now /\ tmp'["release"] = None
      /\ call' = [w \in Worker |-> Idle]
  BY <1>1 DEF Restart, HydrateMeta, File
<1>4. hist'.rebuilds = hist.rebuilds /\ hist'.cosigns = hist.cosigns
  BY RestartHist
<1>5. /\ x.cands \in [Release -> Candidates(Source) \cup {None}]
      /\ x.allow \subseteq [release : Release, hash : Hash]
  BY <1>2 DEF ReleaseFiles
<1>6. ASSUME NEW r \in Release, x.cands[r] # None PROVE CopyOk(r, x.cands[r])'
  <2>1. CopyOk(r, x.cands[r])
    BY <1>2, <1>6 DEF FileOk
  <2> QED
    BY <1>3, <1>4, <1>6, <2>1 DEF CopyOk, Same, Checked
<1>7. ASSUME NEW e \in x.allow PROVE x.cands[e.release] # None /\ Earned(e)'
  <2>1. e.release \in Release
    BY <1>5
  <2>2. x.cands[e.release] # None /\ Earned(e)
    BY <1>2 DEF FileOk
  <2>3. Same(x.cands[e.release], cands[e.release])
    BY <1>2, <2>1, <2>2 DEF FileOk, CopyOk
  <2> QED
    BY <1>3, <1>4, <2>2, <2>3 DEF Earned, Same
<1>8. MemoryOk'
  BY <1>3, <1>6, <1>7 DEF MemoryOk, CopyOk, Checked
<1>9. FileOk(x)'
  BY <1>6, <1>7 DEF FileOk
<1>10. FileOk(disk["release"])'
  BY <1>1, <1>3, <1>9
<1> QED
  BY <1>3, <1>8, <1>10, IdleOk DEF CopiesOk, Writing, Saving

\* The files found at boot are well made.
LEMMA CopiesInit == Init => CopiesOk
<1> SUFFICES ASSUME Init PROVE CopiesOk
  OBVIOUS
<1>1. PICK x : x = disk["release"]
  OBVIOUS
<1>2. x.cands = cands /\ x.allow = allow /\ WellMade(x) /\ now = 0 /\ tmp["release"] = None /\ call = [w \in Worker |-> Idle]
  BY <1>1, Found DEF Init, File
<1>3. cands \in [Release -> Candidates(Source) \cup {None}] /\ allow \subseteq [release : Release, hash : Hash]
  BY Found
<1>4. ASSUME NEW r \in Release, cands[r] # None PROVE hist.rebuilds[r] = cands[r].rebuilds /\ hist.cosigns[r] = cands[r].cosigns
  <2>1. /\ hist.rebuilds = [q \in Release |-> IF cands[q] = None THEN {} ELSE cands[q].rebuilds]
        /\ hist.cosigns = [q \in Release |-> IF cands[q] = None THEN {} ELSE cands[q].cosigns]
    BY DEF Init
  <2> QED
    BY <1>4, <2>1
<1>5. ASSUME NEW r \in Release, cands[r] # None PROVE CopyOk(r, cands[r])
  BY <1>2, <1>4, <1>5 DEF WellMade, CopyOk, Same, Checked
<1>6. ASSUME NEW e \in allow PROVE cands[e.release] # None /\ Earned(e)
  <2>1. PICK r \in Release : r = e.release
    BY <1>3
  <2>2. cands[r] # None /\ cands[r].phase = "allowlisted" /\ cands[r].hash = e.hash
    BY <1>2, <2>1 DEF WellMade
  <2>3. CanActivate(cands[r], 0, cands[r].hash) /\ CouncilOk(cands[r].council) /\ (cands[r].rebuilds # {} => cands[r].rebuildable)
    BY <1>2, <2>2 DEF WellMade
  <2>4. cands[r].rebuilds # {}
    <3>1. Cardinality(cands[r].rebuilds) >= MinRebuilds
      BY <2>3 DEF CanActivate, PredicatesOk
    <3>2. Cardinality({}) = 0
      BY FS_EmptySet
    <3> QED
      BY <3>1, <3>2, QuorumSizes
  <2> QED
    BY <1>2, <1>4, <2>1, <2>2, <2>3, <2>4 DEF Earned, CanActivate, PredicatesOk
<1>7. MemoryOk
  BY <1>5, <1>6 DEF MemoryOk
<1>8. FileOk(x)
  BY <1>2, <1>5, <1>6 DEF FileOk
<1> QED
  BY <1>1, <1>2, <1>7, <1>8, IdleOk DEF CopiesOk, Writing, Saving

\* Every step keeps the copies right.
LEMMA CopiesStep == ASSUME Typed, CopiesOk, Next PROVE CopiesOk'
<1>1. ASSUME NEW w \in Worker, Step(w) PROVE CopiesOk'
  <2>1. CASE PutCandidate(w) \/ SaveCandidate(w) \/ PutAllowlist(w)
    BY <2>1, CopiesPut, CopiesSave, CopiesAllow
  <2>2. CASE Clone(w) \/ WriteTmp(w) \/ Rename(w) \/ WriteFails(w)
    BY <2>2, CopiesFiles
  <2>3. CASE \/ PutProposal(w) \/ SaveVote(w) \/ ReadHead(w) \/ LedgerAppend(w) \/ Close(w) \/ AdvanceEpoch(w)
             \/ AccrueGovernance(w) \/ AccrueProfit(w) \/ Upsert(w) \/ Shares(w) \/ AssertIntents(w) \/ Debit(w) \/ Record(w)
    <3>1. Typed'
      BY <1>1, TypedStep
    <3>2. PICK d : Moved(w, d)
      BY <1>1, Moves
    <3>3. /\ UNCHANGED <<now, hash, cands, allow, disk, tmp>> /\ hist'.rebuilds = hist.rebuilds /\ hist'.cosigns = hist.cosigns
          /\ ~(Saving(call[w]) /\ call[w].pc = 1)
      BY <2>3, ReleaseElsewhere
    <3> QED
      BY <3>1, <3>2, <3>3, CopiesQuiet
  <2> QED
    BY <1>1, <2>1, <2>2, <2>3 DEF Step
<1> QED
  BY <1>1, CopiesBegin, CopiesTick, CopiesRestart DEF Next

\* Requests that have release steps to come use the release store.
LEMMA ReleaseAhead ==
    ASSUME Typed, NEW w \in Worker,
           (Saving(call[w]) /\ call[w].pc = 1) \/ (Activating(call[w]) /\ call[w].pc \in 1 .. 5)
    PROVE  Ahead(call[w], "release")
<1>1. call[w].req # None /\ call[w].req.op \in Saves /\ call[w].pc \in 1 .. 5
  BY DEF Saving, Activating, Saves
<1>2. CASE call[w].pc = 1
  <2>1. 1 \in call[w].pc .. Len(Program(call[w].req.op)) /\ Program(call[w].req.op)[1][2] = "release"
    BY <1>1, <1>2, RebuildProgram, CosignProgram, ActivateProgram DEF Saves
  <2> QED
    BY <1>1, <2>1 DEF Ahead, Uses
<1>3. CASE call[w].pc # 1
  <2>1. call[w].req.op = "activate_release"
    BY <1>3 DEF Activating
  <2>2. Len(Program("activate_release")) = 14 /\ Program("activate_release")[5][2] = "release"
    BY ActivateProgram
  <2>3. 5 \in call[w].pc .. Len(Program(call[w].req.op)) /\ Program(call[w].req.op)[5][2] = "release"
    BY <1>1, <2>1, <2>2
  <2> QED
    BY <1>1, <2>3 DEF Ahead, Uses
<1> QED
  BY <1>2, <1>3

\* A step that leaves the release mesh alone.
LEMMA HeldQuiet ==
    ASSUME Typed, Held, NEW w \in Worker, NEW d, Moved(w, d), UNCHANGED <<cands, allow>>, hist'.cosigns = hist.cosigns,
           ~(Saving(call[w]) /\ call[w].pc = 1)
    PROVE  Held'
<1>1. call'[w] = d /\ \A u \in Worker : u # w => call'[u] = call[u]
  BY MovedCalls
<1>2. call[w].pc \in Nat /\ CallOk(call[w])
  BY DEF Typed, CallsTyped, CallSet
<1>3. ASSUME d.req # None
      PROVE  /\ d.req = call[w].req /\ d.pc = call[w].pc + 1 /\ d.pc # 1
             /\ Saving(d) => call[w].pc # 1
             /\ Activating(d) /\ d.pc \in 2 .. 5 => Activating(call[w]) /\ call[w].pc \in 2 .. 5
  <2>1. d.req = call[w].req /\ d.pc = call[w].pc + 1
    BY <1>3 DEF Moved
  <2>2. call[w].pc >= 1
    BY <1>2, <1>3, <2>1 DEF CallOk
  <2>3. Saving(d) => call[w].pc # 1
    BY <2>1 DEF Saving
  <2>4. Activating(d) => Saving(d)
    BY DEF Activating, Saving, Saves
  <2> QED
    BY <1>2, <2>1, <2>2, <2>3, <2>4 DEF Activating
<1>4. ASSUME NEW u \in Worker
      PROVE  /\ Saving(call'[u]) /\ call'[u].pc = 1 => SaveOk(call[u])'
             /\ Activating(call'[u]) /\ call'[u].pc \in 2 .. 5 => cands'[call'[u].req.on].phase = "allowlisted"
  <2>1. CASE u = w
    <3>1. ~(Saving(d) /\ d.pc = 1)
      BY <1>3 DEF Saving
    <3>2. Activating(d) /\ d.pc \in 2 .. 5 => cands[d.req.on].phase = "allowlisted"
      BY <1>3 DEF Activating, Held
    <3> QED
      BY <1>1, <2>1, <3>1, <3>2
  <2>2. CASE u # w
    BY <1>1, <2>2 DEF Held, SaveOk
  <2> QED
    BY <2>1, <2>2
<1> QED
  BY <1>4 DEF Held, Saving, Activating

\* A new candidate has no cosign and is not on the allow-list.
LEMMA HeldPut ==
    ASSUME Typed, CopiesOk, Held, NEW w \in Worker, PutCandidate(w)
    PROVE  Held'
<1>0. StoresTyped
  BY DEF Typed
<1>1. PICK d : Moved(w, d)
  BY Moves DEF Step
<1>2. UNCHANGED <<allow, hist>> /\ At(w, "put_candidate")
  BY DEF PutCandidate
<1>3. call[w].req # None /\ call[w].req.op = "propose_release" /\ call[w].pc = 1
  BY <1>2, AtStep DEF Placed
<1>4. ~Saving(call[w]) /\ ~Activating(call[w])
  BY <1>3 DEF Saving, Saves, Activating
<1>5. PICK r : r = call[w].req.on
  OBVIOUS
<1>6. CASE cands[r] # None
  <2>1. cands' = cands
    BY <1>5, <1>6 DEF PutCandidate
  <2> QED
    BY <1>1, <1>2, <1>4, <2>1, HeldQuiet
<1>7. CASE cands[r] = None
  <2>1. cands' = [cands EXCEPT ![r] = call[w].cand]
    BY <1>5, <1>7 DEF PutCandidate
  <2>2. r \in Release /\ call[w].cand \in Candidates(Source) /\ call[w].cand # None
    BY <1>3, <1>5, ReleaseCall, Given
  <2>3. cands'[r] = call[w].cand /\ \A x \in Release : x # r => cands'[x] = cands[x]
    BY <1>0, <2>1, <2>2 DEF StoresTyped
  <2>4. hist.cosigns[r] = {} /\ \A e \in allow : e.release # r
    BY <1>7, <2>2 DEF Held, CopiesOk, MemoryOk
  <2>5. /\ \A x \in Release : cands'[x] = None => hist'.cosigns[x] = {}
        /\ \A x \in Release : cands'[x] # None =>
               /\ hist'.cosigns[x] \subseteq cands'[x].cosigns
               /\ (\E e \in allow' : e.release = x) => cands'[x].phase = "allowlisted"
    BY <1>2, <2>2, <2>3, <2>4 DEF Held
  <2>6. call'[w] = d /\ \A u \in Worker : u # w => call'[u] = call[u]
    BY <1>1, MovedCalls
  <2>7. ~Saving(d) /\ ~Activating(d)
    BY <1>1, <1>4 DEF Moved, Saving, Activating
  <2>8. ASSUME NEW u \in Worker, u # w
        PROVE  /\ Saving(call[u]) /\ call[u].pc = 1 => SaveOk(call[u])'
               /\ Activating(call[u]) /\ call[u].pc \in 2 .. 5 => cands'[call[u].req.on].phase = "allowlisted"
    <3>1. Saving(call[u]) /\ call[u].pc = 1 => SaveOk(call[u])'
      BY <1>2, <2>6, <2>8 DEF Held, SaveOk
    <3>2. ASSUME Activating(call[u]), call[u].pc \in 2 .. 5 PROVE cands'[call[u].req.on].phase = "allowlisted"
      <4>1. Saving(call[u]) /\ call[u].req # None /\ call[u].req.op \in Saves
        BY <3>2 DEF Activating, Saving, Saves
      <4>2. cands[call[u].req.on] # None /\ call[u].req.on \in Release
        BY <4>1, ReleaseCall DEF CopiesOk, CandOk
      <4>3. cands'[call[u].req.on] = cands[call[u].req.on]
        BY <1>7, <2>3, <4>2
      <4> QED
        BY <3>2, <4>3 DEF Held
    <3> QED
      BY <3>1, <3>2
  <2>9. ASSUME NEW u \in Worker
        PROVE  /\ Saving(call'[u]) /\ call'[u].pc = 1 => SaveOk(call[u])'
               /\ Activating(call'[u]) /\ call'[u].pc \in 2 .. 5 => cands'[call'[u].req.on].phase = "allowlisted"
    BY <2>6, <2>7, <2>8
  <2> QED
    BY <2>5, <2>9 DEF Held, Saving, Activating
<1> QED
  BY <1>6, <1>7

\* While requests do not overlap, nobody saves over a cosign.
LEMMA HeldSave ==
    ASSUME Typed, Apart, CopiesOk, Held, "release" \notin raced, NEW w \in Worker, SaveCandidate(w)
    PROVE  Held'
<1>0. StoresTyped
  BY DEF Typed
<1>1. PICK d : Moved(w, d)
  BY Moves DEF Step
<1>2. allow' = allow
  BY DEF SaveCandidate
<1>3. PICK r : r = call[w].req.on
  OBVIOUS
<1>4. /\ call[w].req # None /\ call[w].req.op \in Saves /\ call[w].pc = 1
      /\ r \in Release /\ call[w].cand \in Candidates(Source)
      /\ cands' = [cands EXCEPT ![r] = call[w].cand]
      /\ call[w].req.op = "cosign_release" =>
            hist'.cosigns = [hist.cosigns EXCEPT ![r] = hist.cosigns[r] \cup {call[w].req.by}]
      /\ call[w].req.op # "cosign_release" => hist'.cosigns = hist.cosigns
  BY <1>3, SaveHist
<1>5. cands'[r] = call[w].cand /\ (\A x \in Release : x # r => cands'[x] = cands[x]) /\ call[w].cand # None
  BY <1>0, <1>4, Given DEF StoresTyped
<1>6. Saving(call[w]) /\ SaveOk(call[w])
  BY <1>4 DEF Saving, Held
<1>7. hist.cosigns \in [Release -> SUBSET Vault]
  BY <1>0, HistFields DEF StoresTyped
<1>8. hist'.cosigns[r] \subseteq call[w].cand.cosigns /\ \A x \in Release : x # r => hist'.cosigns[x] = hist.cosigns[x]
  <2>1. CASE call[w].req.op = "cosign_release"
    BY <1>3, <1>4, <1>6, <1>7, <2>1 DEF SaveOk
  <2>2. CASE call[w].req.op # "cosign_release"
    BY <1>3, <1>4, <1>6, <2>2 DEF SaveOk
  <2> QED
    BY <2>1, <2>2
<1>9. (\E e \in allow : e.release = r) => call[w].cand.phase = "allowlisted"
  BY <1>3, <1>6 DEF SaveOk
<1>10. /\ \A x \in Release : cands'[x] = None => hist'.cosigns[x] = {}
       /\ \A x \in Release : cands'[x] # None =>
              /\ hist'.cosigns[x] \subseteq cands'[x].cosigns
              /\ (\E e \in allow' : e.release = x) => cands'[x].phase = "allowlisted"
  <2>1. ASSUME NEW x \in Release, x # r
        PROVE  /\ cands'[x] = None => hist'.cosigns[x] = {}
               /\ cands'[x] # None => /\ hist'.cosigns[x] \subseteq cands'[x].cosigns
                                      /\ (\E e \in allow' : e.release = x) => cands'[x].phase = "allowlisted"
    BY <1>2, <1>5, <1>8, <2>1 DEF Held
  <2> QED
    BY <1>2, <1>5, <1>8, <1>9, <2>1
<1>11. call'[w] = d /\ \A u \in Worker : u # w => call'[u] = call[u]
  BY <1>1, MovedCalls
<1>12. Ahead(call[w], "release")
  BY <1>4, <1>6, ReleaseAhead
<1>13. ASSUME NEW u \in Worker, u # w PROVE ~(Saving(call[u]) /\ call[u].pc = 1) /\ ~(Activating(call[u]) /\ call[u].pc \in 2 .. 5)
  <2>1. ~Ahead(call[u], "release")
    BY <1>12, <1>13 DEF Apart, Stores
  <2>2. call[u].pc \in 2 .. 5 => call[u].pc \in 1 .. 5
    OBVIOUS
  <2> QED
    BY <2>1, <2>2, ReleaseAhead
<1>14. /\ ~(Saving(d) /\ d.pc = 1)
       /\ Activating(d) => cands'[d.req.on].phase = "allowlisted"
  <2>1. d.req # None => d.req = call[w].req /\ d.pc = 2
    BY <1>1, <1>4 DEF Moved
  <2>2. Activating(d) => d.req.on = r /\ call[w].req.op = "activate_release"
    BY <1>3, <2>1 DEF Activating
  <2> QED
    BY <1>5, <1>6, <2>1, <2>2 DEF SaveOk, Saving, Activating
<1>15. ASSUME NEW u \in Worker
       PROVE  /\ Saving(call'[u]) /\ call'[u].pc = 1 => SaveOk(call[u])'
              /\ Activating(call'[u]) /\ call'[u].pc \in 2 .. 5 => cands'[call'[u].req.on].phase = "allowlisted"
  BY <1>11, <1>13, <1>14
<1> QED
  BY <1>10, <1>15 DEF Held, Saving, Activating

\* The release that goes on the allow-list was saved as allow-listed.
LEMMA HeldAllow ==
    ASSUME Typed, Apart, CopiesOk, Held, "release" \notin raced, NEW w \in Worker, PutAllowlist(w)
    PROVE  Held'
<1>1. PICK d : Moved(w, d)
  BY Moves DEF Step
<1>2. UNCHANGED <<cands, hist>> /\ At(w, "put_allowlist")
  BY DEF PutAllowlist
<1>3. call[w].req # None /\ call[w].req.op = "activate_release" /\ call[w].pc = 5
  BY <1>2, AtStep DEF Placed
<1>4. PICK r : r = call[w].req.on
  OBVIOUS
<1>5. PICK e : e = [release |-> r, hash |-> hash]
  OBVIOUS
<1>6. allow' = {x \in allow : x.release # r} \cup {e} /\ e.release = r
  BY <1>4, <1>5 DEF PutAllowlist
<1>7. Activating(call[w]) /\ cands[r].phase = "allowlisted"
  BY <1>3, <1>4 DEF Activating, Held
<1>8. /\ \A x \in Release : cands'[x] = None => hist'.cosigns[x] = {}
      /\ \A x \in Release : cands'[x] # None =>
             /\ hist'.cosigns[x] \subseteq cands'[x].cosigns
             /\ (\E y \in allow' : y.release = x) => cands'[x].phase = "allowlisted"
  BY <1>2, <1>6, <1>7 DEF Held
<1>9. call'[w] = d /\ \A u \in Worker : u # w => call'[u] = call[u]
  BY <1>1, MovedCalls
<1>10. Ahead(call[w], "release")
  BY <1>3, <1>7, ReleaseAhead
<1>11. ASSUME NEW u \in Worker, u # w PROVE ~(Saving(call[u]) /\ call[u].pc = 1) /\ ~(Activating(call[u]) /\ call[u].pc \in 2 .. 5)
  <2>1. ~Ahead(call[u], "release")
    BY <1>10, <1>11 DEF Apart, Stores
  <2>2. call[u].pc \in 2 .. 5 => call[u].pc \in 1 .. 5
    OBVIOUS
  <2> QED
    BY <2>1, <2>2, ReleaseAhead
<1>12. d.req # None => d.pc = 6
  BY <1>1, <1>3 DEF Moved
<1>13. ASSUME NEW u \in Worker
       PROVE  /\ Saving(call'[u]) /\ call'[u].pc = 1 => SaveOk(call[u])'
              /\ Activating(call'[u]) /\ call'[u].pc \in 2 .. 5 => cands'[call'[u].req.on].phase = "allowlisted"
  BY <1>9, <1>11, <1>12 DEF Saving, Activating
<1> QED
  BY <1>8, <1>13 DEF Held, Saving, Activating

\* A request taken up starts from the candidate in memory.
LEMMA HeldBegin ==
    ASSUME Typed, CopiesOk, Held, NEW w \in Worker, Request(w)
    PROVE  Held'
<1>1. PICK r \in todo : \E d :
        /\ Taken(w, r, d)
        /\ r.op \in Saves => cands[r.on] # None
        /\ r.op = "rebuild_release" => CanRebuild(cands[r.on]) /\ d.cand = RecordRebuild(cands[r.on], r.by)
        /\ r.op = "cosign_release" => CanCosign(cands[r.on], now, hash) /\ d.cand = AddCosign(cands[r.on], r.by)
        /\ r.op = "activate_release" => CanActivate(cands[r.on], now, hash) /\ d.cand = Allowlist(cands[r.on])
  BY Begins
<1>2. PICK d :
        /\ Taken(w, r, d)
        /\ r.op \in Saves => cands[r.on] # None
        /\ r.op = "rebuild_release" => CanRebuild(cands[r.on]) /\ d.cand = RecordRebuild(cands[r.on], r.by)
        /\ r.op = "cosign_release" => CanCosign(cands[r.on], now, hash) /\ d.cand = AddCosign(cands[r.on], r.by)
        /\ r.op = "activate_release" => CanActivate(cands[r.on], now, hash) /\ d.cand = Allowlist(cands[r.on])
  BY <1>1
<1>3. /\ call'[w] = d /\ (\A u \in Worker : u # w => call'[u] = call[u])
      /\ d.req = r /\ d.pc = 1 /\ r \in Requests /\ StoresTyped
      /\ UNCHANGED <<cands, allow, hist>>
  BY <1>2, TypedTaken DEF Taken, Typed
<1>4. ASSUME r.op \in Saves PROVE SaveOk(d)
  <2>1. r.on \in Release /\ r.by \in Vault
    BY <1>3, <1>4, Given DEF IsRequest, Saves
  <2>2. PICK c : c = cands[r.on]
    OBVIOUS
  <2>3. c \in Candidates(Source) /\ c # None
    BY <1>2, <1>3, <1>4, <2>1, <2>2 DEF StoresTyped
  <2>4. hist.cosigns[r.on] \subseteq c.cosigns /\ (c.phase # "allowlisted" => \A e \in allow : e.release # r.on)
    BY <2>1, <2>2, <2>3 DEF Held
  <2>5. CASE r.op = "rebuild_release"
    <3>1. d.cand = RecordRebuild(c, r.by) /\ c.phase # "allowlisted"
      BY <1>2, <2>2, <2>5 DEF CanRebuild, Open
    <3>2. RecordRebuild(c, r.by).cosigns = c.cosigns
      BY <2>1, <2>3, CandidateOk
    <3> QED
      BY <1>3, <2>4, <2>5, <3>1, <3>2 DEF SaveOk
  <2>6. CASE r.op = "cosign_release"
    <3>1. d.cand = AddCosign(c, r.by) /\ c.phase # "allowlisted"
      BY <1>2, <2>2, <2>6 DEF CanCosign, Open
    <3>2. AddCosign(c, r.by).cosigns = c.cosigns \cup {r.by}
      BY <2>1, <2>3, CandidateOk
    <3> QED
      BY <1>3, <2>4, <2>6, <3>1, <3>2 DEF SaveOk
  <2>7. CASE r.op = "activate_release"
    <3>1. d.cand = Allowlist(c)
      BY <1>2, <2>2, <2>7
    <3>2. Allowlist(c).cosigns = c.cosigns /\ Allowlist(c).phase = "allowlisted"
      BY <2>1, <2>3, CandidateOk
    <3> QED
      BY <1>3, <2>4, <2>7, <3>1, <3>2 DEF SaveOk
  <2> QED
    BY <1>4, <2>5, <2>6, <2>7 DEF Saves
<1>5. ASSUME NEW u \in Worker
      PROVE  /\ Saving(call'[u]) /\ call'[u].pc = 1 => SaveOk(call[u])'
             /\ Activating(call'[u]) /\ call'[u].pc \in 2 .. 5 => cands'[call'[u].req.on].phase = "allowlisted"
  <2>1. CASE u = w
    BY <1>3, <1>4, <2>1 DEF Saving, SaveOk
  <2>2. CASE u # w
    BY <1>3, <2>2 DEF Held, SaveOk
  <2> QED
    BY <2>1, <2>2
<1> QED
  BY <1>3, <1>5 DEF Held, Saving, Activating

\* Before anything happened.
LEMMA HeldInit == Init => Held
<1> SUFFICES ASSUME Init PROVE Held
  OBVIOUS
<1>1. PICK x : x = disk["release"]
  OBVIOUS
<1>2. x.cands = cands /\ x.allow = allow /\ WellMade(x) /\ call = [w \in Worker |-> Idle]
  BY <1>1, Found DEF Init
<1>3. hist.cosigns = [q \in Release |-> IF cands[q] = None THEN {} ELSE cands[q].cosigns]
  BY DEF Init
<1>4. \A r \in Release : cands[r] # None /\ (\E e \in allow : e.release = r) => cands[r].phase = "allowlisted"
  BY <1>2 DEF WellMade
<1> QED
  BY <1>2, <1>3, <1>4, IdleOk DEF Held, Saving, Activating

\* Saved cosigns stay until requests overlap in the release mesh or something fails.
LEMMA KeptStep == ASSUME Typed, Apart, CopiesOk, Kept, Next PROVE Kept'
<1>0. faults \in Nat
  BY DEF Typed, StoresTyped
<1>1. raced \subseteq raced' /\ faults' \in Nat /\ faults' >= faults
  <2>1. CASE Restart
    BY <1>0, <2>1 DEF Restart, Fault
  <2>2. CASE Tick
    BY <1>0, <2>2 DEF Tick
  <2>3. ASSUME NEW w \in Worker, Request(w) PROVE raced \subseteq raced' /\ faults' = faults
    <3>1. PICK r \in todo : \E d : Taken(w, r, d)
      BY <2>3, Begins
    <3> QED
      BY <3>1 DEF Taken
  <2>4. ASSUME NEW w \in Worker, Step(w) PROVE raced' = raced /\ faults' >= faults /\ faults' \in Nat
    <3>1. raced' = raced
      BY <2>4, TypedStep
    <3>2. CASE WriteFails(w)
      BY <1>0, <3>1, <3>2 DEF WriteFails, Fault
    <3>3. CASE Clone(w) \/ WriteTmp(w) \/ Rename(w) \/ PutCandidate(w) \/ SaveCandidate(w) \/ PutAllowlist(w)
      BY <1>0, <3>1, <3>3 DEF Clone, WriteTmp, Rename, PutCandidate, SaveCandidate, PutAllowlist
    <3>4. CASE \/ PutProposal(w) \/ SaveVote(w) \/ ReadHead(w) \/ LedgerAppend(w) \/ Close(w) \/ AdvanceEpoch(w)
               \/ AccrueGovernance(w) \/ AccrueProfit(w) \/ Upsert(w) \/ Shares(w) \/ AssertIntents(w) \/ Debit(w) \/ Record(w)
      BY <1>0, <3>1, <3>4, ReleaseElsewhere
    <3> QED
      BY <2>4, <3>2, <3>3, <3>4 DEF Step
  <2> QED
    BY <1>0, <2>1, <2>2, <2>3, <2>4 DEF Next
<1>2. SUFFICES ASSUME "release" \notin raced', ~(faults' > 0) PROVE Held'
  BY DEF Kept
<1>3. Held /\ "release" \notin raced /\ faults' = faults
  BY <1>0, <1>1, <1>2 DEF Kept
<1>4. CASE Restart
  BY <1>0, <1>3, <1>4 DEF Restart, Fault
<1>5. CASE Tick
  BY <1>3, <1>5 DEF Tick, memory, Held, SaveOk, Saving, Activating
<1>6. ASSUME NEW w \in Worker, Request(w) PROVE Held'
  BY <1>3, <1>6, HeldBegin
<1>7. ASSUME NEW w \in Worker, Step(w) PROVE Held'
  <2>1. PICK d : Moved(w, d)
    BY <1>7, Moves
  <2>2. CASE PutCandidate(w) \/ SaveCandidate(w) \/ PutAllowlist(w)
    BY <1>3, <2>2, HeldPut, HeldSave, HeldAllow
  <2>3. CASE \/ PutProposal(w) \/ SaveVote(w) \/ ReadHead(w) \/ LedgerAppend(w) \/ Close(w) \/ AdvanceEpoch(w)
             \/ AccrueGovernance(w) \/ AccrueProfit(w) \/ Upsert(w) \/ Shares(w) \/ AssertIntents(w) \/ Debit(w) \/ Record(w)
    <3>1. UNCHANGED <<cands, allow>> /\ hist'.cosigns = hist.cosigns /\ ~(Saving(call[w]) /\ call[w].pc = 1)
      BY <2>3, ReleaseElsewhere
    <3> QED
      BY <1>3, <2>1, <3>1, HeldQuiet
  <2>4. CASE Clone(w) \/ WriteTmp(w) \/ Rename(w) \/ WriteFails(w)
    <3>1. PICK s \in {"clone", "write", "rename"} : At(w, s)
      BY <2>4 DEF Clone, WriteTmp, Rename, WriteFails
    <3>2. call[w].pc # 1
      BY <3>1, AtStep DEF Placed
    <3>3. UNCHANGED <<cands, allow>> /\ hist'.cosigns = hist.cosigns
      BY <2>4, FileTypes
    <3> QED
      BY <1>3, <2>1, <3>2, <3>3, HeldQuiet
  <2> QED
    BY <1>7, <2>2, <2>3, <2>4 DEF Step
<1> QED
  BY <1>4, <1>5, <1>6, <1>7 DEF Next

\* The inductive invariant of the release mesh: every copy of a candidate, in memory, in a
\* request, in a snapshot, in the temporary file or on disk, is of one candidate that
\* passed the checks, and nothing is on an allow-list that was not earned.
THEOREM ReleaseInvariant == Spec => [](Typed /\ Apart /\ ReleaseInv)
<1>1. Init => Typed /\ Apart /\ ReleaseInv
  BY TypedInit, ApartInit, CopiesInit, HeldInit DEF ReleaseInv, Kept
<1>2. Typed /\ Apart /\ ReleaseInv /\ [Next]_vars => (Typed /\ Apart /\ ReleaseInv)'
  <2>1. ASSUME Typed, Apart, ReleaseInv, Next PROVE (Typed /\ Apart /\ ReleaseInv)'
    BY <2>1, TypedNext, ApartStep, CopiesStep, KeptStep DEF ReleaseInv
  <2>2. ASSUME Typed, Apart, ReleaseInv, UNCHANGED vars PROVE (Typed /\ Apart /\ ReleaseInv)'
    <3>0. UNCHANGED <<todo, call, now, hash, epoch, chain, props, cands, allow, eco, disk, tmp, hist, raced, refused, faults>>
      BY <2>2 DEF vars, memory
    <3>1. Typed'
      BY <2>2, <3>0 DEF Typed, CallsTyped, StoresTyped
    <3>2. Apart'
      BY <2>2, <3>0 DEF Apart, Ahead
    <3>3. Kept'
      BY <2>2, <3>0 DEF ReleaseInv, Kept, Held, SaveOk, Saving, Activating
    <3>4. CopiesOk'
      <4>1. CopiesOk
        BY <2>2 DEF ReleaseInv
      <4>2. MemoryOk' /\ FileOk(disk["release"])' /\ (tmp["release"] # None => FileOk(tmp["release"]))'
        BY <3>0, <4>1 DEF CopiesOk, MemoryOk, FileOk, CopyOk, Earned, Checked
      <4>3. ASSUME NEW u \in Worker
            PROVE  /\ Writing(call'[u], "release") => FileOk(call[u].snap)'
                   /\ Saving(call'[u]) => CandOk(call[u])'
                   /\ call'[u].req # None /\ call'[u].req.op = "propose_release" /\ call'[u].pc = 1
                        => Checked(call[u].cand)' /\ call'[u].cand.rebuilds = {} /\ call'[u].cand.cosigns = {}
        BY <3>0, <4>1 DEF CopiesOk, FileOk, CandOk, CopyOk, Earned, Checked
      <4> QED
        BY <4>2, <4>3 DEF CopiesOk, Writing, Saving
    <3> QED
      BY <3>1, <3>2, <3>3, <3>4 DEF ReleaseInv
  <2> QED
    BY <2>1, <2>2
<1> QED
  BY <1>1, <1>2, PTL DEF Spec

\* A binary is on the allow-list, in memory or on disk, only after enough different vaults
\* rebuilt and cosigned it and the council signed, whichever of the overlapping saves and
\* file writes won and whatever a restart read back (ActivateRelease, release_persist.rs).
THEOREM AllowlistIsEarned == Spec => []AllowlistEarned
<1>1. Typed /\ Apart /\ ReleaseInv => AllowlistEarned
  BY DEF ReleaseInv, CopiesOk, MemoryOk, FileOk, Earned, AllowlistEarned
<1> QED
  BY <1>1, ReleaseInvariant, PTL

\* A saved cosign stays unless requests overlap or something fails, and a release found
\* half activated after a restart can be activated (CosignRelease, ActivateRelease).
THEOREM CandidatesAreKept == Spec => []CandidatesKept
<1>1. Typed /\ Apart /\ ReleaseInv => CandidatesKept
  BY DEF ReleaseInv, Kept, Held, CosignsKept, CopiesOk, MemoryOk, CopyOk, Checked, HalfActivatedRecovers, CandidatesKept
<1> QED
  BY <1>1, ReleaseInvariant, PTL

----
(***************************************************************************)
(* Payouts.                                                                *)
(***************************************************************************)

\* What each rule does to the pool and to the time of the last payout.
LEMMA EconomyAmounts ==
    ASSUME NEW e \in EconomyFiles
    PROVE  /\ \A p \in Nat : AccrueProfitSplits(e, p).miners >= e.miners /\ AccrueProfitSplits(e, p).lastAt = e.lastAt
           /\ \A who \in SUBSET Vault : AccrueGovernanceJob(e, who).miners >= e.miners /\ AccrueGovernanceJob(e, who).lastAt = e.lastAt
           /\ \A n, op : UpsertOperator(e, n, op).miners = e.miners /\ UpsertOperator(e, n, op).lastAt = e.lastAt
           /\ \A a \in Nat : DebitPool(e, a).miners = e.miners - a /\ DebitPool(e, a).lastAt = e.lastAt
           /\ \A t \in Nat : RecordMinerPayout(e, t).miners = e.miners /\ RecordMinerPayout(e, t).lastAt = t
<1> USE DEF EconomyFiles
<1>1. ASSUME NEW p \in Nat PROVE AccrueProfitSplits(e, p).miners >= e.miners /\ AccrueProfitSplits(e, p).lastAt = e.lastAt
  <2>1. PICK a : a = Allocate(Splits, p)
    OBVIOUS
  <2>2. a.miners \in Nat
    BY <2>1, AllocateOk
  <2>3. AccrueProfitSplits(e, p) = [e EXCEPT !.miners = e.miners + a.miners, !.channels = e.channels + a.channels,
                                             !.infra = e.infra + a.infra, !.profit = e.profit + p]
    BY <2>1 DEF AccrueProfitSplits
  <2>4. AccrueProfitSplits(e, p).miners = e.miners + a.miners /\ AccrueProfitSplits(e, p).lastAt = e.lastAt
    BY <2>3
  <2> QED
    BY <2>2, <2>4
<1>2. ASSUME NEW who \in SUBSET Vault
      PROVE  AccrueGovernanceJob(e, who).miners >= e.miners /\ AccrueGovernanceJob(e, who).lastAt = e.lastAt
  <2>1. PICK b : b = BountySats(e.miners)
    OBVIOUS
  <2>2. b \in Nat
    BY <2>1, BountyOk
  <2>3. PICK k : k = [n \in Node |-> e.credits[n] + (IF n \in who \cap EligibleActive(e)
                                                     THEN EqualShares(b, who \cap EligibleActive(e))[n] ELSE 0)]
    OBVIOUS
  <2>4. AccrueGovernanceJob(e, who) = IF b = 0 THEN e ELSE [e EXCEPT !.credits = k, !.miners = e.miners + b, !.pending = e.pending + b]
    BY <2>1, <2>3 DEF AccrueGovernanceJob
  <2>5. CASE b = 0
    BY <2>4, <2>5
  <2>6. CASE b # 0
    <3>1. AccrueGovernanceJob(e, who) = [e EXCEPT !.credits = k, !.miners = e.miners + b, !.pending = e.pending + b]
      BY <2>4, <2>6
    <3>2. AccrueGovernanceJob(e, who).miners = e.miners + b /\ AccrueGovernanceJob(e, who).lastAt = e.lastAt
      BY <3>1
    <3> QED
      BY <2>2, <3>2
  <2> QED
    BY <2>5, <2>6
<1>3. ASSUME NEW n, NEW op PROVE UpsertOperator(e, n, op).miners = e.miners /\ UpsertOperator(e, n, op).lastAt = e.lastAt
  BY DEF UpsertOperator
<1>4. ASSUME NEW a \in Nat PROVE DebitPool(e, a).miners = e.miners - a /\ DebitPool(e, a).lastAt = e.lastAt
  BY DEF DebitPool
<1>5. ASSUME NEW t \in Nat PROVE RecordMinerPayout(e, t).miners = e.miners /\ RecordMinerPayout(e, t).lastAt = t
  BY DEF RecordMinerPayout
<1> QED
  BY <1>1, <1>2, <1>3, <1>4, <1>5

\* A rename follows the write of the same file.
LEMMA RenameAfterWrite ==
    ASSUME NEW op \in Operations, NEW i \in 1 .. Len(Program(op)), Program(op)[i][1] = "rename"
    PROVE  Program(op)[i - 1][1] = "write" /\ Program(op)[i - 1][2] = Program(op)[i][2]
<1>1. CASE op \in {"propose_epoch", "vote_epoch"}
  BY <1>1, ProposeProgram, VoteProgram, SMTT(60)
<1>2. CASE op \in {"propose_release", "rebuild_release", "upsert_miner"}
  BY <1>2, ReleaseProgram, RebuildProgram, UpsertProgram, SMTT(60)
<1>3. CASE op = "cosign_release"
  BY <1>3, CosignProgram, SMTT(60)
<1>4. CASE op = "activate_release"
  BY <1>4, ActivateProgram, SMTT(60)
<1>5. CASE op = "accrue_profit"
  BY <1>5, ProfitProgram, SMTT(60)
<1>6. CASE op = "propose_payouts"
  BY <1>6, PayoutProgram, SMTT(60)
<1> QED
  BY <1>1, <1>2, <1>3, <1>4, <1>5, <1>6 DEF Operations

\* Where a payout stands when it takes a step.
LEMMA PayStep ==
    ASSUME Typed, NEW w \in Worker, NEW s, At(w, s), Paying(call[w])
    PROVE  /\ call[w].pc \in 1 .. 10 /\ Len(Steps(w)) = 10
           /\ call[w].pc = 1 => s = "shares"
           /\ call[w].pc = 3 => s = "debit"
           /\ call[w].pc = 7 => s = "record"
           /\ call[w].pc = 10 => s = "rename"
           /\ s = "debit" => call[w].pc = 3
           /\ s = "record" => call[w].pc = 7
           /\ On(w) = "economy"
<1>1. call[w].req.op = "propose_payouts"
  BY DEF Paying
<1>2. call[w].pc \in 1 .. 10
  BY <1>1, AtStep, PayoutProgram
<1>3. /\ s = Program("propose_payouts")[call[w].pc][1] /\ On(w) = Program("propose_payouts")[call[w].pc][2]
      /\ Len(Steps(w)) = 10
  BY <1>1, PayoutProgram DEF At, On, Steps
<1> QED
  BY <1>2, <1>3, PayoutProgram, SMTT(60)

\* Who uses the economy is ahead in it.
LEMMA EconomyAhead ==
    ASSUME Typed, NEW w \in Worker
    PROVE  /\ Paying(call[w]) \/ Writing(call[w], "economy") \/ Renaming(call[w], "economy") => Ahead(call[w], "economy")
           /\ \A s : At(w, s) /\ On(w) = "economy" => Ahead(call[w], "economy")
<1>1. ASSUME call[w].req # None PROVE call[w].pc \in Nat /\ call[w].pc \in 1 .. Len(Program(call[w].req.op))
  BY <1>1 DEF Typed, CallsTyped, CallOk, CallSet
<1>2. ASSUME call[w].req # None, Program(call[w].req.op)[call[w].pc][2] = "economy" PROVE Ahead(call[w], "economy")
  <2>1. call[w].req.op \in Operations
    BY <1>2 DEF Typed, CallsTyped, CallOk
  <2>2. Len(Program(call[w].req.op)) \in Nat
    BY <2>1, ProposeProgram, VoteProgram, ReleaseProgram, RebuildProgram, CosignProgram, ActivateProgram,
       ProfitProgram, UpsertProgram, PayoutProgram DEF Operations
  <2>3. call[w].pc \in call[w].pc .. Len(Program(call[w].req.op))
    BY <1>1, <1>2, <2>2
  <2> QED
    BY <1>2, <2>3 DEF Ahead, Uses
<1>3. ASSUME Paying(call[w]) PROVE Ahead(call[w], "economy")
  <2>1. call[w].req # None /\ call[w].req.op = "propose_payouts"
    BY <1>3 DEF Paying
  <2>2. Len(Program("propose_payouts")) = 10 /\ Program("propose_payouts")[10][2] = "economy"
    BY PayoutProgram
  <2>3. call[w].pc \in 1 .. 10
    BY <1>1, <2>1, <2>2
  <2>4. 10 \in call[w].pc .. Len(Program("propose_payouts"))
    BY <2>2, <2>3
  <2> QED
    BY <2>1, <2>2, <2>4 DEF Ahead, Uses
<1> QED
  BY <1>2, <1>3 DEF Writing, Renaming, At, On, Steps

\* Nobody else is on its way through the economy.
LEMMA Alone ==
    ASSUME Typed, Apart, "economy" \notin raced, NEW w \in Worker, NEW s, At(w, s), On(w) = "economy", NEW u \in Worker, u # w
    PROVE  ~Paying(call[u]) /\ ~Writing(call[u], "economy") /\ ~Renaming(call[u], "economy")
<1>1. Ahead(call[w], "economy")
  BY EconomyAhead
<1>2. ~Ahead(call[u], "economy")
  BY <1>1 DEF Apart, Stores
<1> QED
  BY <1>2, EconomyAhead

\* A request comes to a rename from the write.
LEMMA RenamesNext ==
    ASSUME Typed, NEW w \in Worker, NEW s, At(w, s), NEW d, Moved(w, d), NEW f, Renaming(d, f)
    PROVE  s = "write" /\ On(w) = f
<1>1. /\ d.req # None /\ d.req = call[w].req /\ d.pc = call[w].pc + 1 /\ d.req.op \in Operations
      /\ d.pc \in 1 .. Len(Program(d.req.op)) /\ call[w].pc \in Nat
  BY DEF Renaming, Moved, CallOk, Typed, CallsTyped, CallSet
<1>2. Program(d.req.op)[d.pc - 1][1] = "write" /\ Program(d.req.op)[d.pc - 1][2] = f
  BY <1>1, RenameAfterWrite DEF Renaming
<1>3. d.pc - 1 = call[w].pc
  BY <1>1
<1> QED
  BY <1>1, <1>2, <1>3 DEF At, On, Steps

\* A request that is no payout and does not touch the file owes nothing.
LEMMA OwesNothing ==
    ASSUME NEW d, ~Paying(d), ~Writing(d, "economy"), ~Renaming(d, "economy")
    PROVE  Owed(d)' /\ Current(d)'
  BY DEF Owed, Current, Paying, Writing, Renaming

\* An idle worker owes nothing.
LEMMA IdleOwesNothing == ~Paying(Idle) /\ ~Writing(Idle, "economy") /\ ~Renaming(Idle, "economy")
  BY IdleOk DEF Paying, Writing, Renaming

\* The numbers the payouts are about.
LEMMA PurseTypes ==
    ASSUME Typed
    PROVE  /\ eco \in EconomyFiles /\ eco.miners \in Nat /\ eco.lastAt \in Nat \cup {-1}
           /\ disk["economy"] \in EconomyFiles /\ disk["economy"].miners \in Nat /\ disk["economy"].lastAt \in Nat \cup {-1}
           /\ hist.earned \in Int /\ hist.paid \in Nat /\ hist.at \in Seq(Nat) /\ now \in Nat
           /\ Len(hist.at) > 0 => LastPaid \in Nat
<1>1. StoresTyped /\ hist \in HistSet /\ eco \in EconomyFiles /\ disk["economy"] \in EconomyFiles /\ now \in Nat
  BY DEF Typed, StoresTyped, Files
<1>2. hist.at \in Seq(Nat) /\ hist.earned \in Int /\ hist.paid \in Nat
  BY <1>1, HistFields
<1>3. Len(hist.at) > 0 => LastPaid \in Nat
  BY <1>2 DEF LastPaid
<1> QED
  BY <1>1, <1>2, <1>3 DEF EconomyFiles

\* The other requests, when w uses the economy or nothing of it changes.
LEMMA PayOthers ==
    ASSUME Typed, Apart, "economy" \notin raced, PayOk, NEW w \in Worker, NEW s, At(w, s), NEW d, Moved(w, d),
           \/ On(w) = "economy"
           \/ eco' = eco /\ tmp'["economy"] = tmp["economy"] /\ SamePurse,
           NEW u \in Worker, u # w
    PROVE  (Owed(call[u]) /\ Current(call[u]))'
<1>1. call'[u] = call[u]
  BY MovedCalls
<1>2. CASE On(w) = "economy"
  <2>1. ~Paying(call[u]) /\ ~Writing(call[u], "economy") /\ ~Renaming(call[u], "economy")
    BY <1>2, Alone
  <2> QED
    BY <1>1, <2>1 DEF Owed, Current, Paying, Writing, Renaming
<1>3. CASE eco' = eco /\ tmp'["economy"] = tmp["economy"] /\ SamePurse
  <2>1. Owed(call[u]) /\ Current(call[u])
    BY DEF PayOk
  <2> QED
    BY <1>1, <1>3, <2>1 DEF Owed, Current, Paying, Writing, Renaming, SamePurse, LastPaid
<1> QED
  BY <1>2, <1>3

\* The request itself, at a step that leaves pool and history alone.
LEMMA PayGoesOn ==
    ASSUME Typed, PayOk, NEW w \in Worker, NEW s, At(w, s), s \notin {"debit", "record"}, NEW d, Moved(w, d),
           eco' = eco, SamePurse, Renaming(d, "economy") => tmp'["economy"] \in {eco, None}
    PROVE  Owed(d)' /\ Current(d)'
<1>1. Owed(call[w])
  BY DEF PayOk
<1>2. Owed(d)'
  <2>1. SUFFICES ASSUME Paying(d) PROVE Owed(d)'
    BY DEF Owed, Paying
  <2>2. /\ Paying(call[w]) /\ d.req = call[w].req /\ d.pc = call[w].pc + 1 /\ d.at = call[w].at
    BY <2>1 DEF Paying, Moved
  <2>3. call[w].pc \in 1 .. 10 /\ call[w].pc # 3 /\ call[w].pc # 7
    BY <2>2, PayStep
  <2>4. (d.pc > 3 => call[w].pc > 3) /\ (d.pc > 7 => call[w].pc > 7)
    BY <2>2, <2>3
  <2> QED
    BY <1>1, <2>2, <2>4 DEF Owed, SamePurse, LastPaid
<1>3. Current(d)'
  <2>1. Writing(d, "economy") => d.snap = eco
    BY DEF Moved, File, Content
  <2> QED
    BY <2>1 DEF Current, Writing, Renaming
<1> QED
  BY <1>2, <1>3

\* Nothing of the economy changes.
LEMMA PayQuiet ==
    ASSUME Typed, Apart, "economy" \notin raced, PayOk, NEW w \in Worker, NEW s, At(w, s), s \notin {"debit", "record"},
           NEW d, Moved(w, d), ~Renaming(d, "economy"),
           eco' = eco, disk'["economy"] = disk["economy"], tmp'["economy"] = tmp["economy"], SamePurse
    PROVE  PayOk'
<1>1. PurseOk'
  BY DEF PayOk, PurseOk, SamePurse, LastPaid
<1>2. Owed(d)' /\ Current(d)'
  BY PayGoesOn
<1>3. call'[w] = d
  BY MovedCalls
<1>4. (Owed(call[w]) /\ Current(call[w]))'
  BY <1>2, <1>3 DEF Owed, Current, Paying, Writing, Renaming
<1>5. \A u \in Worker : u # w => (Owed(call[u]) /\ Current(call[u]))'
  BY PayOthers
<1> QED
  BY <1>1, <1>4, <1>5 DEF PayOk

\* A step of the economy: the pool and the request that changed it.
LEMMA PayChanges ==
    ASSUME Typed, Apart, "economy" \notin raced, PayOk, NEW w \in Worker, NEW s, At(w, s), On(w) = "economy",
           NEW d, Moved(w, d), PurseOk', Owed(d)' /\ Current(d)'
    PROVE  PayOk'
<1>1. call'[w] = d
  BY MovedCalls
<1>2. (Owed(call[w]) /\ Current(call[w]))'
  BY <1>1 DEF Owed, Current, Paying, Writing, Renaming
<1>3. \A u \in Worker : u # w => (Owed(call[u]) /\ Current(call[u]))'
  BY PayOthers
<1> QED
  BY <1>2, <1>3 DEF PayOk

\* Neither a write nor a rename is next.
LEMMA NoFileNext ==
    ASSUME Typed, NEW w \in Worker, NEW s, At(w, s), s \notin {"clone", "write"}, NEW d, Moved(w, d)
    PROVE  ~Writing(d, "economy") /\ ~Renaming(d, "economy")
<1>1. ~Renaming(d, "economy")
  BY RenamesNext
<1>2. ~At(w, "clone")
  BY DEF At
<1> QED
  BY <1>1, <1>2 DEF Moved, File

\* Profit and bounties: the pool grows by what is earned.
LEMMA PayEarns ==
    ASSUME Typed, Apart, "economy" \notin raced, PayOk, NEW w \in Worker, NEW s, At(w, s), On(w) = "economy",
           s \notin {"clone", "write"}, call[w].req.op # "propose_payouts",
           NEW e \in EconomyFiles, e.miners >= eco.miners, e.lastAt = eco.lastAt,
           Earn(w, e), NEW d, Moved(w, d)
    PROVE  PayOk'
<1>1. PICK n : n = hist.earned + e.miners - eco.miners
  OBVIOUS
<1>2. hist' = [hist EXCEPT !.earned = n] /\ eco' = e /\ disk' = disk
  BY <1>1 DEF Earn, Change
<1>3. hist'.earned = n /\ hist'.paid = hist.paid /\ hist'.at = hist.at
  BY <1>2 DEF Typed, StoresTyped, HistSet
<1>4. e.miners \in Nat
  BY DEF EconomyFiles
<1>5. PurseOk'
  <2>1. PurseOk
    BY DEF PayOk
  <2>2. /\ eco'.miners + hist'.paid <= hist'.earned
        /\ disk'["economy"].miners + hist'.paid <= hist'.earned
    BY <1>1, <1>2, <1>3, <1>4, <2>1, PurseTypes DEF PurseOk
  <2> QED
    BY <1>2, <1>3, <2>1, <2>2 DEF PurseOk, LastPaid
<1>6. ~Paying(d)
  BY DEF Paying, Moved
<1>7. Owed(d)' /\ Current(d)'
  BY <1>6, NoFileNext, OwesNothing
<1> QED
  BY <1>5, <1>7, PayChanges

\* A bounty and a profit are earned; nothing happens when there is no bounty.
LEMMA PayAccrues ==
    ASSUME Typed, Apart, "economy" \notin raced, PayOk, NEW w \in Worker, AccrueGovernance(w) \/ AccrueProfit(w)
    PROVE  PayOk'
<1>1. PICK d : Moved(w, d)
  BY Moves DEF Step
<1>2. CASE AccrueGovernance(w)
  <2>1. At(w, "accrue_governance")
    BY <1>2 DEF AccrueGovernance
  <2>2. /\ call[w].who \in SUBSET Vault /\ On(w) = "economy" /\ call[w].req.op # "propose_payouts"
    BY <2>1, AtStep DEF CallSet, Placed
  <2>3. PICK e : e = AccrueGovernanceJob(eco, call[w].who)
    OBVIOUS
  <2>4. e \in EconomyFiles /\ e.miners >= eco.miners /\ e.lastAt = eco.lastAt
    BY <2>2, <2>3, PurseTypes, EconomyOk, EconomyAmounts
  <2>5. CASE Earn(w, e)
    BY <1>1, <2>1, <2>2, <2>4, <2>5, PayEarns
  <2>6. CASE Fail(w) /\ Change(w, eco) /\ UNCHANGED hist
    <3>1. PICK b : Moved(w, b) /\ b = Idle
      BY <2>6, FailMoves
    <3>2. eco' = eco /\ disk' = disk /\ tmp' = tmp /\ SamePurse
      BY <2>6 DEF Change, SamePurse
    <3> QED
      BY <2>1, <3>1, <3>2, IdleOwesNothing, PayQuiet
  <2> QED
    BY <1>2, <2>3, <2>5, <2>6 DEF AccrueGovernance
<1>3. CASE AccrueProfit(w)
  <2>1. At(w, "accrue_profit") /\ Earn(w, AccrueProfitSplits(eco, call[w].req.amount))
    BY <1>3 DEF AccrueProfit
  <2>2. /\ call[w].req.amount \in Nat /\ On(w) = "economy" /\ call[w].req.op # "propose_payouts"
    BY <2>1, AtStep DEF Placed, IsRequest
  <2>3. PICK e : e = AccrueProfitSplits(eco, call[w].req.amount)
    OBVIOUS
  <2>4. e \in EconomyFiles /\ e.miners >= eco.miners /\ e.lastAt = eco.lastAt
    BY <2>2, <2>3, PurseTypes, EconomyOk, EconomyAmounts
  <2> QED
    BY <1>1, <2>1, <2>2, <2>3, <2>4, PayEarns
<1> QED
  BY <1>2, <1>3

\* An operator is registered: neither the pool nor the time changes.
LEMMA PayUpserts ==
    ASSUME Typed, Apart, "economy" \notin raced, PayOk, NEW w \in Worker, Upsert(w)
    PROVE  PayOk'
<1>1. PICK d : Moved(w, d)
  BY Moves DEF Step
<1>2. At(w, "upsert") /\ eco' = UpsertOperator(eco, call[w].req.by, call[w].req.miner) /\ disk' = disk /\ hist' = hist
  BY DEF Upsert, Change
<1>3. On(w) = "economy" /\ call[w].req.op = "upsert_miner"
  BY <1>2, AtStep DEF Placed
<1>4. eco'.miners = eco.miners /\ eco'.lastAt = eco.lastAt
  <2>1. eco \in EconomyFiles
    BY PurseTypes
  <2>2. \A n, op : UpsertOperator(eco, n, op).miners = eco.miners /\ UpsertOperator(eco, n, op).lastAt = eco.lastAt
    BY <2>1, EconomyAmounts
  <2> QED
    BY <1>2, <2>2
<1>5. PurseOk'
  BY <1>2, <1>4 DEF PayOk, PurseOk, LastPaid
<1>6. ~Paying(d)
  BY <1>1, <1>3 DEF Paying, Moved
<1>7. Owed(d)' /\ Current(d)'
  BY <1>1, <1>2, <1>6, NoFileNext, OwesNothing
<1> QED
  BY <1>1, <1>2, <1>3, <1>5, <1>7, PayChanges

\* The shares and the check of the destinations change nothing.
LEMMA PayChecks ==
    ASSUME Typed, Apart, "economy" \notin raced, PayOk, NEW w \in Worker, Shares(w) \/ AssertIntents(w)
    PROVE  PayOk'
<1>1. PICK d : Moved(w, d)
  BY Moves DEF Step
<1>2. PICK s \in {"shares", "assert"} : At(w, s)
  BY Zenon DEF Shares, AssertIntents
<1>3. UNCHANGED <<todo, now, hash, memory, disk, tmp, hist, raced, refused, faults>>
  BY DEF Shares, AssertIntents, Check
<1>4. eco' = eco /\ disk' = disk /\ tmp' = tmp /\ SamePurse
  BY <1>3 DEF memory, SamePurse
<1>5. ~Renaming(d, "economy")
  BY <1>1, <1>2, NoFileNext
<1> QED
  BY <1>1, <1>2, <1>4, <1>5, PayQuiet

\* A payout takes its amount from the pool and owes it.
LEMMA PayDebits ==
    ASSUME Typed, Apart, "economy" \notin raced, PayOk, NEW w \in Worker, Debit(w)
    PROVE  PayOk'
<1> DEFINE amount == call[w].req.amount
<1>1. At(w, "debit") /\ hist' = hist
  BY DEF Debit
<1>2. On(w) = "economy" /\ call[w].req.op = "propose_payouts" /\ call[w].pc = 3 /\ call[w].req # None /\ amount \in Nat
  BY <1>1, AtStep DEF Placed, IsRequest
<1>3. CASE CanDebit(eco, amount) /\ Change(w, DebitPool(eco, amount)) /\ Proceed(w, call[w])
  <2>1. PICK d : Moved(w, d)
    BY Moves DEF Step
  <2>2. eco' = DebitPool(eco, amount) /\ disk' = disk
    BY <1>3 DEF Change
  <2>3. eco'.miners = eco.miners - amount /\ eco'.lastAt = eco.lastAt
    BY <1>2, <2>2, PurseTypes, EconomyAmounts
  <2>4. PurseOk
    BY DEF PayOk
  <2>5. /\ eco'.miners + hist'.paid <= hist'.earned
        /\ eco'.miners + hist'.paid + amount <= hist'.earned
    BY <1>1, <1>2, <2>3, <2>4, PurseTypes DEF PurseOk
  <2>6. PurseOk'
    BY <1>1, <2>2, <2>3, <2>4, <2>5 DEF PurseOk, LastPaid
  <2>7. ~Writing(d, "economy") /\ ~Renaming(d, "economy")
    BY <1>1, <2>1, NoFileNext
  <2>8. Owed(d)'
    <3>1. SUFFICES ASSUME Paying(d) PROVE Owed(d)'
      BY DEF Owed, Paying
    <3>2. d.req = call[w].req /\ d.pc = 4 /\ d.at = call[w].at /\ Paying(call[w])
      BY <1>2, <2>1, <3>1 DEF Moved, Paying
    <3>3. Owed(call[w])
      BY DEF PayOk
    <3> QED
      BY <1>1, <2>5, <3>2, <3>3 DEF Owed, LastPaid
  <2>9. Current(d)'
    BY <2>7 DEF Current, Writing, Renaming
  <2> QED
    BY <1>1, <1>2, <2>1, <2>6, <2>8, <2>9, PayChanges
<1>4. CASE ~CanDebit(eco, amount) /\ Change(w, eco) /\ Fail(w)
  <2>1. PICK b : Moved(w, b) /\ b = Idle
    BY <1>4, FailMoves
  <2>2. eco' = eco /\ disk' = disk
    BY <1>4 DEF Change
  <2>3. PurseOk'
    BY <1>1, <2>2 DEF PayOk, PurseOk, LastPaid
  <2>4. Owed(b)' /\ Current(b)'
    BY <2>1, IdleOwesNothing, OwesNothing
  <2> QED
    BY <1>1, <1>2, <2>1, <2>3, <2>4, PayChanges
<1> QED
  BY <1>3, <1>4 DEF Debit

\* A payout becomes the last one.
LEMMA PayRecords ==
    ASSUME Typed, Apart, "economy" \notin raced, PayOk, NEW w \in Worker, Record(w)
    PROVE  PayOk'
<1>1. At(w, "record") /\ hist' = hist /\ eco' = RecordMinerPayout(eco, call[w].at) /\ disk' = disk
  BY DEF Record, Change
<1>2. /\ On(w) = "economy" /\ Paying(call[w]) /\ call[w].pc = 7 /\ call[w].at \in Nat
  BY <1>1, AtStep DEF Placed, Paying, CallSet
<1>3. PICK d : Moved(w, d)
  BY Moves DEF Step
<1>4. eco'.miners = eco.miners /\ eco'.lastAt = call[w].at
  BY <1>1, <1>2, PurseTypes, EconomyAmounts
<1>5. PurseOk /\ Owed(call[w])
  BY DEF PayOk
<1>6. Gated /\ Len(hist.at) > 0 => call[w].at > LastPaid
  BY <1>2, <1>5 DEF Owed
<1>7. Gated /\ Len(hist.at) > 0 => call[w].at >= LastPaid
  BY <1>2, <1>6, PurseTypes
<1>8. PurseOk'
  BY <1>1, <1>4, <1>5, <1>7 DEF PurseOk, LastPaid
<1>9. Owed(d)'
  <2>1. SUFFICES ASSUME Paying(d) PROVE Owed(d)'
    BY DEF Owed, Paying
  <2>2. d.req = call[w].req /\ d.pc = 8 /\ d.at = call[w].at
    BY <1>2, <1>3, <2>1 DEF Moved, Paying
  <2>3. eco.miners + hist.paid + call[w].req.amount <= hist.earned
    BY <1>2, <1>5 DEF Owed
  <2> QED
    BY <1>1, <1>4, <1>6, <2>2, <2>3 DEF Owed, LastPaid
<1>10. Current(d)'
  <2>1. ~Writing(d, "economy") /\ ~Renaming(d, "economy")
    BY <1>1, <1>3, NoFileNext
  <2> QED
    BY <2>1 DEF Current, Writing, Renaming
<1> QED
  BY <1>1, <1>2, <1>3, <1>8, <1>9, <1>10, PayChanges

\* The files of the economy.
LEMMA PayFiles ==
    ASSUME Typed, Apart, "economy" \notin raced, PayOk, NEW w \in Worker, Clone(w) \/ WriteTmp(w) \/ Rename(w) \/ WriteFails(w)
    PROVE  PayOk'
<1>0. StoresTyped /\ hist \in HistSet
  BY DEF Typed, StoresTyped
<1>1. PICK d : Moved(w, d)
  BY Moves DEF Step
<1>2. eco' = eco
  BY FileTypes
<1>t. DOMAIN tmp = File /\ DOMAIN disk = File /\ "economy" \in File
  <2>1. DOMAIN disk = File
    BY <1>0 DEF StoresTyped, Files, File
  <2> QED
    BY <1>0, <2>1 DEF StoresTyped, File
<1>o. Owed(call[w]) /\ Current(call[w]) /\ PurseOk
  BY DEF PayOk
<1>3. CASE Clone(w)
  <2>1. At(w, "clone") /\ disk' = disk /\ tmp' = tmp /\ SamePurse
    BY <1>3 DEF Clone, SamePurse
  <2>2. ~Renaming(d, "economy")
    BY <1>1, <2>1, RenamesNext
  <2> QED
    BY <1>1, <1>2, <2>1, <2>2, PayQuiet
<1>4. CASE WriteFails(w)
  <2>1. At(w, "write") /\ disk' = disk /\ tmp' = tmp /\ SamePurse /\ Fail(w)
    BY <1>4 DEF WriteFails, SamePurse
  <2>2. PICK b : Moved(w, b) /\ b = Idle
    BY <2>1, FailMoves
  <2> QED
    BY <1>2, <2>1, <2>2, IdleOwesNothing, PayQuiet
<1>5. CASE WriteTmp(w)
  <2>1. At(w, "write") /\ disk' = disk /\ tmp' = [tmp EXCEPT ![On(w)] = call[w].snap] /\ SamePurse
    BY <1>5 DEF WriteTmp, SamePurse
  <2>2. On(w) \in File
    BY <2>1, AtStep DEF Placed
  <2>3. CASE On(w) # "economy"
    <3>1. tmp'["economy"] = tmp["economy"]
      BY <1>t, <2>1, <2>2, <2>3
    <3>2. ~Renaming(d, "economy")
      BY <1>1, <2>1, <2>3, RenamesNext
    <3> QED
      BY <1>1, <1>2, <2>1, <3>1, <3>2, PayQuiet
  <2>4. CASE On(w) = "economy"
    <3>1. Writing(call[w], "economy")
      BY <2>1, <2>4 DEF At, On, Steps, Writing
    <3>2. tmp'["economy"] = eco
      BY <1>o, <1>t, <2>1, <2>4, <3>1 DEF Current
    <3>3. Owed(d)' /\ Current(d)'
      BY <1>1, <1>2, <2>1, <3>2, PayGoesOn
    <3>4. PurseOk'
      BY <1>2, <1>o, <2>1 DEF PurseOk, LastPaid, SamePurse
    <3> QED
      BY <1>1, <2>1, <2>4, <3>3, <3>4, PayChanges
  <2> QED
    BY <2>3, <2>4
<1>6. CASE Rename(w)
  <2>1. PICK f : f = On(w)
    OBVIOUS
  <2>2. At(w, "rename") /\ f \in File
    BY <1>6, <2>1, AtStep DEF Rename, Placed
  <2>3. ~Writing(d, "economy") /\ ~Renaming(d, "economy")
    BY <1>1, <2>2, NoFileNext
  <2>4. CASE tmp[f] = None
    <3>1. disk' = disk /\ tmp' = tmp /\ SamePurse
      BY <1>6, <2>1, <2>4 DEF Rename, SamePurse
    <3> QED
      BY <1>1, <1>2, <2>2, <2>3, <3>1, PayQuiet
  <2>5. CASE tmp[f] # None
    <3>1. disk' = [disk EXCEPT ![f] = tmp[f]] /\ tmp' = [tmp EXCEPT ![f] = None] /\ hist' = Answered(w, hist)
          /\ Proceed(w, call[w])
      BY <1>6, <2>1, <2>5 DEF Rename
    <3>2. CASE f = "release"
      <4>1. disk'["economy"] = disk["economy"] /\ tmp'["economy"] = tmp["economy"]
        BY <1>t, <3>1, <3>2
      <4>2. ~Paying(call[w])
        BY <2>1, <2>2, <3>2, PayStep
      <4>3. SamePurse
        BY <2>2, <3>1, <4>2 DEF Answered, Paying, SamePurse, At
      <4> QED
        BY <1>1, <1>2, <2>2, <2>3, <4>1, <4>3, PayQuiet
    <3>3. CASE f = "economy"
      <4>1. disk'["economy"] = eco
        <5>1. Renaming(call[w], "economy")
          BY <2>1, <2>2, <3>3 DEF At, On, Steps, Renaming
        <5> QED
          BY <1>o, <1>t, <2>5, <3>1, <3>3, <5>1 DEF Current
      <4>2. CASE ~(call[w].req.op = "propose_payouts" /\ call[w].pc = Len(Steps(w)))
        <5>1. SamePurse
          BY <3>1, <4>2 DEF Answered, SamePurse
        <5>2. PurseOk'
          BY <1>2, <1>o, <4>1, <5>1 DEF PurseOk, LastPaid, SamePurse
        <5>3. Owed(d)' /\ Current(d)'
          BY <1>1, <1>2, <2>2, <2>3, <5>1, PayGoesOn
        <5> QED
          BY <1>1, <2>1, <2>2, <3>3, <5>2, <5>3, PayChanges
      <4>3. CASE call[w].req.op = "propose_payouts" /\ call[w].pc = Len(Steps(w))
        <5>1. Paying(call[w]) /\ call[w] \in CallSet /\ IsRequest(call[w].req)
          BY <2>2, <4>3, AtStep DEF Paying
        <5>2. call[w].pc = 10 /\ call[w].req.amount \in Nat /\ call[w].at \in Nat
          BY <2>2, <4>3, <5>1, PayStep DEF CallSet, IsRequest
        <5>3. PICK p : p = hist.paid + call[w].req.amount
          OBVIOUS
        <5>4. PICK a : a = hist.at \o <<call[w].at>>
          OBVIOUS
        <5>5. hist' = [hist EXCEPT !.paid = p, !.at = a, !.shares = call[w].pay]
          BY <3>1, <4>3, <5>3, <5>4 DEF Answered
        <5>6. hist'.paid = p /\ hist'.at = a /\ hist'.earned = hist.earned
          BY <1>0, <5>5 DEF HistSet
        <5>7. PurseOk'
          <6>1. eco.miners + hist.paid + call[w].req.amount <= hist.earned
            BY <1>o, <5>1, <5>2 DEF Owed
          <6>2. eco.miners + p <= hist.earned
            BY <5>2, <5>3, <6>1, PurseTypes
          <6>3. ASSUME Gated PROVE /\ \A i \in 1 .. Len(a) - 1 : a[i + 1] - a[i] >= 1
                                   /\ eco.lastAt >= a[Len(a)]
            <7>1. /\ Len(a) = Len(hist.at) + 1 /\ Len(hist.at) \in Nat /\ a[Len(a)] = call[w].at
                  /\ \A i \in 1 .. Len(hist.at) : a[i] = hist.at[i]
              BY <5>2, <5>4, PurseTypes
            <7>2. eco.lastAt = call[w].at
              BY <1>o, <5>1, <5>2, <6>3 DEF Owed
            <7>3. Len(hist.at) > 0 => call[w].at - hist.at[Len(hist.at)] >= 1
              BY <1>o, <5>1, <5>2, <6>3, PurseTypes DEF Owed, LastPaid
            <7>4. ASSUME NEW i \in 1 .. Len(a) - 1 PROVE a[i + 1] - a[i] >= 1
              <8>1. CASE i = Len(hist.at)
                BY <7>1, <7>3, <8>1
              <8>2. CASE i # Len(hist.at)
                <9>1. i \in 1 .. Len(hist.at) - 1 /\ i \in 1 .. Len(hist.at) /\ i + 1 \in 1 .. Len(hist.at)
                  BY <7>1, <8>2
                <9>2. hist.at[i + 1] - hist.at[i] >= 1
                  BY <1>o, <6>3, <9>1 DEF PurseOk
                <9> QED
                  BY <7>1, <9>1, <9>2
              <8> QED
                BY <8>1, <8>2
            <7> QED
              BY <5>2, <7>1, <7>2, <7>4
          <6> QED
            BY <1>2, <4>1, <5>6, <6>2, <6>3 DEF PurseOk, LastPaid
        <5>8. Moved(w, Idle)
          <6>1. Fail(w)
            BY <3>1, <4>3 DEF Fail, Proceed
          <6> QED
            BY <6>1, FailMoves
        <5>9. Owed(Idle)' /\ Current(Idle)'
          BY IdleOwesNothing, OwesNothing
        <5> QED
          BY <2>1, <2>2, <3>3, <5>7, <5>8, <5>9, PayChanges
      <4> QED
        BY <4>2, <4>3
    <3> QED
      BY <2>2, <3>2, <3>3 DEF File
  <2> QED
    BY <2>4, <2>5
<1> QED
  BY <1>3, <1>4, <1>5, <1>6

\* The ledger and the release mesh leave the history of the economy alone.
LEMMA PurseElsewhere ==
    ASSUME Typed, NEW w \in Worker,
           \/ PutProposal(w) \/ SaveVote(w) \/ ReadHead(w) \/ LedgerAppend(w) \/ Close(w) \/ AdvanceEpoch(w)
           \/ PutCandidate(w) \/ SaveCandidate(w) \/ PutAllowlist(w)
    PROVE  SamePurse
<1>0. hist \in HistSet
  BY DEF Typed, StoresTyped
<1>1. CASE PutProposal(w) \/ SaveVote(w)
  <2>1. call[w].req # None /\ call[w].req.op \in {"propose_epoch", "vote_epoch"} /\ call[w] \in CallSet /\ CallOk(call[w])
    BY <1>1, AtStep DEF PutProposal, SaveVote, Placed, Typed, CallsTyped
  <2>2. call[w].req.on \in Proposal /\ call[w].req.by \in Vault
    BY <2>1, EpochCall
  <2>3. /\ hist.votes[call[w].req.on] \cup {call[w].req.by} \in SUBSET Vault
        /\ {call[w].req.by} \in SUBSET Vault
    BY <1>0, <2>2, HistFields
  <2>4. \/ hist' = [hist EXCEPT !.votes[call[w].req.on] = hist.votes[call[w].req.on] \cup {call[w].req.by}]
        \/ hist' = [hist EXCEPT !.votes[call[w].req.on] = {call[w].req.by}]
        \/ hist' = hist
    BY <1>1 DEF PutProposal, SaveVote
  <2>5. CASE hist' = hist
    BY <2>5 DEF SamePurse
  <2>6. CASE hist' # hist
    BY <1>0, <2>2, <2>3, <2>4, <2>6, HistVote
  <2> QED
    BY <2>5, <2>6
<1>2. CASE SaveCandidate(w)
  <2>1. call[w].req.op \in Saves /\ call[w].req # None /\ IsRequest(call[w].req)
    BY <1>2, AtStep DEF SaveCandidate, Placed
  <2>2. call[w].req.on \in Release /\ call[w].req.by \in Vault
    BY <2>1 DEF IsRequest, Saves
  <2>3. \/ hist' = [hist EXCEPT !.rebuilds[call[w].req.on] = hist.rebuilds[call[w].req.on] \cup {call[w].req.by}]
        \/ hist' = [hist EXCEPT !.cosigns[call[w].req.on] = hist.cosigns[call[w].req.on] \cup {call[w].req.by}]
        \/ hist' = hist
    BY <1>2, <2>1 DEF SaveCandidate, Saves
  <2>4. CASE hist' = hist
    BY <2>4 DEF SamePurse
  <2>5. CASE hist' # hist
    <3>1. /\ hist.rebuilds[call[w].req.on] \cup {call[w].req.by} \in SUBSET Vault
          /\ hist.cosigns[call[w].req.on] \cup {call[w].req.by} \in SUBSET Vault
      BY <1>0, <2>2, HistFields
    <3> QED
      BY <1>0, <2>2, <2>3, <2>5, <3>1, HistSave
  <2> QED
    BY <2>4, <2>5
<1>3. CASE ReadHead(w) \/ LedgerAppend(w) \/ Close(w) \/ AdvanceEpoch(w) \/ PutCandidate(w) \/ PutAllowlist(w)
  BY <1>3 DEF ReadHead, LedgerAppend, Close, AdvanceEpoch, PutCandidate, PutAllowlist, SamePurse
<1> QED
  BY <1>1, <1>2, <1>3

\* The ledger and the release mesh leave the economy alone.
LEMMA PayElsewhere ==
    ASSUME Typed, Apart, "economy" \notin raced, PayOk, NEW w \in Worker,
           \/ PutProposal(w) \/ SaveVote(w) \/ ReadHead(w) \/ LedgerAppend(w) \/ Close(w) \/ AdvanceEpoch(w)
           \/ PutCandidate(w) \/ SaveCandidate(w) \/ PutAllowlist(w)
    PROVE  PayOk'
<1>1. PICK d : Moved(w, d)
  BY Moves DEF Step
<1>2. PICK s \in {"put_proposal", "save_vote", "head", "append", "close", "set_epoch", "put_candidate", "save_candidate",
                  "put_allowlist"} : At(w, s)
  <2>1. CASE PutProposal(w) \/ SaveVote(w) \/ ReadHead(w) \/ LedgerAppend(w) \/ Close(w) \/ AdvanceEpoch(w)
    BY <2>1, Zenon DEF PutProposal, SaveVote, ReadHead, LedgerAppend, Close, AdvanceEpoch
  <2>2. CASE PutCandidate(w) \/ SaveCandidate(w) \/ PutAllowlist(w)
    BY <2>2, Zenon DEF PutCandidate, SaveCandidate, PutAllowlist
  <2> QED
    BY <2>1, <2>2
<1>3. ~Renaming(d, "economy")
  BY <1>1, <1>2, NoFileNext
<1>4. eco' = eco /\ disk' = disk /\ tmp' = tmp
  <2>1. CASE PutProposal(w) \/ SaveVote(w) \/ ReadHead(w) \/ LedgerAppend(w) \/ Close(w) \/ AdvanceEpoch(w)
    BY <2>1 DEF PutProposal, SaveVote, ReadHead, LedgerAppend, Close, AdvanceEpoch, memory
  <2>2. CASE PutCandidate(w) \/ SaveCandidate(w) \/ PutAllowlist(w)
    BY <2>2 DEF PutCandidate, SaveCandidate, PutAllowlist
  <2> QED
    BY <2>1, <2>2
<1>5. SamePurse
  BY PurseElsewhere
<1> QED
  BY <1>1, <1>2, <1>3, <1>4, <1>5, PayQuiet

\* No request starts with a rename.
LEMMA NoRenameFirst ==
    ASSUME NEW op \in Operations
    PROVE  Program(op)[1][1] # "rename"
<1>1. CASE op \in {"propose_epoch", "vote_epoch", "propose_release", "rebuild_release"}
  BY <1>1, ProposeProgram, VoteProgram, ReleaseProgram, RebuildProgram
<1>2. CASE op \in {"cosign_release", "activate_release"}
  BY <1>2, CosignProgram, ActivateProgram
<1>3. CASE op \in {"accrue_profit", "upsert_miner", "propose_payouts"}
  BY <1>3, ProfitProgram, UpsertProgram, PayoutProgram
<1> QED
  BY <1>1, <1>2, <1>3 DEF Operations

\* The gate lets a payout start on a later day than the last one that was recorded.
LEMMA GateOpens ==
    ASSUME Typed, Gated, AssertPayoutCadenceOk(eco, now), PurseOk, Len(hist.at) > 0
    PROVE  now > LastPaid
<1>1. eco.lastAt >= LastPaid /\ LastPaid \in Nat /\ eco.lastAt \in Nat \cup {-1} /\ now \in Nat
  BY PurseTypes DEF PurseOk
<1>2. now - eco.lastAt >= 1 \/ eco.lastAt < 0
  <2>1. CASE Cadence = "daily"
    BY <2>1 DEF AssertPayoutCadenceOk
  <2>2. CASE Cadence = "weekly"
    <3>1. eco.lastAt < 0 \/ now - eco.lastAt >= 7
      BY <2>2 DEF AssertPayoutCadenceOk
    <3> QED
      BY <1>1, <3>1
  <2>3. CASE Cadence = "epoch"
    BY <2>3 DEF AssertPayoutCadenceOk
  <2> QED
    BY <2>1, <2>2, <2>3 DEF Gated
<1> QED
  BY <1>1, <1>2

\* A payout that is taken up is later than the last one.
LEMMA PayBegins ==
    ASSUME Typed, "economy" \notin raced, PayOk, NEW w \in Worker, Request(w)
    PROVE  PayOk'
<1>a. PICK r \in todo : \E d : Taken(w, r, d) /\ (r.op = "propose_payouts" => AssertPayoutCadenceOk(eco, now) /\ d.at = now)
  BY Begins
<1>1. PICK d : Taken(w, r, d) /\ (r.op = "propose_payouts" => AssertPayoutCadenceOk(eco, now) /\ d.at = now)
  BY <1>a
<1>2. eco' = eco /\ disk' = disk /\ tmp' = tmp /\ hist' = hist /\ d.req = r /\ d.pc = 1 /\ r.op \in Operations
  BY <1>1 DEF Taken
<1>3. call'[w] = d /\ \A u \in Worker : u # w => call'[u] = call[u]
  BY <1>1, TypedTaken
<1>4. PurseOk /\ PurseOk'
  BY <1>2 DEF PayOk, PurseOk, LastPaid
<1>5. Owed(d)'
  <2>1. SUFFICES ASSUME Paying(d) PROVE Owed(d)'
    BY DEF Owed, Paying
  <2>2. Gated /\ Len(hist.at) > 0 => d.at > LastPaid
    BY <1>1, <1>2, <1>4, <2>1, GateOpens DEF Paying
  <2> QED
    BY <1>2, <2>2 DEF Owed, LastPaid
<1>6. Current(d)'
  <2>1. ~Writing(d, "economy")
    BY <1>1 DEF Taken, File
  <2>2. ~Renaming(d, "economy")
    BY <1>2, NoRenameFirst DEF Renaming
  <2> QED
    BY <2>1, <2>2 DEF Current, Writing, Renaming
<1>7. (Owed(call[w]) /\ Current(call[w]))'
  BY <1>3, <1>5, <1>6 DEF Owed, Current, Paying, Writing, Renaming
<1>8. ASSUME NEW u \in Worker, u # w PROVE (Owed(call[u]) /\ Current(call[u]))'
  <2>1. Owed(call[u]) /\ Current(call[u])
    BY DEF PayOk
  <2> QED
    BY <1>2, <1>3, <1>8, <2>1 DEF Owed, Current, Paying, Writing, Renaming, LastPaid
<1> QED
  BY <1>4, <1>7, <1>8 DEF PayOk

\* A restart forgets the requests and goes on from the file.
LEMMA PayRestarts == ASSUME Typed, PayOk, Restart PROVE PayOk'
<1>1. SamePurse
  BY RestartHist
<1>2. eco' = disk["economy"] /\ disk' = disk /\ \A w \in Worker : call'[w] = Idle
  BY DEF Restart, LoadEconomy
<1>3. PurseOk'
  BY <1>1, <1>2 DEF PayOk, PurseOk, SamePurse, LastPaid
<1>4. ASSUME NEW w \in Worker PROVE (Owed(call[w]) /\ Current(call[w]))'
  BY <1>2, IdleOwesNothing DEF Owed, Current, Paying, Writing, Renaming
<1> QED
  BY <1>3, <1>4 DEF PayOk

\* Nothing of the economy depends on the day.
LEMMA PayTicks == ASSUME PayOk, Tick PROVE PayOk'
  BY DEF Tick, memory, PayOk, PurseOk, Owed, Current, Paying, Writing, Renaming, LastPaid

\* At boot nothing was paid, and what the file holds counts as earned.
LEMMA PayStarts == Init => PayOk
<1> SUFFICES ASSUME Init PROVE PayOk
  OBVIOUS
<1>1. Typed
  BY TypedInit
<1>2. eco = disk["economy"] /\ hist.earned = eco.miners /\ hist.paid = 0 /\ hist.at = <<>>
  BY DEF Init
<1>3. PurseOk
  BY <1>1, <1>2, PurseTypes DEF PurseOk
<1>4. ASSUME NEW w \in Worker PROVE Owed(call[w]) /\ Current(call[w])
  <2>1. call[w] = Idle
    BY DEF Init
  <2> QED
    BY <2>1, IdleOwesNothing DEF Owed, Current
<1> QED
  BY <1>3, <1>4 DEF PayOk

\* Overlaps are not forgotten.
LEMMA RacedGrows == ASSUME Typed, Next PROVE raced \subseteq raced'
<1>1. ASSUME NEW w \in Worker, Step(w) PROVE raced \subseteq raced'
  BY <1>1, TypedStep
<1>2. ASSUME NEW w \in Worker, Request(w) PROVE raced \subseteq raced'
  <2>a. PICK r \in todo : \E d : Taken(w, r, d)
    BY <1>2, Begins
  <2>1. PICK d : Taken(w, r, d)
    BY <2>a
  <2> QED
    BY <2>1 DEF Taken
<1> QED
  BY <1>1, <1>2 DEF Next, Restart, Tick

\* The payouts stay covered and spaced.
LEMMA PayNext ==
    ASSUME Typed, Apart, PayInv, Next
    PROVE  PayInv'
<1>1. CASE "economy" \in raced
  BY <1>1, RacedGrows DEF PayInv
<1>2. CASE "economy" \notin raced
  <2>0. PayOk
    BY <1>2 DEF PayInv
  <2>1. ASSUME NEW w \in Worker, Step(w) PROVE PayOk'
    <3>1. CASE \/ PutProposal(w) \/ SaveVote(w) \/ ReadHead(w) \/ LedgerAppend(w) \/ Close(w) \/ AdvanceEpoch(w)
               \/ PutCandidate(w) \/ SaveCandidate(w) \/ PutAllowlist(w)
      BY <1>2, <2>0, <3>1, PayElsewhere
    <3>2. CASE AccrueGovernance(w) \/ AccrueProfit(w)
      BY <1>2, <2>0, <3>2, PayAccrues
    <3>3. CASE Upsert(w)
      BY <1>2, <2>0, <3>3, PayUpserts
    <3>4. CASE Shares(w) \/ AssertIntents(w)
      BY <1>2, <2>0, <3>4, PayChecks
    <3>5. CASE Debit(w)
      BY <1>2, <2>0, <3>5, PayDebits
    <3>6. CASE Record(w)
      BY <1>2, <2>0, <3>6, PayRecords
    <3>7. CASE Clone(w) \/ WriteTmp(w) \/ Rename(w) \/ WriteFails(w)
      BY <1>2, <2>0, <3>7, PayFiles
    <3> QED
      BY <2>1, <3>1, <3>2, <3>3, <3>4, <3>5, <3>6, <3>7 DEF Step
  <2> QED
    BY <1>2, <2>0, <2>1, PayBegins, PayRestarts, PayTicks DEF Next, PayInv
<1> QED
  BY <1>1, <1>2

\* The strengthening behind the two results on payouts (economy_ops.rs, economy_memory.rs).
THEOREM PayInvariant == Spec => [](Typed /\ Apart /\ PayInv)
<1>1. Init => Typed /\ Apart /\ PayInv
  BY TypedInit, ApartInit, PayStarts DEF PayInv
<1>2. Typed /\ Apart /\ PayInv /\ [Next]_vars => (Typed /\ Apart /\ PayInv)'
  <2>1. ASSUME Typed, Apart, PayInv, Next PROVE (Typed /\ Apart /\ PayInv)'
    BY <2>1, TypedNext, ApartStep, PayNext
  <2>2. ASSUME Typed, Apart, PayInv, UNCHANGED vars PROVE (Typed /\ Apart /\ PayInv)'
    <3>0. /\ todo' = todo /\ call' = call /\ now' = now /\ hash' = hash /\ epoch' = epoch /\ chain' = chain /\ props' = props
          /\ cands' = cands /\ allow' = allow /\ eco' = eco /\ disk' = disk /\ tmp' = tmp /\ hist' = hist
          /\ raced' = raced /\ refused' = refused /\ faults' = faults
      BY <2>2 DEF vars, memory
    <3>1. Typed'
      BY <2>2, <3>0 DEF Typed, CallsTyped, StoresTyped
    <3>2. Apart'
      BY <2>2, <3>0 DEF Apart, Ahead
    <3>3. PayInv'
      BY <2>2, <3>0 DEF PayInv, PayOk, PurseOk, Owed, Current, Paying, Writing, Renaming, LastPaid
    <3> QED
      BY <3>1, <3>2, <3>3
  <2> QED
    BY <2>1, <2>2
<1> QED
  BY <1>1, <1>2, PTL DEF Spec

\* Miners are never paid more than the pool received, through crashes, failed writes and
\* restarts from the file, unless two requests overlapped in the economy (debit_pool,
\* record_miner_payout and persist of ProposeMinerPayouts).
THEOREM PaidIsCovered == Spec => []PaidWithinEarned
<1>1. Typed /\ Apart /\ PayInv => PaidWithinEarned
  BY PurseTypes DEF PayInv, PayOk, PurseOk, PaidWithinEarned
<1> QED
  BY <1>1, PayInvariant, PTL

----
(***************************************************************************)
(* The shares of a payout.                                                 *)
(***************************************************************************)

\* The members of T with fewer than k members below them.
Below(T, n) == {q \in T : q < n}
Lowest(T, k) == {n \in T : Cardinality(Below(T, n)) < k}

\* Every set of naturals has a least member.
LEMMA LeastNat ==
    ASSUME NEW S \in SUBSET Nat, S # {}
    PROVE  \E x \in S : \A y \in S : x <= y
<1>1. PICK x \in S : \A y \in S : ~ (<<y, x>> \in OpToRel(<, Nat))
  BY WFMin, NatLessThanWellFounded
<1>2. \A y \in S : ~ (y < x)
  BY <1>1 DEF OpToRel
<1> QED
  BY <1>2

\* One member more: the least of the others.
LEMMA LowestGrows ==
    ASSUME NEW T \in SUBSET Nat, IsFiniteSet(T), NEW k \in Nat, k < Cardinality(T),
           Cardinality(Lowest(T, k)) = k
    PROVE  Cardinality(Lowest(T, k + 1)) = k + 1
<1> DEFINE L == Lowest(T, k)
           R == T \ L
<1>1. /\ L \in SUBSET T /\ IsFiniteSet(L) /\ Cardinality(T) \in Nat
      /\ \A n \in T : IsFiniteSet(Below(T, n)) /\ Cardinality(Below(T, n)) \in Nat
  <2>1. L \in SUBSET T /\ \A n \in T : Below(T, n) \in SUBSET T
    BY DEF Lowest, Below
  <2>2. IsFiniteSet(L) /\ \A n \in T : IsFiniteSet(Below(T, n))
    BY <2>1, FS_Subset
  <2> HIDE DEF L
  <2> QED
    BY <2>1, <2>2, FS_CardinalityType
<1>2. R # {}
  BY <1>1
<1>3. PICK m \in R : \A y \in R : m <= y
  <2>1. R \in SUBSET Nat
    OBVIOUS
  <2> HIDE DEF R
  <2> QED BY <1>2, <2>1, LeastNat
<1>4. \A x, y \in T : x < y => Cardinality(Below(T, x)) <= Cardinality(Below(T, y))
  <2> SUFFICES ASSUME NEW x \in T, NEW y \in T, x < y
               PROVE  Cardinality(Below(T, x)) <= Cardinality(Below(T, y))
    OBVIOUS
  <2>1. \A q \in T : q < x => q < y
    <3>1. x \in Nat /\ y \in Nat /\ \A q \in T : q \in Nat
      OBVIOUS
    <3> QED
      BY <3>1
  <2>2. Below(T, x) \in SUBSET Below(T, y)
    BY <2>1 DEF Below
  <2> QED
    BY <1>1, <2>2, FS_Subset
<1>5. Below(T, m) = L
  <2>1. ASSUME NEW q \in T, q < m PROVE q \in L
    BY <1>3, <2>1
  <2>2. ASSUME NEW q \in L PROVE q \in T /\ q < m
    <3>1. q \in T /\ q \in Nat /\ m \in Nat /\ m \in T /\ m \notin L
      BY <1>1
    <3>2. ~ (m < q)
      <4>1. Cardinality(Below(T, q)) < k /\ ~ (Cardinality(Below(T, m)) < k)
        BY <3>1 DEF Lowest
      <4>2. m < q => Cardinality(Below(T, m)) <= Cardinality(Below(T, q))
        BY <1>4, <3>1
      <4> QED
        BY <1>1, <3>1, <4>1, <4>2
    <3> QED
      BY <3>1, <3>2
  <2> HIDE DEF L
  <2> QED
    BY <2>1, <2>2 DEF Below
<1>6. ASSUME NEW n \in T PROVE n \in Lowest(T, k + 1) <=> n \in L \cup {m}
  <2>0. Cardinality(Below(T, n)) \in Nat
    BY <1>1
  <2>1. CASE n \in L
    BY <2>0, <2>1 DEF Lowest
  <2>2. CASE n = m
    BY <1>5, <2>2 DEF Lowest
  <2>3. CASE n \notin L /\ n # m
    <3>1. n \in R /\ n \in Nat /\ m \in Nat /\ m \in T /\ m \notin L
      BY <2>3
    <3>2. m < n
      BY <1>3, <2>3, <3>1
    <3>3. L \cup {m} \in SUBSET Below(T, n)
      <4>1. \A q \in L : q \in T /\ q < m /\ q \in Nat
        BY <1>5 DEF Below
      <4> HIDE DEF L
      <4> QED
        BY <3>1, <3>2, <4>1 DEF Below
    <3>4. Cardinality(L \cup {m}) = k + 1
      <4> HIDE DEF L
      <4> QED BY <1>1, <3>1, FS_AddElement DEF L
    <3>5. k + 1 <= Cardinality(Below(T, n))
      <4> DEFINE Lm == L \cup {m}
      <4>1. Cardinality(Lm) <= Cardinality(Below(T, n))
        <5>1. Lm \in SUBSET Below(T, n)
          BY <3>3
        <5> HIDE DEF Lm
        <5> QED BY <1>1, <5>1, FS_Subset
      <4> QED
        BY <3>4, <4>1
    <3>6. n \notin Lowest(T, k + 1)
      BY <2>0, <3>5 DEF Lowest
    <3> QED
      BY <2>3, <3>6
  <2> QED
    BY <2>1, <2>2, <2>3
<1>7. Lowest(T, k + 1) = L \cup {m}
  <2>1. Lowest(T, k + 1) \subseteq T /\ L \cup {m} \subseteq T
    BY <1>1 DEF Lowest
  <2> HIDE DEF L
  <2> QED
    BY <1>6, <2>1
<1>8. m \notin L
  OBVIOUS
<1> HIDE DEF L
<1>9. Cardinality(L \cup {m}) = k + 1
  BY <1>1, <1>8, FS_AddElement DEF L
<1> QED
  BY <1>7, <1>9

\* There are exactly k of them, when T is large enough.
LEMMA LowestSize ==
    ASSUME NEW T \in SUBSET Nat, IsFiniteSet(T), NEW k \in Nat, k <= Cardinality(T)
    PROVE  Cardinality(Lowest(T, k)) = k
<1> DEFINE Bad == {j \in Nat : j <= Cardinality(T) /\ Cardinality(Lowest(T, j)) # j}
<1>1. SUFFICES ASSUME Bad # {} PROVE FALSE
  OBVIOUS
<1>2. PICK j \in Bad : \A y \in Bad : j <= y
  <2>1. Bad \in SUBSET Nat
    OBVIOUS
  <2> HIDE DEF Bad
  <2> QED BY <1>1, <2>1, LeastNat
<1>3. Cardinality(T) \in Nat
  BY FS_CardinalityType
<1>4. j # 0
  <2>1. ASSUME NEW n \in T PROVE ~ (Cardinality(Below(T, n)) < 0)
    <3>1. Below(T, n) \in SUBSET T
      BY DEF Below
    <3>2. Cardinality(Below(T, n)) \in Nat
      BY <3>1, FS_Subset, FS_CardinalityType
    <3> QED
      BY <3>2
  <2>2. Lowest(T, 0) = {}
    BY <2>1 DEF Lowest
  <2>3. Cardinality(Lowest(T, 0)) = 0
    BY <2>2, FS_EmptySet
  <2> QED
    BY <2>3
<1>5. /\ j - 1 \in Nat /\ j - 1 < Cardinality(T) /\ (j - 1) + 1 = j
      /\ Cardinality(Lowest(T, j - 1)) = j - 1
  <2>1. j \in Nat /\ j - 1 \in Nat /\ j <= Cardinality(T) /\ ~ (j <= j - 1)
    BY <1>4
  <2>2. j - 1 \notin Bad
    BY <1>2, <2>1
  <2> QED
    BY <1>3, <2>1, <2>2
<1>6. Cardinality(Lowest(T, (j - 1) + 1)) = (j - 1) + 1
  BY <1>5, LowestGrows
<1> QED
  BY <1>5, <1>6
\* The function that computes the sum of a set of shares.
Pick(s) == CHOOSE x \in s : TRUE
Sums(S, g) ==
    g = [s \in SUBSET S |-> IF s = {} THEN 0 ELSE Pick(s).amount + g[s \ {Pick(s)}]]

\* Every set of finite sets has a member none of whose proper subsets is one.
LEMMA MinimalSet ==
    ASSUME NEW S, NEW T, T \subseteq FiniteSubsetsOf(S), T # {}
    PROVE  \E x \in T : \A y \in T : y \subseteq x => y = x
<1>1. PICK x \in T : \A y \in T : ~ (<<y, x>> \in StrictSubsetOrdering(S))
  BY WFMin, FS_StrictSubsetOrderingWellFounded
<1>2. T \subseteq SUBSET S
  BY DEF FiniteSubsetsOf
<1> QED
  BY <1>1, <1>2 DEF StrictSubsetOrdering

\* Two such functions agree wherever both are defined.
LEMMA SumsAgree ==
    ASSUME NEW S, NEW T, T \subseteq S, IsFiniteSet(T), NEW g, NEW h, Sums(S, g), Sums(T, h)
    PROVE  \A s \in SUBSET T : g[s] = h[s]
<1> DEFINE Bad == {s \in SUBSET T : g[s] # h[s]}
<1>1. SUFFICES ASSUME Bad # {} PROVE FALSE
  OBVIOUS
<1>2. Bad \subseteq FiniteSubsetsOf(T)
  BY FS_Subset DEF FiniteSubsetsOf
<1>3. PICK x \in Bad : \A y \in Bad : y \subseteq x => y = x
  <2> HIDE DEF Bad
  <2> QED BY <1>1, <1>2, MinimalSet
<1>4. x # {}
  BY DEF Sums
<1>5. Pick(x) \in x
  BY <1>4 DEF Pick
<1>6. g[x \ {Pick(x)}] = h[x \ {Pick(x)}]
  BY <1>3, <1>5
<1>7. /\ g[x] = Pick(x).amount + g[x \ {Pick(x)}]
      /\ h[x] = Pick(x).amount + h[x \ {Pick(x)}]
  BY <1>4 DEF Sums
<1> QED
  BY <1>6, <1>7

\* There is such a function on the subsets of every finite set.
LEMMA SumsExist ==
    ASSUME NEW S, IsFiniteSet(S)
    PROVE  \E g : Sums(S, g)
<1> DEFINE Bad == {s \in SUBSET S : ~ \E g : Sums(s, g)}
           G(s) == CHOOSE g : Sums(s, g)
<1>1. SUFFICES ASSUME Bad # {} PROVE FALSE
  OBVIOUS
<1>2. Bad \subseteq FiniteSubsetsOf(S)
  BY FS_Subset DEF FiniteSubsetsOf
<1>3. PICK x \in Bad : \A y \in Bad : y \subseteq x => y = x
  <2> HIDE DEF Bad
  <2> QED BY <1>1, <1>2, MinimalSet
<1>4. \A y \in SUBSET x : y # x => Sums(y, G(y)) /\ IsFiniteSet(y)
  BY <1>3, FS_Subset
<1> DEFINE f == [s \in SUBSET x |->
                    IF s = {} THEN 0 ELSE Pick(s).amount + G(s \ {Pick(s)})[s \ {Pick(s)}]]
<1> HIDE DEF G
<1>5. ASSUME NEW y \in SUBSET x, y # x PROVE f[y] = G(y)[y]
  <2>0. Sums(y, G(y))
    BY <1>4, <1>5
  <2>1. CASE y = {}
    BY <2>0, <2>1 DEF Sums
  <2>2. CASE y # {}
    <3> DEFINE z == y \ {Pick(y)}
    <3>1. Pick(y) \in y
      BY <2>2 DEF Pick
    <3>2. z \in SUBSET y /\ z \in SUBSET x /\ z # x
      BY <3>1
    <3>3. Sums(z, G(z)) /\ IsFiniteSet(z)
      BY <3>2, <1>4
    <3>4. G(y)[z] = G(z)[z]
      <4> HIDE DEF z
      <4> QED BY <2>0, <3>2, <3>3, SumsAgree
    <3>5. G(y)[y] = Pick(y).amount + G(y)[z]
      BY <2>0, <2>2 DEF Sums
    <3> QED
      BY <2>2, <3>4, <3>5
  <2> QED
    BY <2>1, <2>2
<1>6. ASSUME NEW s \in SUBSET x, s # {}
      PROVE  f[s \ {Pick(s)}] = G(s \ {Pick(s)})[s \ {Pick(s)}]
  <2>1. Pick(s) \in s
    BY <1>6 DEF Pick
  <2> QED
    BY <2>1, <1>5
<1>7. Sums(x, f)
  BY <1>6 DEF Sums
<1> QED
  BY <1>3, <1>7

\* SumOf is the value of that function.
LEMMA SumOfIs ==
    ASSUME NEW S, IsFiniteSet(S), NEW g, Sums(S, g)
    PROVE  SumOf(S) = g[S]
<1>1. ASSUME NEW h, Sums(S, h) PROVE h = g
  <2> DEFINE T == S
  <2>1. T \subseteq S /\ IsFiniteSet(T) /\ Sums(T, g) /\ Sums(S, h)
    BY <1>1
  <2> HIDE DEF T
  <2>2. \A s \in SUBSET T : h[s] = g[s]
    BY <2>1, SumsAgree
  <2>3. \A s \in SUBSET S : h[s] = g[s]
    BY <2>2 DEF T
  <2> QED
    BY <1>1, <2>3 DEF Sums
<1> QED
  BY <1>1 DEF SumOf, MapThenSumSet, MapThenFoldSet, Sums, Pick

\* SumOf adds up one element after the other.
LEMMA SumOfUnfolds ==
    /\ SumOf({}) = 0
    /\ \A S : IsFiniteSet(S) /\ S # {} => SumOf(S) = Pick(S).amount + SumOf(S \ {Pick(S)})
<1>1. SumOf({}) = 0
  <2>1. IsFiniteSet({})
    BY FS_EmptySet
  <2>2. PICK g : Sums({}, g)
    BY <2>1, SumsExist
  <2> QED
    BY <2>1, <2>2, SumOfIs DEF Sums
<1>2. ASSUME NEW S, IsFiniteSet(S), S # {} PROVE SumOf(S) = Pick(S).amount + SumOf(S \ {Pick(S)})
  <2> DEFINE R == S \ {Pick(S)}
  <2>1. PICK g : Sums(S, g)
    BY <1>2, SumsExist
  <2>2. IsFiniteSet(R) /\ R \in SUBSET S
    BY <1>2, FS_Subset
  <2>3. PICK h : Sums(R, h)
    BY <2>2, SumsExist
  <2>4. SumOf(S) = g[S] /\ SumOf(R) = h[R]
    <3> HIDE DEF R
    <3> QED BY <1>2, <2>1, <2>2, <2>3, SumOfIs
  <2>5. g[R] = h[R]
    <3> HIDE DEF R
    <3> QED BY <2>1, <2>2, <2>3, SumsAgree
  <2>6. g[S] = Pick(S).amount + g[R]
    BY <1>2, <2>1 DEF Sums
  <2> QED
    BY <2>4, <2>5, <2>6
<1> QED
  BY <1>1, <1>2

\* T has a share r[n] for each member n of E: q, and one more for those in L.
Dealt(E, L, q, r, T) ==
    /\ IsFiniteSet(E) /\ q \in Nat
    /\ \A n \in E : r[n].node = n /\ r[n].amount = q + (IF n \in L THEN 1 ELSE 0)
    /\ \A x : x \in T <=> \E n \in E : x = r[n]

\* What such shares sum to.
LEMMA SumOfShares ==
    ASSUME NEW E, NEW L, NEW q, NEW r, NEW T, Dealt(E, L, q, r, T)
    PROVE  SumOf(T) = q * Cardinality(E) + Cardinality(E \cap L)
<1>d. /\ IsFiniteSet(E) /\ q \in Nat
      /\ \A n \in E : r[n].node = n /\ r[n].amount = q + (IF n \in L THEN 1 ELSE 0)
      /\ \A x : x \in T <=> \E n \in E : x = r[n]
  BY DEF Dealt
<1> DEFINE R(X) == {r[n] : n \in X}
           Ok(X) == SumOf(R(X)) = q * Cardinality(X) + Cardinality(X \cap L)
           Bad == {X \in SUBSET E : ~Ok(X)}
<1>0. T = R(E)
  BY <1>d
<1>1. SUFFICES ASSUME Bad # {} PROVE FALSE
  BY <1>0
<1>2. Bad \subseteq FiniteSubsetsOf(E)
  BY <1>d, FS_Subset DEF FiniteSubsetsOf
<1>3. PICK X \in Bad : \A Y \in Bad : Y \subseteq X => Y = X
  <2> HIDE DEF Bad
  <2> QED BY <1>1, <1>2, MinimalSet
<1>4. X \in SUBSET E /\ ~Ok(X) /\ IsFiniteSet(X)
  BY <1>d, FS_Subset
<1>5. X # {}
  <2>1. SUFFICES ASSUME X = {} PROVE Ok(X)
    BY <1>4
  <2>2. R(X) = {} /\ X \cap L = {} /\ Cardinality(X) = 0 /\ Cardinality(X \cap L) = 0
    BY <2>1, FS_EmptySet
  <2>3. SumOf(R(X)) = 0
    BY <2>2, SumOfUnfolds
  <2> QED
    BY <1>d, <2>2, <2>3
<1>6. R(X) # {} /\ IsFiniteSet(R(X))
  <2>1. PICK Q : Q = R(X)
    OBVIOUS
  <2>2. PICK f : f = [n \in X |-> r[n]]
    OBVIOUS
  <2>3. f \in Surjection(X, Q)
    BY <2>1, <2>2 DEF Surjection
  <2>4. IsFiniteSet(Q)
    BY <1>4, <2>3, FS_Surjection
  <2> QED
    BY <1>5, <2>1, <2>4
<1>7. PICK x : x = Pick(R(X))
  OBVIOUS
<1>8. x \in R(X)
  BY <1>6, <1>7 DEF Pick
<1>9. PICK n \in X : x = r[n]
  BY <1>8
<1>10. PICK Y : Y = X \ {n}
  OBVIOUS
<1>11. R(X) \ {x} = R(Y)
  <2>1. \A j \in X : r[j] = x => j = n
    BY <1>4, <1>9, <1>d
  <2> QED
    BY <1>9, <1>10, <2>1
<1>12. SumOf(R(X)) = x.amount + SumOf(R(Y))
  <2>1. \A S : IsFiniteSet(S) /\ S # {} => SumOf(S) = Pick(S).amount + SumOf(S \ {Pick(S)})
    BY SumOfUnfolds
  <2> HIDE DEF R
  <2> QED
    BY <1>6, <1>7, <1>11, <2>1
<1>13. Ok(Y)
  <2>1. Y \in SUBSET E /\ Y # X /\ Y \subseteq X
    BY <1>4, <1>10
  <2> HIDE DEF Ok
  <2> QED
    BY <1>3, <2>1
<1>14. IsFiniteSet(Y) /\ Cardinality(Y) \in Nat /\ Cardinality(X) = Cardinality(Y) + 1
  <2>1. IsFiniteSet(Y)
    BY <1>4, <1>10, FS_Subset
  <2>2. X = Y \cup {n} /\ n \notin Y
    BY <1>9, <1>10
  <2> QED
    BY <2>1, <2>2, FS_AddElement, FS_CardinalityType
<1>15. Cardinality(Y \cap L) \in Nat /\ Cardinality(X \cap L) = Cardinality(Y \cap L) + (IF n \in L THEN 1 ELSE 0)
  <2>1. IsFiniteSet(Y \cap L)
    BY <1>14, FS_Subset
  <2>2. CASE n \in L
    <3>1. X \cap L = (Y \cap L) \cup {n} /\ n \notin Y \cap L
      BY <1>9, <1>10, <2>2
    <3> QED
      BY <2>1, <2>2, <3>1, FS_AddElement, FS_CardinalityType
  <2>3. CASE n \notin L
    <3>1. X \cap L = Y \cap L
      BY <1>9, <1>10, <2>3
    <3>2. PICK l \in Nat : l = Cardinality(Y \cap L)
      BY <2>1, FS_CardinalityType
    <3>3. Cardinality(X \cap L) = l
      BY <3>1, <3>2
    <3> QED
      BY <2>3, <3>2, <3>3
  <2> QED
    BY <2>2, <2>3
<1>16. x.amount = q + (IF n \in L THEN 1 ELSE 0)
  BY <1>4, <1>9, <1>d
<1>17. PICK c \in Nat, l \in Nat : c = Cardinality(Y) /\ l = Cardinality(Y \cap L)
  BY <1>14, <1>15
<1>18. q * (c + 1) = q * c + q /\ q * c \in Nat
  BY <1>d
<1>19. Ok(X)
  <2>1. SumOf(R(Y)) = q * c + l
    BY <1>13, <1>17
  <2>2. SumOf(R(X)) = (q + (IF n \in L THEN 1 ELSE 0)) + (q * c + l)
    <3> HIDE DEF R
    <3> QED
      BY <1>12, <1>16, <2>1
  <2>3. q * Cardinality(X) + Cardinality(X \cap L) = q * (c + 1) + (l + (IF n \in L THEN 1 ELSE 0))
    BY <1>14, <1>15, <1>17
  <2>4. PICK i \in Nat : i = IF n \in L THEN 1 ELSE 0
    OBVIOUS
  <2> HIDE DEF R
  <2> QED
    BY <1>18, <1>d, <2>2, <2>3, <2>4
<1> QED
  BY <1>4, <1>19

\* A share of the amount, and how the remainder is dealt out.
LEMMA SharesOf ==
    ASSUME NEW who \in SUBSET Node, who # {}, NEW amount \in Nat
    PROVE  \E q, m \in Nat : /\ amount = q * Cardinality(who) + m /\ m < Cardinality(who) /\ Cardinality(who) \in Nat
                             /\ \A n \in who : EqualShares(amount, who)[n] = q + (IF n \in Lowest(who, m) THEN 1 ELSE 0)
<1>1. PICK k \in Nat : k = Cardinality(who) /\ k # 0
  <2>1. IsFiniteSet(who)
    BY EconomyAssumption, FS_Subset
  <2> QED
    BY <2>1, FS_CardinalityType, FS_EmptySet
<1>2. PICK q \in Nat : q = amount \div k
  BY <1>1
<1>3. PICK m \in Nat : m = amount % k
  BY <1>1
<1>4. amount = q * k + m /\ m < k
  BY <1>1, <1>2, <1>3, Z3T(60)
<1>5. ASSUME NEW n \in who PROVE EqualShares(amount, who)[n] = q + (IF n \in Lowest(who, m) THEN 1 ELSE 0)
  <2>1. EqualShares(amount, who)[n] = q + (IF Cardinality({j \in who : j < n}) < m THEN 1 ELSE 0)
    BY <1>1, <1>2, <1>3 DEF EqualShares
  <2>2. n \in Lowest(who, m) <=> Cardinality({j \in who : j < n}) < m
    BY DEF Lowest, Below
  <2> QED
    BY <2>1, <2>2
<1> QED
  BY <1>1, <1>4, <1>5

\* An exact and even split of an amount.
Split(S, amount) == SumOf(S) = amount /\ \A s, t \in S : s.amount - t.amount <= 1

\* propose_equal_payouts splits the amount, whoever is eligible.
LEMMA PayoutsSplit ==
    ASSUME NEW e \in EconomyFiles, NEW amount \in Nat, EligibleActive(e) # {}
    PROVE  Split(ProposeEqualPayouts(e, amount), amount)
<1>1. PICK E : E = EligibleActive(e)
  OBVIOUS
<1>2. E \in SUBSET Node /\ E # {} /\ E \in SUBSET Nat /\ IsFiniteSet(E)
  <2>1. E \in SUBSET Node /\ E # {}
    BY <1>1 DEF EligibleActive
  <2> QED
    BY <2>1, EconomyAssumption, FS_Subset
<1>3. PICK q \in Nat, m \in Nat :
        /\ amount = q * Cardinality(E) + m /\ m < Cardinality(E) /\ Cardinality(E) \in Nat
        /\ \A n \in E : EqualShares(amount, E)[n] = q + (IF n \in Lowest(E, m) THEN 1 ELSE 0)
  BY <1>2, SharesOf
<1>4. PICK r : r = [n \in E |-> [node |-> n, dest |-> e.ops[n].dest, amount |-> EqualShares(amount, E)[n]]]
  OBVIOUS
<1>5. PICK T : T = ProposeEqualPayouts(e, amount)
  OBVIOUS
<1>p. \A x : x \in T <=> \E n \in E : x = r[n]
  BY <1>1, <1>4, <1>5 DEF ProposeEqualPayouts
<1>6. \A n \in E : r[n].node = n /\ r[n].amount = q + (IF n \in Lowest(E, m) THEN 1 ELSE 0)
  BY <1>3, <1>4
<1>7. SumOf(T) = q * Cardinality(E) + Cardinality(E \cap Lowest(E, m))
  <2>1. PICK L : L = Lowest(E, m)
    OBVIOUS
  <2>2. \A n \in E : r[n].node = n /\ r[n].amount = q + (IF n \in L THEN 1 ELSE 0)
    BY <1>6, <2>1
  <2>3. Dealt(E, L, q, r, T)
    BY <1>2, <1>p, <2>2 DEF Dealt
  <2>4. SumOf(T) = q * Cardinality(E) + Cardinality(E \cap L)
    BY <2>3, SumOfShares
  <2> QED
    BY <2>1, <2>4
<1>8. Cardinality(E \cap Lowest(E, m)) = m
  <2>1. E \cap Lowest(E, m) = Lowest(E, m)
    BY DEF Lowest
  <2>2. m <= Cardinality(E)
    BY <1>3
  <2> QED
    BY <1>2, <2>1, <2>2, LowestSize
<1>9. \A s, t \in T : s.amount - t.amount <= 1
  BY <1>6, <1>p
<1> QED
  BY <1>3, <1>5, <1>7, <1>8, <1>9 DEF Split

\* A payout past its first step carries an exact split, and so did the last that answered.
SharesInv ==
    /\ SharesExact
    /\ \A w \in Worker : Paying(call[w]) /\ call[w].pc > 1 => Split(call[w].pay, call[w].req.amount)

\* Only the first step of a payout makes shares.
LEMMA StepPay ==
    ASSUME Typed, NEW w \in Worker, Step(w), ~Shares(w), NEW d, Moved(w, d), d.req # None
    PROVE  d.pay = call[w].pay
<1>0. call'[w] = d /\ call[w] \in CallSet
  BY MovedCalls DEF Typed, CallsTyped
<1>1. ASSUME NEW c \in CallSet, c.pay = call[w].pay, Proceed(w, c) PROVE d.pay = call[w].pay
  <2>1. PICK b : b = [c EXCEPT !.pc = c.pc + 1]
    OBVIOUS
  <2>2. b.pay = c.pay
    BY <2>1 DEF CallSet
  <2>3. call'[w] = IF c.pc = Len(Steps(w)) THEN Idle ELSE b
    BY <1>1, <2>1 DEF Proceed, Typed, CallsTyped
  <2> QED
    BY <1>0, <1>1, <2>2, <2>3, IdleOk
<1>2. ASSUME Fail(w) PROVE FALSE
  BY <1>0, <1>2, IdleOk DEF Fail, Typed, CallsTyped
<1>3. CASE ReadHead(w) \/ Clone(w) \/ AssertIntents(w)
  <2>1. ASSUME NEW x, Proceed(w, [call[w] EXCEPT !.head = x]), x \in Nat PROVE d.pay = call[w].pay
    <3>1. PICK c : c = [call[w] EXCEPT !.head = x]
      OBVIOUS
    <3>2. c \in CallSet /\ c.pay = call[w].pay
      BY <1>0, <2>1, <3>1 DEF CallSet
    <3> QED
      BY <1>1, <2>1, <3>1, <3>2
  <2>2. ASSUME NEW x, Proceed(w, [call[w] EXCEPT !.snap = x]), x \in ReleaseFiles \cup EconomyFiles PROVE d.pay = call[w].pay
    <3>1. PICK c : c = [call[w] EXCEPT !.snap = x]
      OBVIOUS
    <3>2. c \in CallSet /\ c.pay = call[w].pay
      BY <1>0, <2>2, <3>1 DEF CallSet
    <3> QED
      BY <1>1, <2>2, <3>1, <3>2
  <2>3. ASSUME Proceed(w, [call[w] EXCEPT !.pay = call[w].pay]) PROVE d.pay = call[w].pay
    <3>1. PICK c : c = [call[w] EXCEPT !.pay = call[w].pay]
      OBVIOUS
    <3>2. c \in CallSet /\ c.pay = call[w].pay
      BY <1>0, <3>1 DEF CallSet
    <3> QED
      BY <1>1, <2>3, <3>1, <3>2
  <2>4. CASE ReadHead(w)
    BY <2>1, <2>4 DEF ReadHead, Typed, StoresTyped
  <2>5. CASE Clone(w)
    <3>1. On(w) \in File
      BY <2>5, AtStep DEF Clone, Placed
    <3>2. Content(On(w)) \in ReleaseFiles \cup EconomyFiles
      BY <3>1, ContentOk DEF Contents
    <3> QED
      BY <2>2, <2>5, <3>2 DEF Clone
  <2>6. CASE AssertIntents(w)
    BY <1>2, <2>3, <2>6 DEF AssertIntents, Check
  <2> QED
    BY <1>3, <2>4, <2>5, <2>6
<1>4. CASE PutProposal(w) \/ SaveVote(w) \/ LedgerAppend(w) \/ Close(w) \/ AdvanceEpoch(w)
  BY <1>0, <1>1, <1>2, <1>4 DEF PutProposal, SaveVote, LedgerAppend, Close, AdvanceEpoch
<1>5. CASE PutCandidate(w) \/ SaveCandidate(w) \/ PutAllowlist(w)
  BY <1>0, <1>1, <1>2, <1>5 DEF PutCandidate, SaveCandidate, PutAllowlist
<1>6. CASE AccrueGovernance(w) \/ AccrueProfit(w)
  <2>1. Fail(w) \/ Proceed(w, call[w])
    BY <1>6 DEF AccrueGovernance, AccrueProfit, Earn
  <2> QED
    BY <1>0, <1>1, <1>2, <2>1
<1>7. CASE Upsert(w) \/ Debit(w) \/ Record(w)
  <2>1. Fail(w) \/ Proceed(w, call[w])
    BY <1>7 DEF Upsert, Debit, Record
  <2> QED
    BY <1>0, <1>1, <1>2, <2>1
<1>8. CASE WriteTmp(w) \/ Rename(w) \/ WriteFails(w)
  <2>1. Fail(w) \/ Proceed(w, call[w])
    BY <1>8 DEF WriteTmp, Rename, WriteFails
  <2> QED
    BY <1>0, <1>1, <1>2, <2>1
<1> QED
  BY <1>3, <1>4, <1>5, <1>6, <1>7, <1>8 DEF Step

\* The shares of the last answer change only when a payout answers.
LEMMA StepAnswers ==
    ASSUME Typed, NEW w \in Worker, Step(w)
    PROVE  \/ hist'.shares = hist.shares
           \/ At(w, "rename") /\ Paying(call[w]) /\ hist'.shares = call[w].pay
<1>0. hist \in HistSet
  BY DEF Typed, StoresTyped
<1>1. CASE \/ PutProposal(w) \/ SaveVote(w) \/ ReadHead(w) \/ LedgerAppend(w) \/ Close(w) \/ AdvanceEpoch(w)
           \/ PutCandidate(w) \/ SaveCandidate(w) \/ PutAllowlist(w)
  BY <1>1, PurseElsewhere DEF SamePurse
<1>2. ASSUME NEW e, Earn(w, e) PROVE hist'.shares = hist.shares
  BY <1>0, <1>2 DEF Earn, HistSet
<1>3. CASE AccrueGovernance(w) \/ AccrueProfit(w)
  BY <1>2, <1>3 DEF AccrueGovernance, AccrueProfit
<1>4. CASE Upsert(w) \/ Debit(w) \/ Record(w) \/ Shares(w) \/ AssertIntents(w)
  BY <1>4 DEF Upsert, Debit, Record, Shares, AssertIntents, Check
<1>5. CASE Clone(w) \/ WriteTmp(w) \/ WriteFails(w)
  BY <1>5 DEF Clone, WriteTmp, WriteFails
<1>6. CASE Rename(w)
  <2>1. At(w, "rename") /\ (hist' = hist \/ hist' = Answered(w, hist))
    BY <1>6 DEF Rename
  <2>2. CASE hist' # hist
    <3>1. /\ call[w].req.op = "propose_payouts"
          /\ hist' = [hist EXCEPT !.paid = @ + call[w].req.amount, !.at = @ \o <<call[w].at>>, !.shares = call[w].pay]
      BY <2>1, <2>2 DEF Answered
    <3>2. hist'.shares = call[w].pay
      BY <1>0, <3>1 DEF HistSet
    <3> QED
      BY <2>1, <3>1, <3>2 DEF Paying, At
  <2> QED
    BY <2>1, <2>2
<1> QED
  BY <1>1, <1>3, <1>4, <1>5, <1>6 DEF Step

\* A step keeps the split, or makes it.
LEMMA SharesStep ==
    ASSUME Typed, SharesInv, NEW w \in Worker, Step(w)
    PROVE  SharesInv'
<1>1. PICK d : Moved(w, d)
  BY Moves
<1>2. call'[w] = d /\ \A u \in Worker : u # w => call'[u] = call[u]
  BY <1>1, MovedCalls
<1>3. SharesExact'
  <2>1. CASE hist'.shares = hist.shares
    BY <2>1 DEF SharesInv, SharesExact
  <2>2. CASE At(w, "rename") /\ Paying(call[w]) /\ hist'.shares = call[w].pay
    <3>1. call[w].req \in Requests /\ call[w].req.op = "propose_payouts"
      BY <2>2, AtStep DEF Paying
    <3>2. call[w].pc > 1
      <4>1. call[w].pc \in 1 .. 10 /\ call[w].pc # 1
        BY <2>2, PayStep
      <4> QED
        BY <4>1
    <3>3. Split(call[w].pay, call[w].req.amount)
      BY <2>2, <3>2 DEF SharesInv
    <3> QED
      BY <2>2, <3>1, <3>3 DEF SharesExact, Split, Requests
  <2> QED
    BY <2>1, <2>2, StepAnswers
<1>4. ASSUME Paying(d), d.pc > 1 PROVE Split(d.pay, d.req.amount)
  <2>0. d.req # None /\ d.req = call[w].req /\ d.pc = call[w].pc + 1 /\ Paying(call[w])
    BY <1>1, <1>4 DEF Moved, Paying
  <2>1. CASE ~Shares(w)
    <3>1. d.pay = call[w].pay
      BY <1>1, <2>0, <2>1, StepPay
    <3>2. call[w].pc > 1
      <4>1. call[w].req # None /\ call[w].pc \in Nat
        BY <2>0 DEF Paying, Typed, CallsTyped, CallSet
      <4>2. PICK s : At(w, s)
        BY <4>1 DEF At
      <4>3. call[w].pc \in 1 .. 10 /\ (call[w].pc = 1 => s = "shares")
        BY <2>0, <4>2, PayStep
      <4>4. s # "shares"
        <5>1. ASSUME At(w, "shares") PROVE FALSE
          <6>1. \A a : At(w, a) => a = "shares"
            BY <5>1 DEF At
          <6>2. CASE PutProposal(w) \/ SaveVote(w) \/ ReadHead(w) \/ LedgerAppend(w) \/ Close(w) \/ AdvanceEpoch(w)
            BY <6>1, <6>2 DEF PutProposal, SaveVote, ReadHead, LedgerAppend, Close, AdvanceEpoch
          <6>3. CASE PutCandidate(w) \/ SaveCandidate(w) \/ PutAllowlist(w)
            BY <6>1, <6>3 DEF PutCandidate, SaveCandidate, PutAllowlist
          <6>4. CASE AccrueGovernance(w) \/ AccrueProfit(w) \/ Upsert(w) \/ AssertIntents(w) \/ Debit(w) \/ Record(w)
            BY <6>1, <6>4 DEF AccrueGovernance, AccrueProfit, Upsert, AssertIntents, Debit, Record
          <6>5. CASE Clone(w) \/ WriteTmp(w) \/ Rename(w) \/ WriteFails(w)
            BY <6>1, <6>5 DEF Clone, WriteTmp, Rename, WriteFails
          <6> QED
            BY <2>1, <6>2, <6>3, <6>4, <6>5 DEF Step
        <5> QED
          BY <4>2, <5>1
      <4> QED
        BY <4>3, <4>4
    <3> QED
      BY <2>0, <3>1, <3>2 DEF SharesInv
  <2>2. CASE Shares(w)
    <3>1. At(w, "shares") /\ (CanPropose(eco, call[w].req.amount) =>
                                 Proceed(w, [call[w] EXCEPT !.pay = ProposeEqualPayouts(eco, call[w].req.amount)]))
          /\ (~CanPropose(eco, call[w].req.amount) => Fail(w))
      BY <2>2 DEF Shares, Check
    <3>2. call[w].req.amount \in Nat /\ call[w] \in CallSet
      BY <3>1, AtStep DEF Placed, IsRequest
    <3>3. ~Fail(w)
      BY <1>2, <2>0, IdleOk DEF Fail, Typed, CallsTyped
    <3>4. PICK c : c = [call[w] EXCEPT !.pay = ProposeEqualPayouts(eco, call[w].req.amount)]
      OBVIOUS
    <3>5. c.pay = ProposeEqualPayouts(eco, call[w].req.amount) /\ EligibleActive(eco) # {} /\ Proceed(w, c)
      BY <3>1, <3>2, <3>3, <3>4 DEF CallSet, CanPropose
    <3>6. PICK b : b = [c EXCEPT !.pc = c.pc + 1]
      OBVIOUS
    <3>7. b.pay = c.pay
      BY <3>2, <3>4, <3>6 DEF CallSet
    <3>8. d = IF c.pc = Len(Steps(w)) THEN Idle ELSE b
      BY <1>2, <3>5, <3>6 DEF Proceed, Typed, CallsTyped
    <3>9. d.pay = ProposeEqualPayouts(eco, call[w].req.amount)
      BY <2>0, <3>5, <3>7, <3>8, IdleOk
    <3>10. Split(ProposeEqualPayouts(eco, call[w].req.amount), call[w].req.amount)
      BY <3>2, <3>5, PurseTypes, PayoutsSplit
    <3> QED
      BY <2>0, <3>9, <3>10
  <2> QED
    BY <2>1, <2>2
<1>5. ASSUME NEW u \in Worker, Paying(call'[u]), call'[u].pc > 1 PROVE Split(call'[u].pay, call'[u].req.amount)
  BY <1>2, <1>4, <1>5 DEF SharesInv
<1> QED
  BY <1>3, <1>5 DEF SharesInv, Paying, Split

\* What is not a step of a request keeps the split.
LEMMA SharesNext ==
    ASSUME Typed, SharesInv, Next
    PROVE  SharesInv'
<1>1. ASSUME NEW w \in Worker, Request(w) PROVE SharesInv'
  <2>a. PICK r \in todo : \E d : Taken(w, r, d)
    BY <1>1, Begins
  <2>1. PICK d : Taken(w, r, d)
    BY <2>a
  <2>2. hist' = hist /\ d.pc = 1
    BY <2>1 DEF Taken
  <2>3. call'[w] = d /\ \A u \in Worker : u # w => call'[u] = call[u]
    BY <2>1, TypedTaken
  <2> QED
    BY <2>2, <2>3 DEF SharesInv, SharesExact, Paying, Split
<1>2. CASE Restart
  <2>1. hist'.shares = hist.shares
    BY <1>2, RestartHist DEF SamePurse
  <2>2. \A w \in Worker : call'[w] = Idle
    BY <1>2 DEF Restart
  <2> QED
    BY <2>1, <2>2, IdleOk DEF SharesInv, SharesExact, Paying, Split
<1>3. CASE Tick
  BY <1>3 DEF Tick, SharesInv, SharesExact, Paying, Split
<1> QED
  BY <1>1, <1>2, <1>3, SharesStep DEF Next

\* Payouts are covered, split exactly and evenly, and, with a gate configured, a day
\* apart: through crashes, failed writes and restarts from the file, unless two requests
\* overlapped in the economy (propose_equal_payouts, debit_pool, record_miner_payout).
THEOREM PayoutsAreSound == ASSUME Gated PROVE Spec => []PayoutsSound
<1>1. Init => Typed /\ SharesInv
  <2>1. ASSUME Init PROVE SharesInv
    <3>1. hist.shares = {} /\ \A w \in Worker : call[w] = Idle
      BY <2>1 DEF Init
    <3> QED
      BY <3>1, IdleOk DEF SharesInv, SharesExact, Paying
  <2> QED
    BY <2>1, TypedInit
<1>2. Typed /\ SharesInv /\ [Next]_vars => (Typed /\ SharesInv)'
  <2>1. ASSUME Typed, SharesInv, Next PROVE (Typed /\ SharesInv)'
    BY <2>1, TypedNext, SharesNext
  <2>2. ASSUME Typed, SharesInv, UNCHANGED vars PROVE (Typed /\ SharesInv)'
    <3>0. /\ todo' = todo /\ call' = call /\ now' = now /\ hash' = hash /\ epoch' = epoch /\ chain' = chain /\ props' = props
          /\ cands' = cands /\ allow' = allow /\ eco' = eco /\ disk' = disk /\ tmp' = tmp /\ hist' = hist
          /\ raced' = raced /\ refused' = refused /\ faults' = faults
      BY <2>2 DEF vars, memory
    <3>1. Typed'
      BY <2>2, <3>0 DEF Typed, CallsTyped, StoresTyped
    <3>2. SharesInv'
      BY <2>2, <3>0 DEF SharesInv, SharesExact, Paying, Split
    <3> QED
      BY <3>1, <3>2
  <2> QED
    BY <2>1, <2>2
<1>3. Typed /\ SharesInv => SharesExact
  BY DEF SharesInv
<1>4. PaidWithinEarned /\ SharesExact /\ PayoutsSpaced => PayoutsSound
  BY DEF PayoutsSound
<1>5. Typed /\ Apart /\ PayInv => PaidWithinEarned /\ PayoutsSpaced
  <2>1. Typed /\ PayInv => PaidWithinEarned
    BY PurseTypes DEF PayInv, PayOk, PurseOk, PaidWithinEarned
  <2>2. PayInv => PayoutsSpaced
    BY DEF PayInv, PayOk, PurseOk, PayoutsSpaced
  <2> QED
    BY <2>1, <2>2
<1> QED
  BY <1>1, <1>2, <1>3, <1>4, <1>5, PayInvariant, PTL DEF Spec

=============================================================================
