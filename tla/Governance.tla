----------------------------- MODULE Governance -----------------------------
(***************************************************************************)
(* The governance plane of a vault: the epoch ledger (ledger_ops.rs,       *)
(* ledger_memory.rs), the release mesh (release_ops.rs, release_memory.rs, *)
(* release_persist.rs) and the miner economy (economy_ops.rs,              *)
(* economy_memory.rs), which share the ledger's chain.                     *)
(*                                                                         *)
(* Requests run on several threads.  Every port call takes a lock, works   *)
(* and lets it go, so a request is a sequence of steps with other          *)
(* requests' steps in between: Program gives the steps of each operation.  *)
(* The ledger, the epoch and its proposals live in memory.  The economy    *)
(* and the release mesh write a snapshot of themselves to a file after     *)
(* every change: clone under the lock, write one temporary file, rename.   *)
(*                                                                         *)
(* The use cases take the acting vault as a parameter; a process has one,  *)
(* the lab suites run several against one store, as here.                  *)
(***************************************************************************)
EXTENDS Economy, Releases, Sequences

CONSTANTS
    Worker,      \* requests in progress at the same time
    Scripts,     \* [disk, requests]: the files found at boot; the requests, days and faults to come
    Proposal, Release, Source,
    Hash         \* constitution hashes an operator may boot with

Operations == {"propose_epoch", "vote_epoch", "propose_release", "rebuild_release", "cosign_release",
               "activate_release", "accrue_profit", "upsert_miner", "propose_payouts"}

ReleaseFiles == [cands : [Release -> Candidates(Source) \cup {None}], allow : SUBSET [release : Release, hash : Hash]]
Proposals == [from : Nat, to : Nat, votes : Seq(Vault), closed : BOOLEAN]
EconomyFiles == [miners : Nat, channels : Nat, infra : Nat, profit : Nat, pending : Nat,
                 credits : [Node -> Nat], ops : [Node -> Operators \cup {None}], lastAt : Nat \cup {-1}]
Files == [release : ReleaseFiles, economy : EconomyFiles]

\* What a request of each operation carries.
IsRequest(r) ==
    /\ r.op \in Operations \cup {"tick", "fault"}
    /\ r.op \in {"propose_epoch", "vote_epoch"} => r.on \in Proposal /\ r.by \in Vault
    /\ r.op \in {"rebuild_release", "cosign_release", "activate_release"} => r.on \in Release /\ r.by \in Vault
    /\ r.op = "propose_release" => /\ r.on \in Release /\ r.source \in Source
                                   /\ r.rebuildable \in BOOLEAN /\ r.council \in 0 .. CouncilN
    /\ r.op \in {"accrue_profit", "propose_payouts"} => r.amount \in Nat
    /\ r.op = "upsert_miner" => r.by \in Node /\ r.miner \in Operators

\* A release file as requests that did not overlap leave it: candidates went through
\* the checks of the use cases, and what is on the allow-list was activated.
WellMade(x) ==
    /\ \A r \in Release : x.cands[r] # None =>
           /\ CouncilOk(x.cands[r].council)
           /\ x.cands[r].rebuilds # {} => x.cands[r].rebuildable
           /\ x.cands[r].phase = "allowlisted" => CanActivate(x.cands[r], 0, x.cands[r].hash)
    /\ \A e \in x.allow : /\ x.cands[e.release] # None
                           /\ x.cands[e.release].phase = "allowlisted" /\ x.cands[e.release].hash = e.hash

ASSUME GovernanceAssumption ==
    /\ Hash \subseteq Nat /\ 0 \in Hash
    /\ None \notin Candidates(Source) \cup Operators \cup Proposals \cup ReleaseFiles \cup EconomyFiles
    /\ \A s \in Scripts : /\ s.disk \in Files /\ WellMade(s.disk["release"])
                          /\ None \notin s.requests /\ \A r \in s.requests : IsRequest(r)

VARIABLES
    todo,      \* requests not sent yet, days to come
    call,      \* call[w]: the request worker w executes
    now,       \* the clock, in days
    hash,      \* hash of the active constitution
    epoch, chain, props,   \* the ledger in memory
    cands, allow, eco,     \* release mesh and economy in memory
    disk,      \* disk["release"], disk["economy"]: the files
    tmp,       \* tmp[f]: the temporary file beside f
    hist,      \* history: votes, rebuilds, cosigns, earned, paid, the payout times
    raced,     \* history: the stores in which two requests overlapped
    refused,   \* history: an append was refused
    faults

memory == <<epoch, chain, props, cands, allow, eco>>
vars == <<todo, call, now, hash, memory, disk, tmp, hist, raced, refused, faults>>

File == {"release", "economy"}
Idle == [req |-> None, pc |-> 1, prop |-> None, cand |-> None, snap |-> None, head |-> 0, at |-> 0, who |-> {}, pay |-> {}]

\* One request after another store call: what the operation still has to do.
Persist(f) == <<<<"clone", f>>, <<"write", f>>, <<"rename", f>>>>
Chained(kind) == <<<<"head", kind>>, <<"append", kind>>>>
Accrual == <<<<"accrue_governance", "economy">>>> \o Persist("economy") \o Chained("governance_reward_accrued")

Program(op) ==
    CASE op = "propose_epoch" -> <<<<"put_proposal", "ledger">>>> \o Chained("vote_recorded")
      [] op = "vote_epoch" -> <<<<"save_vote", "ledger">>>> \o Chained("vote_recorded")
                                \o <<<<"close", "ledger">>, <<"set_epoch", "ledger">>>> \o Chained("epoch_advanced")
      [] op = "propose_release" -> <<<<"put_candidate", "release">>>> \o Persist("release")
      [] op = "rebuild_release" -> <<<<"save_candidate", "release">>>> \o Persist("release")
      [] op = "cosign_release" -> <<<<"save_candidate", "release">>>> \o Persist("release") \o Accrual
      [] op = "activate_release" -> <<<<"save_candidate", "release">>>> \o Persist("release")
                                      \o <<<<"put_allowlist", "release">>>> \o Persist("release") \o Accrual
      [] op = "accrue_profit" -> <<<<"accrue_profit", "economy">>>> \o Persist("economy") \o Chained("profit_allocated")
      [] op = "upsert_miner" -> <<<<"upsert", "economy">>>> \o Persist("economy")
      [] op = "propose_payouts" -> <<<<"shares", "economy">>, <<"assert", "economy">>, <<"debit", "economy">>>> \o Persist("economy")
                                     \o <<<<"record", "economy">>>> \o Persist("economy")

Steps(w) == Program(call[w].req.op)
At(w, step) == call[w].req # None /\ Steps(w)[call[w].pc][1] = step
On(w) == Steps(w)[call[w].pc][2]

\* Worker w goes to its next step with the given locals, or answers after the last.
Proceed(w, c) ==
    call' = [call EXCEPT ![w] = IF c.pc = Len(Steps(w)) THEN Idle ELSE [c EXCEPT !.pc = c.pc + 1]]
Fail(w) == call' = [call EXCEPT ![w] = Idle]

\* The stores that the request and one that is still being executed both use.
Uses(op, f, from) == \E i \in from .. Len(Program(op)) : Program(op)[i][2] = f
Overlap(r) ==
    {f \in {"ledger", "release", "economy"} :
        Uses(r.op, f, 1) /\ \E u \in Worker : call[u].req # None /\ Uses(call[u].req.op, f, call[u].pc)}

Init ==
    /\ \E s \in Scripts : todo = s.requests /\ disk = s.disk
    /\ call = [w \in Worker |-> Idle] /\ now = 0 /\ hash = 0
    /\ epoch = 0 /\ chain = <<[kind |-> "genesis", epoch |-> 0, prev |-> 0]>>
    /\ props = [p \in Proposal |-> None]
    /\ cands = disk["release"].cands /\ allow = disk["release"].allow /\ eco = disk["economy"]
    /\ tmp = [f \in File |-> None]
    /\ hist = [votes |-> [p \in Proposal |-> {}], rebuilds |-> [r \in Release |-> IF cands[r] = None THEN {} ELSE cands[r].rebuilds],
               cosigns |-> [r \in Release |-> IF cands[r] = None THEN {} ELSE cands[r].cosigns],
               earned |-> eco.miners, paid |-> 0, at |-> <<>>, shares |-> {}]
    /\ raced = {} /\ refused = FALSE /\ faults = 0

(***************************************************************************)
(* The requests: the reads and checks before the first change              *)
(***************************************************************************)

Send(w, r, c) ==
    /\ call[w] = Idle
    /\ todo' = todo \ {r}
    /\ call' = [call EXCEPT ![w] = [c EXCEPT !.req = r, !.at = now]]
    /\ raced' = raced \cup Overlap(r)
    /\ UNCHANGED <<now, hash, memory, disk, tmp, hist, refused, faults>>

\* EpochAdvanceProposal::new with the proposer's vote; add_vote for a node that has
\* not voted yet.  Votes are counted, so they are a sequence.
NewProposal(v) == [from |-> epoch, to |-> epoch + 1, votes |-> <<v>>, closed |-> FALSE]

Voted(p, v) == \E i \in DOMAIN p.votes : p.votes[i] = v

\* Mutant: a node that votes again is counted again.
AddVoteTwice(p, v) == [p EXCEPT !.votes = @ \o <<v>>]

AddVote(p, v) == IF Voted(p, v) THEN p ELSE [p EXCEPT !.votes = @ \o <<v>>]

ProposeEpochAdvance(w, r) ==
    r.op = "propose_epoch" /\ Send(w, r, [Idle EXCEPT !.prop = NewProposal(r.by)])

\* Mutant: the proposal's epoch is not looked at.
VoteEpochAdvanceLate(w, r) ==
    /\ r.op = "vote_epoch" /\ props[r.on] # None /\ ~props[r.on].closed
    /\ Send(w, r, [Idle EXCEPT !.prop = AddVote(props[r.on], r.by)])

VoteEpochAdvance(w, r) ==
    /\ r.op = "vote_epoch" /\ props[r.on] # None
    /\ props[r.on].from = epoch /\ ~props[r.on].closed
    /\ Send(w, r, [Idle EXCEPT !.prop = AddVote(props[r.on], r.by)])

\* Source and binary are stored before the candidate; the tampered form names a
\* binary hash of its own.
ProposeRelease(w, r) ==
    /\ r.op = "propose_release" /\ CouncilOk(r.council)
    /\ Send(w, r, [Idle EXCEPT !.cand = NewCandidate(r.source, r.rebuildable, r.council, now, hash)])

RebuildRelease(w, r) ==
    /\ r.op = "rebuild_release" /\ cands[r.on] # None /\ CanRebuild(cands[r.on])
    /\ Send(w, r, [Idle EXCEPT !.cand = RecordRebuild(cands[r.on], r.by)])

CosignRelease(w, r) ==
    /\ r.op = "cosign_release" /\ cands[r.on] # None /\ CanCosign(cands[r.on], now, hash)
    /\ Send(w, r, [Idle EXCEPT !.cand = AddCosign(cands[r.on], r.by), !.who = {r.by}])

ActivateRelease(w, r) ==
    /\ r.op = "activate_release" /\ cands[r.on] # None /\ CanActivate(cands[r.on], now, hash)
    /\ Send(w, r, [Idle EXCEPT !.cand = Allowlist(cands[r.on]), !.who = cands[r.on].cosigns])

AccrueMinerRewards(w, r) == r.op = "accrue_profit" /\ Send(w, r, Idle)
UpsertMiner(w, r) == r.op = "upsert_miner" /\ Send(w, r, Idle)

ProposeMinerPayouts(w, r) ==
    r.op = "propose_payouts" /\ AssertPayoutCadenceOk(eco, now) /\ Send(w, r, Idle)

EconomyRequest(w, r) == AccrueMinerRewards(w, r) \/ UpsertMiner(w, r) \/ ProposeMinerPayouts(w, r)

Request(w) ==
    \E r \in todo :
        \/ ProposeEpochAdvance(w, r) \/ VoteEpochAdvance(w, r)
        \/ ProposeRelease(w, r) \/ RebuildRelease(w, r) \/ CosignRelease(w, r) \/ ActivateRelease(w, r)
        \/ EconomyRequest(w, r)

(***************************************************************************)
(* The ledger                                                              *)
(***************************************************************************)

\* put_proposal refuses an id that exists.
PutProposal(w) ==
    LET r == call[w].req IN
    /\ At(w, "put_proposal")
    /\ IF props[r.on] # None
       THEN Fail(w) /\ UNCHANGED <<props, hist>>
       ELSE /\ props' = [props EXCEPT ![r.on] = call[w].prop]
            /\ hist' = [hist EXCEPT !.votes[r.on] = {r.by}]
            /\ Proceed(w, call[w])
    /\ UNCHANGED <<todo, now, hash, epoch, chain, cands, allow, eco, disk, tmp, raced, refused, faults>>

\* save_proposal: the copy taken at the start replaces whatever is stored.
SaveVote(w) ==
    LET r == call[w].req IN
    /\ At(w, "save_vote")
    /\ props' = [props EXCEPT ![r.on] = call[w].prop]
    /\ hist' = [hist EXCEPT !.votes[r.on] = @ \cup {r.by}]
    /\ Proceed(w, call[w])
    /\ UNCHANGED <<todo, now, hash, epoch, chain, cands, allow, eco, disk, tmp, raced, refused, faults>>

\* head() and entries(): the place the new entry is made for.
ReadHead(w) ==
    /\ At(w, "head")
    /\ Proceed(w, [call[w] EXCEPT !.head = Len(chain)])
    /\ UNCHANGED <<todo, now, hash, memory, disk, tmp, hist, raced, refused, faults>>

\* The vote that makes the quorum goes on to close the proposal, any other ends.
Enough(c) == c.prop # None => Len(c.prop.votes) >= GovernanceT

\* append accepts an entry made for the present end of the chain.
Accepts(w) == call[w].head = Len(chain)

LedgerAppend(w) ==
    /\ At(w, "append")
    /\ IF Accepts(w)
       THEN /\ chain' = chain \o <<[kind |-> On(w), prev |-> call[w].head,
                                   epoch |-> IF On(w) = "epoch_advanced" THEN call[w].prop.to ELSE epoch]>>
            /\ IF On(w) = "vote_recorded" /\ ~Enough(call[w]) THEN Fail(w) ELSE Proceed(w, call[w])
            /\ UNCHANGED refused
       ELSE refused' = TRUE /\ Fail(w) /\ UNCHANGED chain
    /\ UNCHANGED <<todo, now, hash, epoch, props, cands, allow, eco, disk, tmp, hist, raced, faults>>

Close(w) ==
    /\ At(w, "close")
    /\ props' = [props EXCEPT ![call[w].req.on] = [call[w].prop EXCEPT !.closed = TRUE]]
    /\ Proceed(w, call[w])
    /\ UNCHANGED <<todo, now, hash, epoch, chain, cands, allow, eco, disk, tmp, hist, raced, refused, faults>>

\* advance_epoch up to set_epoch: the number of the proposal, whatever the epoch is.
AdvanceEpoch(w) ==
    /\ At(w, "set_epoch")
    /\ epoch' = call[w].prop.to
    /\ Proceed(w, call[w])
    /\ UNCHANGED <<todo, now, hash, chain, props, cands, allow, eco, disk, tmp, hist, raced, refused, faults>>

(***************************************************************************)
(* The release mesh                                                        *)
(***************************************************************************)

PutCandidate(w) ==
    LET r == call[w].req IN
    /\ At(w, "put_candidate")
    /\ IF cands[r.on] # None THEN Fail(w) /\ UNCHANGED cands
       ELSE cands' = [cands EXCEPT ![r.on] = call[w].cand] /\ Proceed(w, call[w])
    /\ UNCHANGED <<todo, now, hash, epoch, chain, props, allow, eco, disk, tmp, hist, raced, refused, faults>>

SaveCandidate(w) ==
    LET r == call[w].req IN
    /\ At(w, "save_candidate")
    /\ cands' = [cands EXCEPT ![r.on] = call[w].cand]
    /\ hist' = CASE r.op = "rebuild_release" -> [hist EXCEPT !.rebuilds[r.on] = @ \cup {r.by}]
                 [] r.op = "cosign_release" -> [hist EXCEPT !.cosigns[r.on] = @ \cup {r.by}]
                 [] OTHER -> hist
    /\ Proceed(w, call[w])
    /\ UNCHANGED <<todo, now, hash, epoch, chain, props, allow, eco, disk, tmp, raced, refused, faults>>

PutAllowlist(w) ==
    LET r == call[w].req IN
    /\ At(w, "put_allowlist")
    /\ allow' = {e \in allow : e.release # r.on} \cup {[release |-> r.on, hash |-> hash]}
    /\ Proceed(w, call[w])
    /\ UNCHANGED <<todo, now, hash, epoch, chain, props, cands, eco, disk, tmp, hist, raced, refused, faults>>

(***************************************************************************)
(* The economy                                                             *)
(***************************************************************************)

Change(w, e) ==
    /\ eco' = e
    /\ UNCHANGED <<todo, now, hash, epoch, chain, props, cands, allow, disk, tmp, raced, refused, faults>>

Earn(w, e) ==
    /\ hist' = [hist EXCEPT !.earned = @ + e.miners - eco.miners]
    /\ Proceed(w, call[w]) /\ Change(w, e)

\* AccrueGovernanceWork: nothing at all when no bounty is configured or it is zero.
AccrueGovernance(w) ==
    /\ At(w, "accrue_governance")
    /\ IF IsEnabled /\ BountySats(eco.miners) > 0
       THEN Earn(w, AccrueGovernanceJob(eco, call[w].who))
       ELSE Fail(w) /\ Change(w, eco) /\ UNCHANGED hist

AccrueProfit(w) ==
    At(w, "accrue_profit") /\ Validate(Splits) /\ Earn(w, AccrueProfitSplits(eco, call[w].req.amount))

Upsert(w) ==
    /\ At(w, "upsert")
    /\ Change(w, UpsertOperator(eco, call[w].req.by, call[w].req.miner))
    /\ IF call[w].req.miner.dest = "a/b" THEN Fail(w) ELSE Proceed(w, call[w])
    /\ UNCHANGED hist

\* A check of the economy that changes nothing: go on, with the shares so far, or fail.
Check(w, ok, pay) ==
    /\ IF ok THEN Proceed(w, [call[w] EXCEPT !.pay = pay]) ELSE Fail(w)
    /\ UNCHANGED <<todo, now, hash, memory, disk, tmp, hist, raced, refused, faults>>

Shares(w) ==
    LET amount == call[w].req.amount
        ok == CanPropose(eco, amount) IN
    At(w, "shares") /\ Check(w, ok, IF ok THEN ProposeEqualPayouts(eco, amount) ELSE {})

\* Every intent is checked against the operators, on a later snapshot.
AssertIntents(w) ==
    At(w, "assert") /\ Check(w, \A s \in call[w].pay : AssertBankIssued(eco, s.dest), call[w].pay)

Debit(w) ==
    LET amount == call[w].req.amount IN
    /\ At(w, "debit")
    /\ \/ CanDebit(eco, amount) /\ Change(w, DebitPool(eco, amount)) /\ Proceed(w, call[w])
       \/ ~CanDebit(eco, amount) /\ Change(w, eco) /\ Fail(w)
    /\ UNCHANGED hist

Record(w) ==
    /\ At(w, "record")
    /\ Change(w, RecordMinerPayout(eco, call[w].at)) /\ Proceed(w, call[w])
    /\ UNCHANGED hist

(***************************************************************************)
(* The files                                                               *)
(***************************************************************************)

Content(f) == IF f = "release" THEN [cands |-> cands, allow |-> allow] ELSE eco

\* persist and persist_meta: the snapshot under the lock, then the temporary file,
\* which every writer shares, then the rename.
Clone(w) ==
    /\ At(w, "clone")
    /\ Proceed(w, [call[w] EXCEPT !.snap = Content(On(w))])
    /\ UNCHANGED <<todo, now, hash, memory, disk, tmp, hist, raced, refused, faults>>

WriteTmp(w) ==
    /\ At(w, "write")
    /\ tmp' = [tmp EXCEPT ![On(w)] = call[w].snap]
    /\ Proceed(w, call[w])
    /\ UNCHANGED <<todo, now, hash, memory, disk, hist, raced, refused, faults>>

\* The answer of a payout is the last thing it does: the intents are the bank's.
Answered(w, h) ==
    IF call[w].req.op = "propose_payouts" /\ call[w].pc = Len(Steps(w))
    THEN [h EXCEPT !.paid = @ + call[w].req.amount, !.at = @ \o <<call[w].at>>, !.shares = call[w].pay]
    ELSE h

\* A rename finds the file gone when another writer renamed it first.
Rename(w) ==
    LET f == On(w) IN
    /\ At(w, "rename")
    /\ IF tmp[f] = None THEN Fail(w) /\ UNCHANGED <<disk, tmp, hist>>
       ELSE /\ disk' = [disk EXCEPT ![f] = tmp[f]]
            /\ tmp' = [tmp EXCEPT ![f] = None]
            /\ hist' = Answered(w, hist)
            /\ Proceed(w, call[w])
    /\ UNCHANGED <<todo, now, hash, memory, raced, refused, faults>>

Fault ==
    /\ \E r \in todo : r.op = "fault" /\ todo' = todo \ {r}
    /\ faults' = faults + 1

\* A write fails: the request ends with an error, memory keeps the change.
WriteFails(w) ==
    /\ At(w, "write") /\ Fault
    /\ Fail(w)
    /\ UNCHANGED <<now, hash, memory, disk, tmp, hist, raced, refused>>

\* hydrate_meta and load_economy: what boot reads back.
HydrateMeta == cands' = disk["release"].cands /\ allow' = disk["release"].allow
LoadEconomy == eco' = disk["economy"]

\* The process stops and boots again: genesis for the ledger, the files for the rest.
Restart ==
    /\ Fault
    /\ call' = [w \in Worker |-> Idle]
    /\ hash' \in Hash
    /\ epoch' = 0 /\ chain' = <<chain[1]>> /\ props' = [p \in Proposal |-> None]
    /\ HydrateMeta /\ LoadEconomy
    /\ tmp' = [f \in File |-> None]
    /\ hist' = [hist EXCEPT !.votes = [p \in Proposal |-> {}]]
    /\ UNCHANGED <<now, disk, raced, refused>>

\* A day passes.
Tick ==
    /\ \E r \in todo : r.op = "tick" /\ todo' = todo \ {r}
    /\ now' = now + 1
    /\ UNCHANGED <<call, hash, memory, disk, tmp, hist, raced, refused, faults>>

Step(w) ==
    \/ PutProposal(w) \/ SaveVote(w) \/ ReadHead(w) \/ LedgerAppend(w) \/ Close(w) \/ AdvanceEpoch(w)
    \/ PutCandidate(w) \/ SaveCandidate(w) \/ PutAllowlist(w)
    \/ AccrueGovernance(w) \/ AccrueProfit(w) \/ Upsert(w) \/ Shares(w) \/ AssertIntents(w) \/ Debit(w) \/ Record(w)
    \/ Clone(w) \/ WriteTmp(w) \/ Rename(w) \/ WriteFails(w)

Next == Restart \/ Tick \/ \E w \in Worker : Request(w) \/ Step(w)

Spec == Init /\ [][Next]_vars

(***************************************************************************)
(* Properties                                                              *)
(***************************************************************************)

\* Every variable has its type, in memory, in the files and in the temporary files;
\* no balance goes below zero (saturating arithmetic of reward.rs).
TypeOK ==
    /\ epoch \in Nat /\ hash \in Hash /\ now \in Nat /\ faults \in Nat
    /\ [release |-> [cands |-> cands, allow |-> allow], economy |-> eco] \in Files
    /\ disk \in Files
    /\ \A p \in Proposal : props[p] # None => props[p].to = props[p].from + 1 /\ props[p].closed \in BOOLEAN
    /\ \A f \in File : tmp[f] = None \/ [disk EXCEPT ![f] = tmp[f]] \in Files

\* The epoch number is that of a proposal for which governance_t different vaults
\* voted, however the votes' copies of it overwrote each other.
EpochHasQuorum ==
    epoch > 0 => \E p \in Proposal : /\ props[p] # None /\ props[p].to = epoch
                                     /\ Cardinality(hist.votes[p]) >= GovernanceT

\* The epoch goes back only when votes overlapped or the process restarted.
EpochForward == [][epoch' >= epoch \/ faults' > faults \/ "ledger" \in raced']_vars

\* Each entry was made for the place it has, so the hash chain holds although
\* three subsystems append to it without a lock between head() and append().
ChainLinked == \A i \in 2 .. Len(chain) : chain[i].prev = i - 1

\* An epoch that was reached is on the ledger, unless another append came in
\* between and the entry was refused.
EpochOnLedger ==
    \/ epoch = 0 \/ refused
    \/ \E i \in DOMAIN chain : chain[i].kind = "epoch_advanced" /\ chain[i].epoch = epoch
    \/ \E w \in Worker : call[w].req # None /\ call[w].req.op = "vote_epoch" /\ (At(w, "head") \/ At(w, "append"))

\* A binary is on the allow-list, in memory or on disk, only after enough different
\* vaults rebuilt it from source and cosigned it, and the council signed.
AllowlistEarned ==
    \A e \in allow \cup disk["release"].allow :
        /\ Cardinality(hist.cosigns[e.release]) >= VaultCosignQuorum
        /\ Cardinality(hist.rebuilds[e.release]) >= MinRebuilds
        /\ cands[e.release].rebuildable /\ CouncilOk(cands[e.release].council)
        /\ now - cands[e.release].at >= Timelock /\ cands[e.release].hash = e.hash

\* Without overlap and restart a cosign that was saved stays, and what is on the
\* allow-list is closed for further cosigns.
CosignsKept ==
    "release" \in raced \/ faults > 0 \/
        \A r \in Release : cands[r] # None =>
            /\ hist.cosigns[r] \subseteq cands[r].cosigns
            /\ (\E e \in allow : e.release = r) => cands[r].phase = "allowlisted"

\* Activation saves the candidate and the allow-list one after the other: a release
\* found half activated after a restart can be activated again.
HalfActivatedRecovers ==
    \A r \in Release :
        cands[r] # None /\ cands[r].phase = "allowlisted" /\ (\A e \in allow : e.release # r) =>
            CanActivate(cands[r], now, cands[r].hash)

\* Miners are never paid more than the pool received, through crashes and failed
\* writes, unless two requests overlapped in the economy and an older snapshot won.
PaidWithinEarned == "economy" \in raced \/ hist.paid + eco.miners <= hist.earned

SumOf(shares) == MapThenSumSet(LAMBDA s : s.amount, shares)

\* A payout proposal splits the amount exactly, and evenly to one sat.
SharesExact ==
    hist.shares # {} =>
        /\ \E r \in UNION {s.requests : s \in Scripts} :
              r.op = "propose_payouts" /\ SumOf(hist.shares) = r.amount
        /\ \A s, t \in hist.shares : s.amount - t.amount <= 1

\* Two payouts are a day apart, unless they overlapped.
PayoutsSpaced ==
    "economy" \in raced \/ \A i \in 1 .. Len(hist.at) - 1 : hist.at[i + 1] - hist.at[i] >= 1

\* The epoch was voted for by a quorum of vaults and, unless an append was
\* refused, stands on the ledger, whose chain is whole however votes and the
\* appends of releases and economy interleave (VoteEpochAdvance, append).
LedgerSound == TypeOK /\ EpochHasQuorum /\ ChainLinked /\ EpochOnLedger

\* A candidate keeps its cosigns and its phase, or can be brought on: nothing but
\* overlap or a restart takes a cosign away, and no restart leaves a release
\* stuck between its two saves (CosignRelease, ActivateRelease).
CandidatesKept == CosignsKept /\ HalfActivatedRecovers

\* Payouts are covered, exact and spaced (propose_equal_payouts, debit_pool,
\* record_miner_payout), through crashes and failed writes.
PayoutsSound == PaidWithinEarned /\ SharesExact /\ PayoutsSpaced
=============================================================================
