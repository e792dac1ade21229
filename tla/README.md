# A TLA+ development of the kerosene vault mesh

The vault mesh holds threshold shares of signing keys. `n` vault nodes, each a
Rust process with an HTTP API, sign on behalf of a bank service (`kfe-service`)
when `t = ⌈2n/3⌉` of them take part. Between a request and a signature stand
several small distributed protocols: a session id must be used once in the whole
mesh, an intent must be spent once and within the caps, the signing day must move
only with a quorum, and FROST nonces must sign once. All of them work the same way,
by blocking HTTP calls to every peer in turn with timeouts and retries, an
append-only file or an atomically replaced one on each node, and in-memory tables
that a restart empties. What can go wrong lies between two requests, two nodes
or two system calls, where the unit tests of the repository hardly reach. That is
what these modules model.

## 1. The system's parts

State, operations and interactions, in the order of their weight for correctness.
File names are relative to `src/crates/vault-core/src/` unless they say otherwise.

| Part | State | Operations | Modelled by |
|---|---|---|---|
| Anti-nonce session ledger (`adapters/session_persist.rs`) | durable set of used session ids, soft entries with a TTL | `claim_session` on the coordinator; `POST /v1/anti-nonce/prepare` on the peers | `SessionGrant`, `AntiNonce` |
| Consumed-id logs (`session_persist.rs`, `bucket_memory.rs`) | `used_sessions.log`, `consumed_intents.log` and the sets loaded from them | check, append, fsync, insert; load at start | `ConsumedLog` |
| Intent and bucket ledger (`adapters/intent_consume.rs`, `bucket_memory.rs`, `domain/bucket.rs`) | consumed intents (durable), reservations with a TTL, `spent_today` | reserve, sign, commit, release, one-shot execute; `POST /v1/intent/consume/prepare` | `IntentLedger` |
| Daily rotation (`adapters/daily_rotation.rs`) | the ledger day and the day votes, both in files | `record_vote`, `advance`; `POST /v1/day/vote`; the reshare hook | `DayRotation` |
| Taproot wire co-signing (`adapters/frost_wire_cosign.rs`) | one pending nonce per session on each peer | `sign_raw_wire` on the coordinator; commit and sign-share handlers | `TrCosign` |
| Key generation over the wire (`dkg_wire.rs`, `dkg_tr_wire.rs`, `http.rs`) | one session record per id: constitution, packages, secrets; the sealed share | `start`, rounds 1 to 3, fan-out, finalise | `WireDkg` |
| Share refresh and reshare (`frost_reshare.rs`, `reshare_wire.rs`) | three key sets in memory, two of them sealed piece by piece | refresh for the new day or by hand; the wire rounds | `ShareKeeping`, `WireDkg` |
| Treasury signing (`http.rs`, `frost_tr_bitcoin.rs`, `psbt_policy.rs`, `intent_bind.rs`) | sessions, reservations, the PSBT of each request | `sign-psbt`, `sign-sighash`, reserve | `PsbtPolicy`, `TreasurySigner` |
| Governance ledger (`domain/ledger.rs`, `ledger_ops.rs`, `ledger_memory.rs`) | epoch, proposals, hash chain, all in memory | propose and vote an epoch, append | `Governance` |
| Releases (`domain/release.rs`, `release_ops.rs`, `release_persist.rs`) | candidates and the allow-list, in a file | propose, rebuild, cosign, activate | `Releases`, `Governance` |
| Operator economy (`domain/reward.rs`, `economy_ops.rs`, `economy_memory.rs`) | pools, operators, credits, last payout, in a file | accrue, upsert, propose payouts | `Economy`, `Governance` |
| `vault-signer` process (`src/crates/vault-signer`) | signing sessions in memory, the key file | install key, create session, submit, get signature | `SignerDaemon` |
| `vault-identityd` (`src/crates/vault-identityd`) | identity key in memory, in a file and in archives | load or generate, rotate, sign | `IdentityDaemon` |
| Lab quorum (`domain/threshold.rs`, `threshold_state.rs`, `application/sign.rs`) | shares in a prime field, signing sessions | begin, collect, combine | `LabThreshold` |
| Configuration, boot, seating, share store choice (`bootstrap/config.rs`, `wiring.rs`, `node_tier.rs`, `share_*.rs`) | the environment, the TPM envelope, sealed shares | `from_env`, `validate_hygiene`, `build` | `BootConfig`, `MeshAdmission` |
| Authentication and online probe (`auth_*.rs`, `online_probe.rs`) | none | principals, route classes, online count | `MeshAdmission` |
| Quantum migration, key lifecycle, admin views, health, metrics, channel inject | none that a caller changes | | not modelled, section 7 |

How they interact: `v1_bitcoin_sign_psbt` reserves the intent (soft prepares at the
peers), claims the session id (durable prepares), checks the ledger day, co-signs
over the wire, and commits the intent (durable prepares) or releases it. The day
rotation calls the reshare hook when the day moves; the hook replaces the shares
that co-signing uses and pays the voters through the economy. Releases, epochs and
rewards append to one ledger chain. At boot the configuration decides how keys are
made, where shares are sealed and who may call.

What is hard here: coordinators that race for one id and each see half of the
mesh; requests that are handled after their sender gave up; retries that meet
their own first attempt; crashes between a local write and the verdict of the
mesh; entries that expire under a call that still runs; a mutex that is dropped
for an I/O call; files that are cut or fall behind memory; runtime threads that
all wait for each other; objects that are read, changed and saved whole by two
requests; variables of an environment that disagree. `PROJECT.json` lists each of these hazards at its line
with the properties that cover it.

## 2. Modules

Each module says at its head which code it models and what it abstracts from.
Common to all: ids, days and nonces are values; every peer is contacted in some
order; an attempt that gets no answer may still be handled by the peer at any
later time (a *stray* request, or one left in `reqs`); a write with fsync is one
step except in `ConsumedLog`, `ShareKeeping`, `Governance` and `IdentityDaemon`; authentication
has already admitted the request, except in `MeshAdmission`.
Operators marked *Mutant* are plausible faulty versions of the definition after
them and are used by nothing else.

**SessionGrant** is the abstract promise of `AntiNoncePort`: a session id is granted
to at most one claim, for ever.

**AntiNonce** is `QuorumAntiNonce::claim_session`. A claim burns the id in the
local log (`BurnLocal`, or `LocalAppendError`), sends a prepare to one peer
after another (`SendPrepare`), reads answers of every sort (`ReceiveAck`,
`ReceiveTruncated`, `ReceiveRefusal`), retries (`AttemptFails`) and gives its
verdict (`FinishClaim`). A peer handles a request whenever it arrives
(`HandlePrepare`), if it has a runtime thread free, or is rate-limited
(`RefusePrepare`). `ClientError` is an HTTP client that cannot be built after the local
burn. `SoftPrepare`/`SoftExpires` are the soft entries, `CrashRestart`
the restart from the log. `log[n][s]` remembers which claim burnt the id; the
code only asks whether it is there, and so do the guards.

**ConsumedLog** opens up the append: `Check`, `WriteId`, `WriteNewline`, `Sync`, `Insert`,
by several threads of one node, because `writeln!` on an unbuffered file is two
system calls. The variable `held` tells the two callers apart: the anti-nonce ledger keeps
its mutex from the check to the insert, the bucket ledger drops it for the append; one
run covers both. `AppendError`, `ProcessDies`, `PowerFails` and `Restart` are the failures, before,
between and after the two writes. `spoilt` remembers the ids whose text met another id's on an
unfinished line, `cuts` how many appends ended before their newline.

**IntentLedger** is the two-phase spend. A call of one of five kinds reserves
(`ReserveLocal`, the fan-out, `ReserveEnds`), signs or fails to (`SignSucceeds`,
`SignFails`), commits or releases (`ReleaseCall`). A commit asks and burns under two separate
locks (`CommitLocal`, then `ClaimLocal` or `ClaimFails`), and `CommitEnds` follows its fan-out. The fan-out is
`PeerAnswers`, `PeerSilent`, `PeerGarbles` per peer and attempt, or `ClientError` before the first;
`StrayArrives` is the late request, `Expire` the TTL sweep, also under a running call,
`CrashRestart` the loss of reservations and of `spent_today`. `loosed` adds up what a sweep or a
client's release took off `spent_today` although a call stood for it, or with no reservation.

**DayRotation** is `QuorumDailyRotation::advance`: `Begin` (read the clock once, vote),
the exchange with each peer (`PeerAnswers`, `PeerRefuses`, `AttemptTimesOut`,
`PeerGivenUp`), `RecordPeerVote` one by one, `CountVotes`, `SetCurrent` under the lock,
`PersistDay`/`PersistFails` outside it, and `Reshare`, the hook. `VoteSelf` and
`StrayVote` are the vote handler outside an advance, `Tick` a clock, and
`CrashRestart` the start from the files. Any number of advances may overlap on a node;
`overtaken` remembers the days it moved to while an older call had still to write its own.

**TrCosign** is `sign_raw_wire_attributed` and its two handlers: `Start` (own
nonce), `CommitAnswered`, `Pack` (trim, package, local share), `ShareAnswered` or
`ShareRefused`, `Finish`; `AttemptTimesOut`, `PeerFails`, `StrayArrives` and `CrashRestart`
are the failures. A commitment stands for its nonce; FROST's own check, that the
nonces a signer uses are the ones in the package, is `Matches`. In the wired
process the peer state is built without an anti-nonce port, so that branch of
`handle_sign_share` is not part of the model; nor is the branch for a node outside the
trimmed set, because the coordinator asks only selected peers.

**WireDkg** has the three hubs that share one shape, `dkg_wire.rs`, `dkg_tr_wire.rs` and
`reshare_wire.rs`; the variable `hub` says which one a behaviour runs. `Start` and `Insert`
are the two halves of `start` around the unlocked `part1`; `Arrive` handles a
round message (`IngestRound1`, `IngestRound2`, with `AdvanceToRound2` and
`FinalizeRound3` inside them), `DkgRound2Impl` and `DkgRound3Impl` the HTTP rounds, `FanOut` one
post; `LosePost`, `FinalizeFails` and `Restart` are the failures. A polynomial is its owner
and the number of the `part1` run; a group key is the vector of those numbers, so
that a key summed from packages of two runs is told apart. In the reshare hub
the sender's identifier is byte 0 of a big-endian scalar (`IdentifierToU16Reshare`),
which is 0 for every vault, and the receiver refuses it: no session of that hub
gets past round 1.

**ShareKeeping** is the key material of one vault: the boot of each DKG mode
(`BootDealer`, `BootWire`, `WireDistributedDkg`; a dealer boot deals a new key when it
cannot load one, a wire boot leaves out a suite it cannot read), the refresh (`RunReshare`, `RefreshIntent`, `Snapshot`,
`RefreshTaproot`, `RefreshChannelsTaproot`, `PutShare` per piece, `JobFails`) for the new day and by hand, which may
overlap, and `Crash`. A share is the token of its group key and of all generations and refreshes whose polynomials
add up to it; shares sign together when their tokens are equal. A refresh adds its
own to what is there, so a torn set stays torn.

**PsbtPolicy** has the checks of one PSBT as operators. Sums of outputs wrap at
`U64`, sums of inputs saturate there, as in the code, at a smaller width.

**TreasurySigner** composes the two: requests that reserve (`Reserve`, `ReserveOnly`),
claim and check (`SignPsbt`, `RefusePsbt`), sign input after input with a new snapshot of
the shares each (`SignRawQuorum`, `SignFails`), and commit (`V1BitcoinSignPsbt`, `CommitFails`);
and the raw-sighash route (`V1BitcoinSignSighash`), which consumes the intent first.
The reservation table is a set here, without TTL; `IntentLedger` has that.

**Economy** and **Releases** are the values and rules of their domain files as operators;
**Governance** runs them. A request is a program of port calls, each under its own
lock, and other requests come between them; the economy and the release mesh
write a snapshot after every change, by `Clone`, `WriteTmp` and `Rename` over one temporary
name. `WriteFails` and `Restart` are the failures; a restart may bring another
constitution. A running process acts for its own node only; the lab suites
(`tests/ledger_epoch.rs`, `lab_e2e_suite.rs`, `release_mesh.rs`) run several vaults on one
store, and the module does as they do. `raced` remembers which subsystem saw overlapping
requests.

**SignerDaemon**, **IdentityDaemon** and **LabThreshold** are three signing processes beside the
node; **Processes** runs one of them at a time, because they share nothing. The
signer takes one connection after another, so a request is one action; `InstallCutShort` is a
death in the one that writes a file, in the write or before the reply. As written, that
crate does not compile (`Ok(Identifier::try_from(..))` in `CreateSession`, `UNIXEPOCH`
in `cleanup_expired`); the model follows the evident meaning. In `IdentityDaemon` a
directory is names and the files behind them, for the daemon and a command
write through one temporary name. Its archive clean-up looks for names that
*end* in `.old.`, so no archive is ever removed (`lib.rs:12` promises time-boxed retention).
`LabThreshold` computes in a field of five elements.

**BootConfig** is `from_env`, `validate_hygiene` with every check it calls, seating, and the
choice of the share store, as operators on an environment; **MeshAdmission** edits the
environments of two vaults, boots and stops them, seals shares and serves
requests. The node a header names and the voter or sender in the body are two inputs of a request. `VAULT_ONLINE_COUNT` is
the count itself or a ceiling of the probed one. The build is the one with default features. An edit of a running
vault is the same as one while it is down, since a process reads its environment
once; requests are served one at a time, since nothing here outlives one.

The `MC*` modules give the constants their values. The `*Proofs` modules extend the
modules they are about; `HostProofs` extends `MeshAdmission` and `Processes`, `AntiNonceProofs` also `ConsumedLog`.

## 3. Runs

Every run ends with no error over the whole reachable state space of its
instance. The number of states is in parentheses. Where an invariant is a
conjunction of named parts, the parts are listed with it.

* **AntiNonceSafety** (220 thousand) has three nodes, quorum two, two claims of one id, two
  attempts per peer. Three nodes are the least at which a quorum is neither one
  nor all; two claims are all that a conflict between claims needs; two
  attempts let a retry meet its own first attempt. `AtMostOneWinner`,
  `WinnerHoldsQuorum`, `FailedClaimStaysBurnt`, `RefusalHasCause` (no claim is refused as a
  reuse without another claim or a lost answer of its own), and `ImplementsGrant`.
* **AntiNonceLive** (3.6 thousand) has two nodes with one runtime thread each, which claim from each
  other: `ClaimsReturn`. Fairness: weak fairness of each claim's own next step, timeout
  included. `PeerHttpSettings` puts a timeout on the blocking client, so a claim
  that waits always gets an answer or an error. Nothing is assumed of peers or
  of the network.
* **IntentSafety** (1.2 million) has three nodes and two calls of the kinds sign, execute,
  commit and release for one intent, with reservations that may expire under a
  running call. `AtMostOneFreshCommit`, `FreshCommitHoldsQuorum`, `NoReserveAfterCommit`,
  `OnlySignedIntentsBurn`. One attempt per peer, because a retry is the same as a stray
  followed by an answer.
* **IntentCaps** (1.4 million) has two nodes and two intents of amount 2 under a day cap of 3,
  so that both fit only if something is miscounted: `CapsHold` (`AllIsCounted`, `DayCapHolds`). What a node holds, may
  still pay and has paid exceeds what it counts, and the cap, by `loosed` at most: by what sweeps under running calls and
  clients' releases took off. Refusals, rollbacks, lost answers and expiries of idle entries open no gap.
* **LogLocked** (2.1 million) has two threads, three ids, both logs, two cut appends:
  `FreshSurvives`, every id reported as fresh is loaded at the next start unless it is in `spoilt`, and
  under the mutex each cut spoils one id at most.
* **DayAdvance** (346 thousand) has two nodes, two days, two advances that overlap on one of them,
  failing writes and hooks, one stray, a bank that votes for day 2, drifting clocks:
  `AdvanceIsKnown`, `ReturnedDayIsDurable`, `ReshareOnce`, the last two except for `overtaken` days. Two days and two
  calls are what one call needs to overtake another; the proofs cover the other sizes.
* **TrCosignSafety** (743 thousand) has three nodes, threshold two, two coordinators that both
  select the third node, sessions equal or different: `NonceSignsOnce`, `OkIsWhole`,
  `FailureHasCause` (nonces that earlier calls left behind and calls for other
  messages never break a call). Two draws per node let a stray or a second call
  replace a pending nonce, though not both at one node; with three draws
  (7.3 million states) the properties hold too.

* **DkgWire** (654 thousand) has two vaults, each of the three hubs, two constitutions that
  operators may disagree on, three calls, two of them at one vault, two `part1` runs per vault, one stray
  message and one fault. `NoWedgedSession`: no session loses its round-1 secret without reaching round 2.
  `RefusedForDriftOnly`: on the DKG hubs a message on its way is never refused by a session with the same
  constitution, whatever its phase and however often it came. `SealedSound`: types, and `CompleteIsSealed`. Two runs of `part1` are what a restart or
  a race of two starts needs.
* **Treasury** (619 thousand, the two refreshers being symmetric) has one vault with two shares, both refreshers, seven key generations,
  one fault, one request at a time out of twelve: nine PSBTs (two good ones; others that
  drain or overpay fees, pay twice or someone else, wait, lack a spent output or wrap), a
  retry under a second session, an amount of zero, and the sign-only form.
  `SignedPaysIntent`, `OneSignaturePerIntent` (across both routes, retries, failed commits and
  crashes), `SignedUnderDepositKey`, `SharesSign` (types, `UnsignableHasCause`, `RestartStillSigns`),
  `DepositKeyStable`. One generation for each suite at boot, two for each overlapping
  refresh and one more for a boot after a crash make up the seven.
* **Governance** (199 thousand) has two worker threads and seven scripts: sets of requests
  that a behaviour may send in any order, from a given state of the files. `LedgerSound`
  (types, `EpochHasQuorum`, `ChainLinked`, `EpochOnLedger`), `EpochForward`, `AllowlistEarned`, `CandidatesKept`
  (`CosignsKept`, `HalfActivatedRecovers`), `PayoutsSound` (`PaidWithinEarned`, `SharesExact`, `PayoutsSpaced`).
  Several of them name what spoils them: `raced`, a restart, a refused append. What
  they say is that nothing else does. Quorums and the allow-list have no exception.
* **Processes** (111 thousand): `SignerSafe` (types, `ExactSigners`, `KeyLostHasCause`), `SessionsStand`
  (`CommitmentsStand`, `AnswerRepeats`), `IdentitySafe` (types, `KeysKept`, `FileLoads`, `SignsWithFile`), `LabSafe`
  (types, `QuorumReconstructs` over all polynomials and all sets of shares, `LocalNonceFresh`,
  `BegunIsSigned`, `AnswersItsRequest`).
* **Admission** (286 thousand) starts two vaults from one of six deployments (lab, lab with TPM
  stub, staging, a staging ceremony without KEROSENE_ENV, staging with TEE, production), lets an operator make up to two edits,
  of any variable at the first vault and of the mesh view at the second, one fault,
  and calls of eight kinds of callers. `LabStaysInLab` (types,
  `OutsideLabIsClosed`, `AllInterfacesAreGuarded`, `LabSecretStaysInLab`), `SealedShareOpens`, `RostersAgree`, `CallsJustified` (`TreasuryByKfe`,
  `CountsForSender`, `SignStopsBelowThreshold`). Two edits reach every pair of
  variables of one vault; the six starting points put the rest where a deployment has it.

Bounds: `MaxRetries`, `MaxStrays`, `MaxDay`, `MaxNonces`, `MaxTail`, `MaxCuts`, `MaxParts`, `MaxStray`, `MaxGen`, `MaxFaults`,
`MaxEdits`, `MaxKeys`, `MaxClock`, `MaxMade` are in the guards and named in the constants.
`CHECK_DEADLOCK FALSE` stands where requests, faults and days are finite and the system may rest. Symmetry is used over model values that the specification treats
alike, never in the liveness run.

## 4. Proofs

TLAPS checks these for every value of the constants that satisfies the named
assumptions (finite non-empty node set, naturals where numbers are meant). Each module
has one inductive invariant or, for stores that do not depend on each other, a few; a theorem says that it is one, and the others
follow from it. TLC checked every invariant on the run of its component first.

* **AntiNonceProofs**: `TypeCorrect`, `OneWinner`, `QuorumIsDurable`, `BurntForGood`, `RefusalsHaveCauses`,
  and `Refinement` (AntiNonce implements SessionGrant). "At most one winner" is not inductive: it
  says nothing of acknowledgements still unread. The invariant adds that a "not
  seen" answer, read or unread, comes from a node whose log entry is owned by
  this very claim (`AcksAreOwned`, `FreshIsOwned`), that a claim owns its own node's
  entry and does not count that node twice (`OwnsLocal`, `PeersAreOthers`), and that a
  winner passed the count (`WinnerCounted`). Log entries never change hands, two
  sets of `⌈2n/3⌉` nodes intersect, and the common node's entry has one owner.
  `LogSurvives`, about the logs of `ConsumedLog`, has no hypothesis. An id that was reported is alone on
  its line on disk or in `spoilt`; under the mutex at most one thread is between check and
  insert, so an unfinished line is its own or the debris of a cut, and the debris pays for the one id that is appended to it.
* **IntentLedgerProofs**: `IntentCommitsOnce`, `CommitIsDurable`, `CommittedIsClosed`, `FailedSignBurnsNothing` and
  `CapsAreKept`, besides `TypeCorrect`. The first two go by the argument of AntiNonce, for the
  burns of commits; what is new is that a retry may meet its own burn, so that
  "already burnt by me" has to be told from "fresh". For `CommittedIsClosed`, a soft prepare that was
  answered "not seen" came from a peer without a burn, so a call that reserves after the
  commit has only nodes outside the committed quorum on its side, and these are too few. `CapsAreKept` has no hypothesis either. It
  compares `spent_today` plus `loosed` with a sum over the running calls, each counted by itself because a sweep lets a second call
  hold the same intent, and over the entries no call holds and the intents that are paid (`Budget`). Facts about sums
  over sets would need induction; they are proved from a smallest counterexample instead.
* **DayRotationProofs**: `TypeCorrect`, `QuorumKnowsTheDay`, `AdvanceIsDurable`, `ReshareRunsOnce`. For the first two,
  every vote in a node's name, wherever it is held (map, file, stray, answer),
  is for a day that node has recorded (`ToldInv`), so a count of votes is a
  count of such nodes. The others go by `FileInv`, for any overlap of advances: overtaken days aside, a call that has still to
  write is as new as every day that is finished, pending or in memory, so its write takes the file back behind none,
  and one call at most is about to run the hook for a day.
* **TrCosignProofs**: `TypeCorrect`, `OneSharePerNonce`, `SignatureIsWhole`, `FailuresHaveCauses`. A nonce is in at most
  one place, a pending slot or a coordinator in its first round; a nonce in either place
  has made no share; using it takes it out (`NonceInv`). For the last two the invariant follows a call
  through its rounds (`CallsInvariance`): the commitments it has are of nonces its peers still hold, or something
  that is recorded took one away.
* **WireDkgProofs**: `NeverWedged`, `CompleteMeansSealed`, `RefusalIsDrift`. Whether `part2` accepts depends on packages that are
  still on their way, so the invariant follows each from the `part1` run that made it,
  through the call or the message that carries it, to the session that keeps
  it: everywhere the constitution it is labelled with has the threshold of its run
  (`Agrees`). A session keeps only packages with its own threshold, and a roster of
  the full size has only seated vaults in it.
* **TreasurySignerProofs**: `SharesStillSign`, `KeyIsStable`, `OneSignature`, `SameKey`, `PaysTheIntent`, `TypeCorrect`.
  A key set is written in pieces, without a lock, so the invariant says what holds at every
  piece: boot is alone when it writes; what is installed was sealed before, under the
  same group key and for the same shares, and every refresh writes that key; unless
  the suite is torn, one job at a time is between its first and its last write,
  and what it wrote stands. The threshold is the last piece, so a store
  without it was never installed and a new key over it replaces none. A request
  took the installed key, which no step short of a crash changes. A signature uses up the reservation of its intent, and no other
  request gets one while it is held or after it is committed. `PaysTheIntent` opens the
  folds that sum inputs and outputs (again by a smallest counterexample) and has the
  hypothesis `InputsFit`: the input amounts of a request sum to less than `U64`. All
  bitcoins do; without it the saturating sum of inputs would hide a fee.
* **GovernanceProofs**: `LedgerIsSound`, `EpochGoesForward`, `AllowlistIsEarned`, `CandidatesAreKept`, `PaidIsCovered`,
  `PayoutsAreSound`. A request is a place in the program of its operation and the copies it took before,
  so there is an invariant of these copies for each store, on top of the types (`Typed`) and of `Apart`: requests that
  still have a store to use exclude each other until an overlap is recorded. *Ledger* (`LedgerInv`): the votes in a copy
  of a proposal were cast and are of different vaults, and who advances the epoch counted enough of them. *Releases* (`ReleaseInv`):
  every copy of a candidate, in memory, in a request, in a snapshot, in the temporary file or on disk, is of one candidate that passed
  the checks of its phase, so it does not matter which of them wins; without overlap and fault no cosign is missing
  from any. *Payouts* (`PayInv`, `SharesInv`): without overlap what is written is what is in memory, what a payout took is
  owed until it answers, and memory and file both know of the last payout, so the gate opens a day later.
  That the shares sum to the amount for any number of operators is proved once more from a smallest counterexample: as many operators as
  the remainder have fewer than that many before them (`LowestSize`). `PayoutsAreSound` has the hypothesis `Gated`; with the cadence
  "manual" payouts are as close as the operator wants, and `PaidIsCovered` is what holds.
* **HostProofs**, about `MeshAdmission`: `SharesOpen`, `CallsAreJustified`, `LabIsKept`, `RostersAreOne`. The environment of
  a running vault is not edited, so the invariant (`MeshInv`) says that a runtime is what `from_env` and `build` make of
  the environment it has. An envelope is written once, before the vault that seals it is up, and a share file is a
  function of the view it was sealed under (`FileOf`): equal views, equal files. With the lab passphrase this
  decides `SharesOpen` and `LabIsKept`. Calls are decided by what the CA vouches for, and the online count is at most the number of
  vaults that are up. For `RostersAreOne`, candidates that carry an id twice carry
  it with one tier (`OneTierEach`), so dropping repetitions keeps a set that does not depend on the order of the list, and
  sorting by tier and id is a strict total order on it; a choice among the sorted sequences has then one outcome.
* **HostProofs**, about `Processes`: `NoKeyIsLost`, `SessionsAreExact`, `AnswersStand`, `LabQuorumSigns`. *Identity* (`IdentityInv`): the
  directory, its files and who has one open (`StoreInv`) hold always; that one process is at work at a time, that the
  temporary file is the one it has open, and that it found no key file when it began to write one (`OrderInv`), hold until requests overlap; that
  every key a caller was told is in the key file or an archive (`Stored`), until they overlap or an archive of the same second is overwritten. *Signer* (`SignerInv`): a
  session that waits has fewer commitments than it needs and one that is complete exactly that many,
  because a batch is taken up to its greatest accepted identifier, and the session before that
  one was still waiting. *Lab* (`LabInv`): a session id that began belongs to one request, which counted a quorum of
  partials for its own message; ids and nonces that were used are recorded, and are not taken again. `LabQuorumSigns` has the hypotheses `LabTypeOK` and
  `QuorumReconstructs`; they speak of the first state, where the shares are dealt, and no step changes the shares.

Assumptions made for these proofs, all true of the code: requests are records of
the PSBT fields with natural amounts (`RequestAssumption`), the markers for "no key" are not keys
(`NoneAssumption`), there is room for the two generations of the first boot (`MaxGen >= 2`). In the governance plane
requests carry what their operation reads and the files at boot are as requests that did not overlap leave
them (`GovernanceAssumption`; files that overlapping requests wrote are then reached by the steps and restarts of the model),
at least one rebuild is asked for (`ReleasesAssumption`, `wiring.rs:179`), and the reward share is at most all of
the profit (`EconomyAssumption`). A vault is deployed under its own id, which no edit changes, and every variable has a value
the parser knows (`EnvironmentAssumption`); the mesh CA issues the settlement URI and a vault's SVID to whom they name, and the
shared server SVID to one of its DNS names (`CallerAssumption`). Identifiers of the signer are finitely many, since they are `u16`
(`SignerAssumption`), and the mark for "no key" is none of the generated keys (`IdentityAssumption`).

Model-checked only: liveness (`ClaimsReturn`), which is out of the prover's reach, and that the shares dealt in
`LabThreshold` interpolate to the secret (`QuorumReconstructs`, and that they are in the field), a fold over data that would need
induction. Every other property of the runs is stated by a theorem. Some type invariants are proved only: a run
whose states a larger invariant already looks at does not repeat them.

## 5. Where the code and what is said of it differ

Modelling met these. TLC shows each on the modules as they are, with the constant or property that is named.

* *Two nodes return a signed transaction for one intent.* The soft entry that would
  have stopped the second one expired, and its commit finds the id burnt by the
  first node's durable prepare and takes that for its own retry (`intent_consume.rs:319`; the
  log does not say who burnt an id). `docs/DAY_ADVANCE_RESHARE.md:91-93`: "Cross-node
  double-spend → `already_seen` / Intent replay." `AtMostOneFreshCommit` counts only commits that find the id unburnt.
* *Consumed ids are lost.* `prepare_consume` drops the mutex before the append
  (`bucket_memory.rs:252`): two threads write id, id, newline, newline, a line that loads as
  neither. `bucket_memory.rs:204-206`: "Durable consumed-intent ledger (append-only fsync log)
  [...] Prevents Intent replay across restarts". Without the exception for `spoilt`, `FreshSurvives` fails with
  `held = FALSE` and no failure at all; with the mutex it takes a cut append, after which the next id is lost.
* *A day goes back.* The day is written after its lock is released (`daily_rotation.rs:407`), so an older advance
  may write last. The lock and `DayEpochStale` (`:400`) are there so that days only go forward. Without
  `overtaken`, `ReturnedDayIsDurable` and `ReshareOnce` fail.
* *The lab passphrase outside the lab.* `config.rs:663`: "Default share passphrase only in lab ceremony (#22)."
  `validate_lab_passphrase_defaults` looks at it for the AEAD store only (`:667-669`). A staging vault
  with the TEE staging stub and `VAULT_DATA_PASSPHRASE=kerosene-vault-lab-passphrase` boots and seals its shares under it
  (`wiring.rs:296-303`). It is a named exception of `LabSecretStaysInLab`.
* *All interfaces with clearnet publish in staging.* `config.rs:647`: "Staging/production must not default-bind all interfaces (#27)",
  and the error of `:656` asks for "staging mTLS with no clearnet publish". The check is under `self.hardened` (`:654`), which
  `VAULT_CEREMONY_MODE=staging` alone does not set: with `KEROSENE_ENV` and `KEROSENE_VAULT_REFUSE_SIM` unset such a vault boots on
  0.0.0.0 and publishes its clearnet address. `AllInterfacesAreGuarded` names this as what is left open.
* *A day without a refresh.* The day is moved and written before the hook runs
  (`daily_rotation.rs:394`); when the hook fails or the node dies, the next advance finds
  the day already there. `docs/DAY_ADVANCE_RESHARE.md:3`: "a successful advance refreshes
  **Intent FROST** and **Taproot FROST** [...] shares".
* *Peers do not vote.* The vote handler answers with the caller's day (`http.rs:777`), and the
  caller counts it as the peer's vote. `daily_rotation.rs:79`: "each ACK returns that
  peer's self-vote for `target`".
* *One vault that is down stops co-signing.* `collect_commitments` returns the first
  error (`frost_wire_cosign.rs:274`), before the online nodes are counted against
  `min_signers`. `docs/VAULT_MESH_PLAN.md:366`: "Fail-stop se online &lt; `t`".

## 6. Limits

* A node can exceed its day cap by what `loosed` counts: a sweep under a call that takes longer than the TTL of 300 s, since
  `commit_consume` of the quorum ledger does not ask for a reservation (`intent_consume.rs:324`) and a release after the sweep
  subtracts the amount again (`bucket_memory.rs:175`); and a client's release of what a running call holds, or of nothing. `CapsHold` bounds
  the gap and says that nothing else opens one. The reservations of `OneSignaturePerIntent` have no TTL.
* `spent_today` is never reset (`bucket_memory.rs:22`): a node that keeps running uses up its
  day cap for good. The caps are modelled within that one day.
* Several properties name what spoils them and excuse it: `spoilt`, `overtaken`, `loosed`, `torn`, `raced`, `overlapped`, `refused`,
  faults and restarts. They say that nothing else does; that the named thing cannot happen they do not say, and it can.
* No property catches a start that replaces a polynomial whose package has already left
  (`dkg_wire.rs:369`): `WireDkg` has the race, and its sessions may end with keys summed from packages of two `part1` runs, but no property
  says that all vaults end with one key. `part2` fails for a different threshold only, not for a malformed package.
* `WireDkg` has one session id; that sessions share the names under which pieces are sealed (`dkg_wire.rs:635-638`) is left out, and so is the
  late-join branch of `ingest_round1` (`:494-498`), which no state reaches.
* Taken as one step although the code takes two: the reservation, refusal and release of a PSBT that is refused (`TreasurySigner.RefusePsbt`), and
  two pairs of adjacent lock acquisitions that only read (`release_persist.rs:47-48`, `ledger_ops.rs:75-76`, in `Governance.Clone` and
  `ReadHead`). A rename to the archive that fails while the identity daemon lives on changes no state and is no action of its own.
* `SignedPaysIntent` bounds the fee only of transactions whose outputs do not wrap
  (`psbt_policy.rs:81` sums without a check) and whose inputs do not saturate. A sign-only request may be repeated under
  one reservation (`http.rs:560`).
* `DepositKeyStable` excepts a dealer boot that could not read the store
  (`wiring.rs:561` takes any error for an absent key and seals a new one over it).
* `CountsForSender` holds where the receiver knows the sender; a shared server certificate
  whose owner is unknown counts for the one name that is known. A seed list that
  names a vault twice counts it twice (`online_probe.rs:88`).
* The payout cadence "epoch" can never pay: `ProposeMinerPayouts` passes no epoch.
* One bucket, no destination allow-list and no policy hash in `IntentLedger`.

## 7. Not modelled

* Quantum migration (`quantum_state.rs`, `quantum_migration.rs`, `share_migration.rs`): a stub that nothing
  constructs; it validates one transition and stores nothing, its sweeps return that
  they are not implemented. Key lifecycle: nothing constructs it either.
* Admin views, health, metrics, JSON reports, error types: they read and format.
* Cryptography and bytes: `hybrid_envelope.rs`, `identity_hybrid.rs`, certificate chains
  (`tls_peer_verify.rs`), SEV-SNP and SGX reports, ciphers and TPM device calls, address
  parsing. Their outcome is a condition of the modules that need it.
* `frost_sign.rs` (`sign_lab_quorum`): one in-process signature behind the claim that `AntiNonce`
  models. `v1_financial_quorum`: no state; its rounds are `TrCosign`'s.
* Code that no caller reaches: `contribute_local_partial`, the DKG and reshare helpers and
  session clean-up of `vault-signer`, `finalize` of the wire reshare (the reshare routes
  answer NOT_IMPLEMENTED), the channel-inject stub.
* The sliding window of the rate limiter (its refusal is an action of `AntiNonce`), the
  retries of `http_peer.rs` below one post of `WireDkg`, builds with features
  (`production`, `tee_hw`, `tpm`, `dealer_lab`) in `BootConfig`; `ShareKeeping` has the dealer boot.

## 8. Next

A composition of the intent ledger with `TreasurySigner`, TTL included, and with it `OneSignaturePerIntent` for requests
that outlive their reservation. The interpolation of the lab shares for every prime and threshold, which needs a prover with
induction.
