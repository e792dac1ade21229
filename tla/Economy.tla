------------------------------ MODULE Economy -------------------------------
(***************************************************************************)
(* The miner economy as a value (reward.rs, ProfitSplits of bucket.rs):    *)
(* three credit pools, the operators, and the rules by which profit and    *)
(* governance bounties come in and miner payouts go out.  Operators are    *)
(* numbered in the order of their ids.  An operator is [dest, up, waiting] *)
(* with up the whole of its uptime, streak and bond tests.                 *)
(***************************************************************************)
EXTENDS Integers, FiniteSets, FiniteSetsExt

CONSTANTS Node,          \* 1 .. number of operators
          Destination,   \* payout destinations; "" is the empty one
          RewardBps,     \* p_reward_bps of the constitution
          Bounty,        \* GovernanceRewardConfig [sats, bps]
          Cadence,       \* MinerPayoutCadence: "manual", "daily", "weekly" or "epoch"
          None

Bps == 10000

ASSUME EconomyAssumption ==
    /\ IsFiniteSet(Node) /\ Node \subseteq Nat
    /\ RewardBps \in 0 .. Bps                          \* open_with_reward refuses more
    /\ Bounty \in [sats : Nat, bps : Nat]

\* lab_dry_run and open_with_reward: the three shares of profit.
LabDryRun == [miners |-> 0, channels |-> 5000, infra |-> 5000]

OpenWithReward(p) == [miners |-> p, channels |-> (Bps - p) \div 2, infra |-> Bps - p - (Bps - p) \div 2]

Validate(s) == s.miners + s.channels + s.infra = Bps

\* The remainder of both divisions goes to infra.
Allocate(s, profit) ==
    LET m == (profit * s.miners) \div Bps
        c == (profit * s.channels) \div Bps IN [miners |-> m, channels |-> c, infra |-> profit - m - c]

\* The splits of v1_open, or those of v1_lab when nothing is paid to miners.
Splits == IF RewardBps = 0 THEN LabDryRun ELSE OpenWithReward(RewardBps)

NewOpen == [miners |-> 0, channels |-> 0, infra |-> 0, profit |-> 0, pending |-> 0,
            credits |-> [n \in Node |-> 0], ops |-> [n \in Node |-> None], lastAt |-> -1]

Operators == [dest : Destination, up : BOOLEAN, waiting : BOOLEAN]

\* A destination with a path in it is refused.
UpsertOperator(e, n, op) == IF op.dest = "a/b" THEN e ELSE [e EXCEPT !.ops[n] = op]

IsEligible(op) == op # None /\ ~op.waiting /\ op.up /\ op.dest # ""

EligibleActive(e) == {n \in Node : IsEligible(e.ops[n])}

AccrueProfitSplits(e, profit) ==
    LET a == Allocate(Splits, profit) IN
    [e EXCEPT !.miners = @ + a.miners, !.channels = @ + a.channels,
              !.infra = @ + a.infra, !.profit = @ + profit]

BountySats(pool) == Bounty.sats + (pool * Bounty.bps) \div Bps

IsEnabled == Bounty.sats > 0 \/ Bounty.bps > 0

\* Equal shares of an amount; the first ones get a sat of the remainder each.
EqualShares(amount, who) ==
    [n \in who |-> LET k == Cardinality(who)
                       rank == Cardinality({m \in who : m < n}) IN
                   amount \div k + (IF rank < amount % k THEN 1 ELSE 0)]

\* The bounty goes to the pool; the eligible participants are credited with it.
AccrueGovernanceJob(e, participants) ==
    LET b == BountySats(e.miners)
        who == participants \cap EligibleActive(e)
        share == EqualShares(b, who) IN
    IF b = 0 THEN e
    ELSE [e EXCEPT !.credits = [n \in Node |-> e.credits[n] + (IF n \in who THEN share[n] ELSE 0)],
                   !.miners = @ + b, !.pending = @ + b]

\* propose_equal_payouts is refused without miners or without the amount.
CanPropose(e, amount) == EligibleActive(e) # {} /\ amount > 0 /\ amount <= e.miners

ProposeEqualPayouts(e, amount) ==
    LET share == EqualShares(amount, EligibleActive(e)) IN
    {[node |-> n, dest |-> e.ops[n].dest, amount |-> share[n]] : n \in EligibleActive(e)}

\* assert_bank_issued_miner_payout: an eligible operator registered the destination.
AssertBankIssued(e, dest) == \E n \in EligibleActive(e) : e.ops[n].dest = dest

CanDebit(e, amount) == amount <= e.miners

\* Mutant: what the governance part covers is not taken from the pool.
DebitPoolPendingFirst(e, amount) ==
    LET gov == IF amount < e.pending THEN amount ELSE e.pending IN
    [e EXCEPT !.miners = @ - (amount - gov), !.pending = @ - gov]

DebitPool(e, amount) ==
    [e EXCEPT !.miners = @ - amount, !.pending = @ - (IF amount < @ THEN amount ELSE @)]

\* The gate between two payouts; propose passes no epoch, so "epoch" never opens.
AssertPayoutCadenceOk(e, now) ==
    CASE Cadence = "manual" -> TRUE
      [] Cadence = "daily" -> e.lastAt < 0 \/ now - e.lastAt >= 1
      [] Cadence = "weekly" -> e.lastAt < 0 \/ now - e.lastAt >= 7
      [] Cadence = "epoch" -> FALSE

RecordMinerPayout(e, now) == [e EXCEPT !.lastAt = now]

=============================================================================
