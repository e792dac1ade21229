---------------------------- MODULE MCGovernance ----------------------------
EXTENDS Governance, TLC

Req(op, on, by) == [op |-> op, on |-> on, by |-> by]
Candidate(reb, cos, phase) ==
    [source |-> "src", rebuildable |-> TRUE, council |-> 2, at |-> 0, hash |-> 0,
     rebuilds |-> reb, cosigns |-> cos, phase |-> phase]

Miner == [dest |-> "d1", up |-> TRUE, waiting |-> FALSE]
Files0(c, e) == [release |-> [cands |-> [r \in Release |-> c], allow |-> {}], economy |-> e]
Pool(n) == [NewOpen EXCEPT !.miners = n, !.pending = 2, !.ops = [i \in Node |-> [Miner EXCEPT !.dest = IF i = 1 THEN "d1" ELSE "d2"]]]

Profit(n) == [op |-> "accrue_profit", amount |-> n, n |-> n]
Payout(n) == [op |-> "propose_payouts", amount |-> 3, n |-> n]
Miners(n, m) == [op |-> "upsert_miner", by |-> n, miner |-> m]
Propose(good) == [op |-> "propose_release", on |-> "r", source |-> "src", rebuildable |-> good, council |-> 2]

Day == [op |-> "tick"]
Fault1 == [op |-> "fault"]

Epochs == {Req("propose_epoch", "p1", 1), Req("propose_epoch", "p2", 1), Req("propose_epoch", "p3", 1),
           Req("vote_epoch", "p1", 2), Req("vote_epoch", "p2", 2), Req("vote_epoch", "p3", 2)}
Rebuilt == {Day, Propose(TRUE), Propose(FALSE), Req("rebuild_release", "r", 1), Req("cosign_release", "r", 1)}
Cosigned == {Day, Fault1, Req("cosign_release", "r", 1), Req("cosign_release", "r", 2), Req("activate_release", "r", 1)}
Reopened == {Req("cosign_release", "r", 2), Req("activate_release", "r", 1), Req("rebuild_release", "r", 2), Day}
Payouts == {Day, Fault1, Payout(1), Payout(2)}
Earnings == {Fault1, Profit(10), Payout(1), Miners(2, [Miner EXCEPT !.waiting = TRUE])}
Mixed == {Req("propose_epoch", "p1", 1), Req("vote_epoch", "p1", 1), Req("vote_epoch", "p1", 2),
          Fault1, Profit(10)}

MCScripts ==
    {[disk |-> Files0(None, NewOpen), requests |-> Epochs],
     [disk |-> Files0(None, NewOpen), requests |-> Rebuilt],
     [disk |-> Files0(Candidate({1}, {}, "proposed"), Pool(5)), requests |-> Cosigned],
     [disk |-> Files0(Candidate({1}, {1, 2}, "cosigning"), Pool(5)), requests |-> Reopened],
     [disk |-> Files0(None, Pool(6)), requests |-> Payouts],
     [disk |-> Files0(None, Pool(5)), requests |-> Earnings],
     [disk |-> Files0(None, Pool(5)), requests |-> Mixed]}

Workers == Permutations(Worker)
MCBounty == [sats |-> 1, bps |-> 1000]
=============================================================================
