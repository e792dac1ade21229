-------------------------- MODULE MCTreasurySigner --------------------------
EXTENDS TreasurySigner, TLC

Perms == Permutations(Refresher)

\* PsbtPolicy::lab_defaults
LabDefaults == [maxFee |-> 50000, maxRate |-> 250, maxLock |-> 0, rbf |-> "allow"]

In(v, spk, utxo) == [value |-> v, spk |-> spk, utxo |-> utxo, seq |-> "rbf", done |-> FALSE]
Out(spk, v) == [spk |-> spk, value |-> v]
Tx(ins, outs, lock) == [ins |-> ins, outs |-> outs, lock |-> lock]

\* Two mesh inputs with change; a foreign input beside a mesh one; and PSBTs that
\* drain fees, pay twice, pay someone else, wait, wrap or lack a spent output.
Good == Tx(<<In(60000, "mesh", "witness"), In(50000, "mesh", "witness")>>,
           <<Out("dest", 100000), Out("mesh", 9000)>>, 0)
Mixed == Tx(<<In(60000, "other", "legacy"), In(50000, "mesh", "witness")>>, <<Out("dest", 100000)>>, 0)
Drain == Tx(<<In(200000, "mesh", "witness")>>, <<Out("dest", 100000)>>, 0)
Rate == Tx(<<In(140000, "mesh", "witness")>>, <<Out("dest", 100000)>>, 0)
Twice == Tx(<<In(202000, "mesh", "witness")>>, <<Out("dest", 100000), Out("dest", 100000)>>, 0)
Escape == Tx(<<In(110000, "mesh", "witness")>>, <<Out("dest", 100000), Out("other", 9000)>>, 0)
Late == Tx(<<In(101000, "mesh", "witness")>>, <<Out("dest", 100000)>>, 1)
Bare == Tx(<<In(101000, "mesh", "none")>>, <<Out("dest", 100000)>>, 0)
Wrap == Tx(<<In(101000, "mesh", "witness")>>, <<Out("dest", 100000), Out("mesh", 1048576)>>, 0)

Request(s, i, b, p, commit) ==
    [session |-> s, intent |-> i, bucket |-> b, dest |-> "dest", amount |-> 100000, psbt |-> p, commit |-> commit]

MCRequests ==
    {Request("s1", "i1", "tr", p, TRUE) : p \in {Good, Mixed, Drain, Rate, Twice, Escape, Late, Bare, Wrap}}
        \cup {Request("s2", "i1", "tr", Good, TRUE), Request("s1", "i2", "channels", Good, FALSE),
               [Request("s1", "i1", "tr", Good, TRUE) EXCEPT !.amount = 0]}
=============================================================================
