----------------------------- MODULE PsbtPolicy -----------------------------
(***************************************************************************)
(* What a vault checks of a PSBT before it signs: fee, locktime and RBF    *)
(* policy (psbt_policy.rs) and the binding of the outputs to the intent    *)
(* (intent_bind.rs).  A PSBT is a record                                   *)
(*   [ins : Seq([value, spk, utxo, seq, done]), outs : Seq([spk, value]),  *)
(*    lock : Nat]                                                          *)
(* where spk names the script an output pays, utxo says which form of the  *)
(* spent output is attached ("witness", "legacy" or "none"), seq whether   *)
(* the input signals RBF, and done whether it carries a signature.         *)
(***************************************************************************)
EXTENDS Integers, Sequences, SequencesExt

CONSTANTS Policy,   \* [maxFee, maxRate, maxLock, rbf]
          U64       \* width of a satoshi amount: sums wrap at U64

ASSUME PsbtPolicyAssumption ==
    /\ Policy.maxFee \in Nat /\ Policy.maxRate \in Nat /\ Policy.maxLock \in Nat
    /\ Policy.rbf \in {"allow", "require", "forbid"}
    /\ U64 \in Nat

ValuesOf(s) == FoldSeq(LAMBDA x, sum : x.value + sum, 0, s)

\* The inputs saturate, the sum of the outputs wraps.
InSats(p) == IF ValuesOf(p.ins) < U64 THEN ValuesOf(p.ins) ELSE U64 - 1
OutSats(p) == ValuesOf(p.outs) % U64

\* Transaction::weight of the unsigned transaction (external), in whole vbytes.
Vbytes(p) == 10 + 41 * Len(p.ins) + 43 * Len(p.outs)

\* A sequence below 0xfffffffe signals replaceability.
IsRbfSignal(in) == in.seq = "rbf"

RbfOk(in) == /\ Policy.rbf = "require" => IsRbfSignal(in)
             /\ Policy.rbf = "forbid" => ~IsRbfSignal(in)

\* PsbtPolicy::validate
Validate(p) ==
    /\ \A i \in DOMAIN p.ins : p.ins[i].utxo # "none"
    /\ OutSats(p) <= InSats(p)
    /\ InSats(p) - OutSats(p) <= Policy.maxFee
    /\ (InSats(p) - OutSats(p)) \div Vbytes(p) <= Policy.maxRate
    /\ p.lock = 0 \/ (Policy.maxLock # 0 /\ p.lock <= Policy.maxLock)
    /\ \A i \in DOMAIN p.ins : RbfOk(p.ins[i])

\* assert_outputs_match_intent: the outputs in order, payment first, then change.
BindStep(ok, out, pay, amount, change) ==
    CASE ok = "refused" -> "refused"
      [] out.spk = pay /\ out.value = amount /\ ok = "open" -> "paid"
      [] out.spk # pay /\ out.spk = change -> ok
      [] OTHER -> "refused"

\* Mutant: some output pays the intent, the others are not looked at.
PaysSomewhere(outs, pay, amount, change) ==
    amount > 0 /\ \E i \in DOMAIN outs : outs[i].spk = pay /\ outs[i].value = amount

AssertOutputsMatchIntent(outs, pay, amount, change) ==
    /\ outs # <<>> /\ amount > 0
    /\ FoldLeft(LAMBDA ok, out : BindStep(ok, out, pay, amount, change), "open", outs) = "paid"

\* collect_prevouts finds a spent output for every input.
CollectPrevouts(p) == \A i \in DOMAIN p.ins : p.ins[i].utxo \in {"witness", "legacy"}

\* The inputs the loop signs: a witness UTXO on the deposit key, not signed yet.
ToSign(p, ours) == {i \in DOMAIN p.ins : p.ins[i].utxo = "witness" /\ p.ins[i].spk = ours /\ ~p.ins[i].done}
=============================================================================
