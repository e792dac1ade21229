--------------------------- MODULE TreasurySigner ---------------------------
(***************************************************************************)
(* PSBT signing (http.rs, frost_tr_bitcoin.rs) while the keys it uses are  *)
(* refreshed, the process crashes and boots again.  The caller asks for    *)
(* the deposit key, builds a PSBT on it and sends it with an intent; the   *)
(* vault takes a new snapshot of its shares for every input it signs.      *)
(*                                                                         *)
(* The script "mesh" of a PSBT is the deposit key the vault reported.  The *)
(* reservation table stands for the intent ledger, which IntentLedger      *)
(* models; the wire co-signing of a single share is TrCosign's, here it    *)
(* succeeds or fails.                                                      *)
(***************************************************************************)
EXTENDS ShareKeeping, PsbtPolicy

CONSTANTS Call,       \* requests that may be in progress at the same time
          Requests,   \* [session, intent, bucket, dest, amount, psbt, commit]
          RawSighash  \* lab ceremony with VAULT_LAB_ALLOW_RAW_SIGHASH=1

ASSUME RequestAssumption ==
    /\ None \notin Requests
    /\ \A r \in Requests :
        /\ r.bucket \in Sealed /\ r.commit \in BOOLEAN /\ r.amount \in Nat
        /\ r.psbt.lock \in Nat
        /\ r.psbt.ins \in Seq([value : Nat, spk : STRING, utxo : {"witness", "legacy", "none"},
                               seq : {"rbf", "final"}, done : BOOLEAN])
        /\ r.psbt.outs \in Seq([spk : STRING, value : Nat])

VARIABLES
    call,     \* call[c]: a sign-psbt request in progress
    used,     \* claimed session ids (on disk)
    reserved, \* intents that hold a reservation (in memory)
    burnt,    \* committed intents (on disk)
    signed,   \* history: the answers that carried signatures
    raw       \* history: intents whose raw sighash signature left

svars == <<call, used, reserved, burnt, signed, raw>>
vars == <<kvars, svars>>

NoCall == [req |-> None, vk |-> 0, todo |-> {}, sigs |-> {}]
Sessions == {r.session : r \in Requests}
Intents == {r.intent : r \in Requests}
Inputs == UNION {DOMAIN r.psbt.ins : r \in Requests}
Sigs == [input : Inputs, vk : 1 .. MaxGen]

\* Every variable has its type; an installed key set has a token for every share on
\* its roster.
TypeOK ==
    /\ KeepTypeOK
    /\ call \in [Call -> [req : Requests \cup {None}, vk : 0 .. MaxGen, todo : SUBSET Inputs, sigs : SUBSET Sigs]]
    /\ used \subseteq Sessions /\ reserved \subseteq Intents /\ burnt \subseteq Intents
    /\ signed \subseteq [req : Requests, vk : 1 .. MaxGen, sigs : SUBSET Sigs]
    /\ raw \subseteq Intents

Init == KeepInit /\ call = [c \in Call |-> NoCall] /\ used = {} /\ reserved = {} /\ burnt = {} /\ signed = {} /\ raw = {}

\* Mutant: every bucket is shown the USERS key.
DepositInfoShared(k) == slot["tr"].pub.vk

\* deposit_info: the group key of the suite, as the address the caller pays to.
DepositInfo(k) == slot[k].pub.vk

\* build_settlement_intent: an intent needs a destination and an amount, and on
\* the shared key the USERS bucket.
BuildSettlementIntent(r, shared) == r.dest # "" /\ r.amount > 0 /\ (shared => r.bucket = "tr")

\* v1_bitcoin_sign_psbt up to the orchestrator: reserve the intent, or find it
\* reserved; the suite's key must be installed.
Admits(r) ==
    /\ up /\ slot[r.bucket] # None
    /\ BuildSettlementIntent(r, r.bucket = "tr")
    /\ IF r.commit THEN r.intent \notin reserved \cup burnt ELSE r.intent \in reserved

Reserve(r) == reserved' = IF r.commit THEN reserved \cup {r.intent} ELSE reserved

\* maybe_reserve_intent for a channel: the reservation the sign-only request needs.
ReserveOnly(i) ==
    /\ up /\ i \notin reserved \cup burnt
    /\ reserved' = reserved \cup {i}
    /\ UNCHANGED <<kvars, call, used, burnt, signed, raw>>

\* The checks of sign_psbt between the claim and the first signature.
Signs(r) ==
    /\ r.psbt.ins # <<>>
    /\ Validate(r.psbt)
    /\ AssertOutputsMatchIntent(r.psbt.outs, r.dest, r.amount, "mesh")
    /\ CollectPrevouts(r.psbt)
    /\ ToSign(r.psbt, "mesh") # {}

\* sign_psbt claims the session, checks the PSBT and takes the deposit key.
SignPsbt(c, r) ==
    /\ call[c] = NoCall /\ Admits(r) /\ r.session \notin used
    /\ used' = used \cup {r.session}
    /\ Signs(r)
    /\ Reserve(r)
    /\ call' = [call EXCEPT ![c] = [req |-> r, vk |-> DepositInfo(r.bucket),
                                    todo |-> ToSign(r.psbt, "mesh"), sigs |-> {}]]
    /\ UNCHANGED <<kvars, burnt, signed, raw>>

\* ... or refuses it: the session stays burnt, the reservation is released.  A stale
\* day refuses a good PSBT as well.
RefusePsbt(c, r) ==
    /\ call[c] = NoCall /\ Admits(r) /\ r.session \notin used
    /\ used' = used \cup {r.session}
    /\ UNCHANGED <<kvars, call, reserved, burnt, signed, raw>>

\* sign_raw_quorum for the next input, with the shares installed now.
SignRawQuorum(c) ==
    LET r == call[c].req
        k == slot[r.bucket]
        i == CHOOSE i \in call[c].todo : \A j \in call[c].todo : i <= j IN
    /\ call[c].todo # {}
    /\ mode = "dealer" => Signable(k)
    /\ mode = "wire" => Cardinality(DOMAIN k.kp) = 1
    /\ call' = [call EXCEPT ![c].todo = @ \ {i},
                            ![c].sigs = @ \cup {[input |-> i, vk |-> k.pub.vk]}]
    /\ UNCHANGED <<kvars, used, reserved, burnt, signed, raw>>

\* The signature fails: with local shares when they do not aggregate, over the wire
\* for any reason of the peers.  The request releases its reservation.
SignFails(c) ==
    LET r == call[c].req IN
    /\ call[c].todo # {}
    /\ mode = "dealer" => ~Signable(slot[r.bucket])
    /\ reserved' = IF r.commit THEN reserved \ {r.intent} ELSE reserved
    /\ call' = [call EXCEPT ![c] = NoCall]
    /\ UNCHANGED <<kvars, used, burnt, signed, raw>>

\* Every input is signed: the intent is committed, then the answer leaves.
V1BitcoinSignPsbt(c) ==
    LET r == call[c].req IN
    /\ r # None /\ call[c].todo = {}
    /\ burnt' = IF r.commit THEN burnt \cup {r.intent} ELSE burnt
    /\ reserved' = IF r.commit THEN reserved \ {r.intent} ELSE reserved
    /\ signed' = signed \cup {[req |-> r, vk |-> call[c].vk, sigs |-> call[c].sigs]}
    /\ call' = [call EXCEPT ![c] = NoCall]
    /\ UNCHANGED <<kvars, used, raw>>

\* The commit fails after the signature: the answer is withheld and the reservation
\* not released; the local burn may have been made (too few peers answered) or not.
CommitFails(c) ==
    LET r == call[c].req IN
    /\ r # None /\ call[c].todo = {} /\ r.commit
    /\ \/ burnt' = burnt \cup {r.intent} /\ reserved' = reserved \ {r.intent}
       \/ UNCHANGED <<burnt, reserved>>
    /\ call' = [call EXCEPT ![c] = NoCall]
    /\ UNCHANGED <<kvars, used, signed, raw>>

\* Mutant: only consumed intents are refused.
MaybeGateIntentConsumedOnly(r) == BuildSettlementIntent(r, TRUE) /\ r.intent \notin burnt

\* maybe_gate_intent: the one-shot gate of the raw route, reserve and commit at once.
MaybeGateIntent(r) == BuildSettlementIntent(r, TRUE) /\ r.intent \notin reserved \cup burnt

\* sign_sighash: claims the session, then signs with one snapshot, or fails.
SignSighash(r) ==
    /\ used' = used \cup {r.session}
    /\ \/ /\ r.session \notin used
          /\ IF mode = "dealer" THEN Signable(slot["tr"]) ELSE Cardinality(DOMAIN slot["tr"].kp) = 1
          /\ raw' = raw \cup {r.intent}
       \/ raw' = raw

\* v1_bitcoin_sign_sighash: the intent is consumed before anything is signed, and
\* stays so when the key is missing or the signature fails.
V1BitcoinSignSighash(r) ==
    /\ RawSighash /\ up
    /\ MaybeGateIntent(r)
    /\ burnt' = burnt \cup {r.intent}
    /\ IF slot["tr"] = None THEN UNCHANGED <<used, raw>> ELSE SignSighash(r)
    /\ UNCHANGED <<kvars, call, reserved, signed>>

Next ==
    \/ KeepNext /\ ~up' /\ up /\ call' = [c \in Call |-> NoCall] /\ reserved' = {} /\ UNCHANGED <<used, burnt, signed, raw>>
    \/ KeepNext /\ (up' \/ ~up) /\ UNCHANGED svars
    \/ \E c \in Call, r \in Requests : SignPsbt(c, r) \/ RefusePsbt(c, r)
    \/ \E c \in Call : SignRawQuorum(c) \/ SignFails(c) \/ V1BitcoinSignPsbt(c) \/ CommitFails(c)
    \/ \E i \in Intents : ReserveOnly(i)
    \/ \E r \in Requests : V1BitcoinSignSighash(r)

Spec == Init /\ [][Next]_vars

(***************************************************************************)
(* Properties                                                              *)
(***************************************************************************)

\* What a signed PSBT may do: pay the intent's destination once and exactly, return
\* everything else to the deposit key, wait no longer than the policy's lock, and lose
\* no more than the fee cap, given that its output sum did not wrap.
SignedPaysIntent ==
    \A a \in signed :
        LET p == a.req.psbt
            paying == {i \in DOMAIN p.outs : p.outs[i].spk = a.req.dest} IN
        /\ \E i \in paying : paying = {i} /\ p.outs[i].value = a.req.amount
        /\ \A i \in DOMAIN p.outs \ paying : p.outs[i].spk = "mesh"
        /\ p.lock <= Policy.maxLock
        /\ ValuesOf(p.outs) < U64 => ValuesOf(p.ins) - ValuesOf(p.outs) \in 0 .. Policy.maxFee

\* An intent is signed for once, by the PSBT route or by the raw one, in whatever
\* order requests for it arrive, fail to commit, or are cut by a crash; a sign-only
\* request names a reservation and may be repeated.
OneSignaturePerIntent ==
    \A a, b \in signed : a.req.commit /\ b.req.commit /\ a.req.intent = b.req.intent =>
        a = b /\ a.req.intent \notin raw

\* Every signature of an answer verifies under the deposit key the PSBT was bound
\* to, although each input took its own snapshot and a refresh may have replaced
\* the shares between two inputs.
SignedUnderDepositKey == \A a \in signed : \A s \in a.sigs : s.vk = a.vk

\* Local shares that cannot sign together are the work of a write that was cut or
\* overlapped: the shares are sealed before they are installed.
UnsignableHasCause ==
    mode = "dealer" =>
        \A k \in Sealed : slot[k] # None /\ Cardinality(DOMAIN slot[k].kp) >= T /\ ~Signable(slot[k]) => k \in torn

\* Whenever no write is under way and none was cut or overlapped, a restart finds
\* shares that sign under the key the node signs with now.
RestartStillSigns ==
    \A k \in Sealed :
        slot[k] # None /\ k \notin torn /\ (\A j \in Job : ~Cut(j, k)) =>
            /\ Loads(k)
            /\ LoadTrShares(disk[k]).pub.vk = slot[k].pub.vk
            /\ Signable(slot[k]) => Signable(LoadTrShares(disk[k]))

\* A sealed group key is never replaced, through refreshes, cut writes, crashes and
\* boots in any mode, unless a boot could not read the store.
DepositKeyStable ==
    [][\A k \in Sealed : Loads(k) /\ k \notin unread' => Loads(k)' /\ disk'[k].pub.vk = disk[k].pub.vk]_vars

\* Crashes, cut writes and overlapping refreshes leave whole key sets that sign
\* together, now and after a restart, or the cause is known (persist_tr_shares,
\* load_tr_shares, refresh_taproot).
SharesSign == TypeOK /\ UnsignableHasCause /\ RestartStillSigns
=============================================================================
