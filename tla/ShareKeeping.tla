---------------------------- MODULE ShareKeeping ----------------------------
(***************************************************************************)
(* The FROST key material of one vault: what boot installs, what a refresh *)
(* replaces, and what the sealed store keeps in between.                   *)
(*                                                                         *)
(* Three suites: "intent" (memory only), "tr" (the USERS deposit key) and  *)
(* "channels".  A share or public key package is known by its token        *)
(* [vk, gen]: the group key it belongs to, and the generation and refreshes *)
(* whose polynomials add up to its own.  Shares sign together when they    *)
(* have one token.                                                         *)
(*                                                                         *)
(* A sealed key set is written piece by piece, one put_share after the     *)
(* other: the shares, the public key package, the roster, the threshold.   *)
(* A refresh for the new day and one asked for by an operator may overlap; *)
(* nothing locks the store against the other.                              *)
(***************************************************************************)
EXTENDS Integers, FiniteSets

CONSTANTS
    N,          \* share identifiers 1..N of the constitution
    T,          \* its threshold
    Refresher,  \* refreshes that may be in progress at the same time
    MaxGen,     \* bound: key generations and refreshes
    MaxFaults,  \* bound: failed writes, failed appends and crashes
    None

ASSUME ShareKeepingAssumption ==
    /\ N \in Nat /\ T \in 2 .. N
    /\ MaxGen \in Nat /\ MaxGen >= 2 /\ MaxFaults \in Nat
    /\ "boot" \notin Refresher

VARIABLES
    mode,    \* VAULT_DKG_MODE: "dealer", "wire", "distributed"
    up,      \* boot is over
    slot,    \* slot[k]: the installed key set of suite k
    disk,    \* disk[k]: the sealed pieces of suite k
    job,     \* job[j]: what boot or a refresh does next
    gens,    \* generations so far
    torn,    \* history: suites whose writes were cut, or overlapped others
    unread,  \* history: suites a boot could not read although they were sealed
    faults   \* faults so far

kvars == <<mode, up, slot, disk, job, gens, torn, unread, faults>>

Id == 1 .. N
Modes == {"dealer", "wire", "distributed"}
Sealed == {"tr", "channels"}
Suite == {"intent"} \cup Sealed
Job == {"boot"} \cup Refresher
Pieces == 1 .. N + 3   \* in the order they are written: shares, public package, roster, threshold
Token == [vk : 1 .. MaxGen, gen : SUBSET (1 .. MaxGen)]
Blank == [kp |-> [i \in Id |-> None], pub |-> None, roster |-> {}, min |-> 0]
Idle == [op |-> "idle", suite |-> "intent", new |-> None, next |-> 1]

KeySets == [kp : UNION {[ids -> Token] : ids \in SUBSET Id}, pub : Token]

ASSUME NoneAssumption == None \notin Token /\ None \notin KeySets

KeepTypeOK ==
    /\ mode \in Modes /\ up \in BOOLEAN
    /\ slot \in [Suite -> KeySets \cup {None}]
    /\ disk \in [Sealed -> [kp : [Id -> Token \cup {None}], pub : Token \cup {None},
                            roster : SUBSET Id, min : {0, T}]]
    /\ job \in [Job -> [op : {"idle", "intent", "snap", "put", "load"}, suite : Suite,
                        new : KeySets \cup {None}, next : 1 .. N + 4]]
    /\ gens \in 0 .. MaxGen /\ torn \subseteq Sealed /\ unread \subseteq Sealed /\ faults \in 0 .. MaxFaults

(***************************************************************************)
(* Key sets                                                                *)
(***************************************************************************)

\* The key set of one generation: every share and the public package agree.
KeySet(ids, vk, g) == [kp |-> [i \in ids |-> [vk |-> vk, gen |-> {g}]], pub |-> [vk |-> vk, gen |-> {g}]]

\* generate_tr_dealer, DealerLabAdapter::generate: a new group key.
GenerateTrDealer(g) == KeySet(Id, g, g)
Generate(g) == KeySet(Id, g, g)

\* run_in_process: three DKG rounds of N logical participants, a new group key.
RunInProcess(g) == KeySet(Id, g, g)

\* Mutant: the participants run a new key generation.
RefreshTrSharesNewKey(k, g) == KeySet(DOMAIN k.kp, g, g)

\* refresh_shares_in_process, refresh_tr_shares_in_process: shares of a zero
\* polynomial are added to what the key set holds, whole or torn; the group key
\* stays.
RefreshTrShares(k, g) ==
    [kp |-> [i \in DOMAIN k.kp |-> [k.kp[i] EXCEPT !.gen = @ \cup {g}]],
     pub |-> [k.pub EXCEPT !.gen = @ \cup {g}]]

RefreshShares(k, g) == RefreshTrShares(k, g)

\* The parameter checks of a refresh: at least two shares and a threshold in range.
Refreshable(k) == Cardinality(DOMAIN k.kp) >= 2 /\ T <= Cardinality(DOMAIN k.kp)

\* frost aggregate and verify (external): the signers' shares are of one
\* polynomial and their key is the one verified against.
Aggregates(k, signers) == \A i, j \in signers : k.kp[i] = k.kp[j] /\ k.kp[i].vk = k.pub.vk

\* The signers a local multi-share signature takes: the first T identifiers.
FirstSigners(k) == {i \in DOMAIN k.kp : Cardinality({j \in DOMAIN k.kp : j <= i}) <= T}
Signable(k) == Cardinality(DOMAIN k.kp) >= T /\ Aggregates(k, FirstSigners(k))

(***************************************************************************)
(* The sealed store                                                        *)
(***************************************************************************)

\* persist_tr_shares, one put_share: piece p of key set new.
PutPiece(d, new, p) ==
    CASE p = N + 1 -> [d EXCEPT !.pub = new.pub]
      [] p = N + 2 -> [d EXCEPT !.roster = DOMAIN new.kp]
      [] p = N + 3 -> [d EXCEPT !.min = T]
      [] OTHER -> IF p \in DOMAIN new.kp THEN [d EXCEPT !.kp[p] = new.kp[p]] ELSE d

\* persist_tr_channels_shares: the same writes under share ids of its own.
PutChannelsPiece(d, new, p) == PutPiece(d, new, p)

Put(k, d, new, p) == IF k = "tr" THEN PutPiece(d, new, p) ELSE PutChannelsPiece(d, new, p)

\* load_tr_shares and load_tr_channels_shares succeed: roster, threshold, public
\* package, and a share for every name on the roster.
LoadsTr(d) == d.roster # {} /\ d.min # 0 /\ d.pub # None /\ \A i \in d.roster : d.kp[i] # None

LoadsTrChannels(d) == LoadsTr(d)
Loads(k) == IF k = "tr" THEN LoadsTr(disk[k]) ELSE LoadsTrChannels(disk[k])

LoadTrShares(d) == [kp |-> [i \in d.roster |-> d.kp[i]], pub |-> d.pub]

(***************************************************************************)
(* Boot                                                                    *)
(***************************************************************************)

\* A node without sealed keys, one that holds the single share of a wire DKG, or
\* one that a dealer boot provisioned before.
SingleShare == [kp |-> [i \in Id |-> IF i = 1 THEN [vk |-> 1, gen |-> {1}] ELSE None],
                pub |-> [vk |-> 1, gen |-> {1}], roster |-> {1}, min |-> T]

DealtBefore(v) == [kp |-> [i \in Id |-> [vk |-> v, gen |-> {v}]], pub |-> [vk |-> v, gen |-> {v}],
                   roster |-> Id, min |-> T]

KeepInit ==
    /\ mode \in Modes /\ up = FALSE
    /\ slot = [k \in Suite |-> None]
    /\ disk \in {[k \in Sealed |-> Blank], [k \in Sealed |-> DealtBefore(IF k = "tr" THEN 1 ELSE 2)],
                [k \in Sealed |-> IF k = "tr" THEN SingleShare ELSE Blank]}
    /\ job = [j \in Job |-> Idle]
    /\ gens = 2 /\ torn = {} /\ unread = {} /\ faults = 0

\* Boot with dealer_lab: the intent shares are dealt anew, then the sealed suites.
BootDealer ==
    /\ mode = "dealer" /\ gens < MaxGen
    /\ gens' = gens + 1
    /\ slot' = [slot EXCEPT !["intent"] = Generate(gens + 1)]
    /\ job' = [job EXCEPT !["boot"] = [Idle EXCEPT !.op = "load", !.suite = "tr"]]
    /\ UNCHANGED <<up, disk, faults>>

\* Boot with distributed_wire: install the sealed single shares, refuse more; a suite
\* that cannot be read, though its pieces are there, stays uninstalled.
BootWire(lost) ==
    /\ mode = "wire"
    /\ lost # {} => faults < MaxFaults /\ \A k \in lost : Loads(k)
    /\ faults' = IF lost = {} THEN faults ELSE faults + 1
    /\ \A k \in Sealed \ lost : Loads(k) => Cardinality(disk[k].roster) = 1
    /\ slot' = [k \in Suite |-> IF k \in Sealed \ lost /\ Loads(k) THEN LoadTrShares(disk[k]) ELSE None]
    /\ up' = TRUE
    /\ UNCHANGED <<disk, job, gens>>

\* wire_distributed_dkg: an in-process ceremony for the intent suite at every boot.
WireDistributedDkg ==
    /\ mode = "distributed" /\ gens < MaxGen
    /\ gens' = gens + 1
    /\ slot' = [slot EXCEPT !["intent"] = RunInProcess(gens + 1)]
    /\ up' = TRUE
    /\ UNCHANGED <<disk, job, faults>>

Boot ==
    /\ ~up /\ job["boot"] = Idle
    /\ BootDealer \/ WireDistributedDkg \/ \E lost \in SUBSET Sealed : BootWire(lost)
    /\ UNCHANGED <<mode, torn, unread>>

Install(k, new) ==
    /\ slot' = [slot EXCEPT ![k] = new]
    /\ up' = (k = "channels")
    /\ job' = [job EXCEPT !["boot"] = IF k = "channels" THEN Idle
                                      ELSE [Idle EXCEPT !.op = "load", !.suite = "channels"]]

Deal(k) ==
    /\ gens < MaxGen
    /\ gens' = gens + 1
    /\ job' = [job EXCEPT !["boot"] = [op |-> "put", suite |-> k,
                                       new |-> GenerateTrDealer(gens + 1), next |-> 1]]
    /\ UNCHANGED <<mode, up, slot, disk, torn>>

\* The dealer boot of one suite: sealed material if it loads, else a fresh key.
BootLoad ==
    LET k == job["boot"].suite IN
    /\ job["boot"].op = "load"
    /\ Loads(k)
    /\ Install(k, LoadTrShares(disk[k]))
    /\ UNCHANGED <<mode, disk, gens, torn, unread, faults>>

BootDeal ==
    /\ job["boot"].op = "load"
    /\ ~Loads(job["boot"].suite)
    /\ Deal(job["boot"].suite)
    /\ UNCHANGED <<unread, faults>>

\* A read fails although the pieces are there: the error is not looked at, and a
\* fresh key takes their place.
BootReadFails ==
    LET k == job["boot"].suite IN
    /\ job["boot"].op = "load"
    /\ Loads(k) /\ faults < MaxFaults
    /\ Deal(k)
    /\ unread' = unread \cup {k} /\ faults' = faults + 1

BootInstall ==
    /\ job["boot"].op = "put" /\ job["boot"].next \notin Pieces
    /\ Install(job["boot"].suite, job["boot"].new)
    /\ UNCHANGED <<mode, disk, gens, torn, unread, faults>>

(***************************************************************************)
(* Refresh                                                                 *)
(***************************************************************************)

\* run_reshare, called by the day advance (on_day_advance) or by hand
\* (v1_reshare_trigger): refused without dealer_lab or without N local shares; the intent
\* snapshot is taken.
RunReshare(j) ==
    /\ up /\ job[j] = Idle
    /\ mode = "dealer" /\ slot["intent"] # None
    /\ job' = [job EXCEPT ![j] = [Idle EXCEPT !.op = "intent", !.new = slot["intent"]]]
    /\ UNCHANGED <<mode, up, slot, disk, gens, torn, unread, faults>>

\* refresh_intent: the shares in memory are replaced, nothing is sealed; the
\* ledger entry comes last.
RefreshIntent(j) ==
    /\ job[j].op = "intent" /\ gens < MaxGen
    /\ gens' = gens + 1
    /\ slot' = [slot EXCEPT !["intent"] = RefreshShares(job[j].new, gens + 1)]
    /\ job' = [job EXCEPT ![j] = [Idle EXCEPT !.op = "snap", !.suite = "tr"]]
    /\ UNCHANGED <<mode, up, disk, torn, unread, faults>>

\* refresh_taproot and refresh_channels_taproot up to the first write: a snapshot,
\* its refresh, or an error for a single share.
Snapshot(j) ==
    LET k == job[j].suite IN
    /\ job[j].op = "snap"
    /\ \/ /\ Refreshable(slot[k]) /\ gens < MaxGen
          /\ gens' = gens + 1
          /\ job' = [job EXCEPT ![j] = [op |-> "put", suite |-> k,
                                        new |-> RefreshTrShares(slot[k], gens + 1), next |-> 1]]
       \/ /\ ~Refreshable(slot[k])
          /\ job' = [job EXCEPT ![j] = Idle]
          /\ UNCHANGED gens
    /\ UNCHANGED <<mode, up, slot, disk, torn, unread, faults>>

\* A job, another job, is between its first and its last write of the suite.
Cut(j, k) == job[j].op = "put" /\ job[j].suite = k /\ job[j].next \in 2 .. N + 3
Overlaps(j, k) == \E i \in Job \ {j} : Cut(i, k)

\* One put_share of boot or of a refresh.
PutShare(j) ==
    LET k == job[j].suite IN
    /\ job[j].op = "put" /\ job[j].next \in Pieces
    /\ disk' = [disk EXCEPT ![k] = Put(k, @, job[j].new, job[j].next)]
    /\ job' = [job EXCEPT ![j].next = @ + 1]
    /\ torn' = IF Overlaps(j, k) THEN torn \cup {k} ELSE torn
    /\ UNCHANGED <<mode, up, slot, gens, unread, faults>>

\* Mutant: the first share in memory is kept.
RefreshTaprootKeepsFirst(j) ==
    /\ job[j].op = "put" /\ job[j].suite = "tr" /\ job[j].next \notin Pieces
    /\ slot' = [slot EXCEPT !["tr"] = [job[j].new EXCEPT !.kp[1] = slot["tr"].kp[1]]]
    /\ job' = [job EXCEPT ![j] = [Idle EXCEPT !.op = "snap", !.suite = "channels"]]
    /\ UNCHANGED <<mode, up, disk, gens, torn, unread, faults>>

\* After the last write the slot is replaced; the ledger entry, and the next suite.
RefreshTaproot(j) ==
    /\ job[j].op = "put" /\ job[j].suite = "tr" /\ job[j].next \notin Pieces
    /\ slot' = [slot EXCEPT !["tr"] = job[j].new]
    /\ job' = [job EXCEPT ![j] = [Idle EXCEPT !.op = "snap", !.suite = "channels"]]
    /\ UNCHANGED <<mode, up, disk, gens, torn, unread, faults>>

RefreshChannelsTaproot(j) ==
    /\ job[j].op = "put" /\ job[j].suite = "channels" /\ job[j].next \notin Pieces
    /\ slot' = [slot EXCEPT !["channels"] = job[j].new]
    /\ job' = [job EXCEPT ![j] = Idle]
    /\ UNCHANGED <<mode, up, disk, gens, torn, unread, faults>>

(***************************************************************************)
(* Faults                                                                  *)
(***************************************************************************)

\* A put_share or a ledger append fails: the job ends with an error where it is;
\* a boot that fails leaves the process down.
JobFails(j) ==
    /\ job[j] # Idle /\ faults < MaxFaults
    /\ faults' = faults + 1
    /\ job' = [job EXCEPT ![j] = Idle]
    /\ torn' = torn \cup {k \in Sealed : Cut(j, k)}
    /\ slot' = IF j = "boot" THEN [k \in Suite |-> None] ELSE slot
    /\ UNCHANGED <<mode, up, disk, gens, unread>>

\* The process stops; the operator may start it again in another mode.
Crash ==
    /\ faults < MaxFaults
    /\ faults' = faults + 1
    /\ up' = FALSE
    /\ mode' \in Modes
    /\ slot' = [k \in Suite |-> None]
    /\ job' = [j \in Job |-> Idle]
    /\ torn' = torn \cup {k \in Sealed : \E j \in Job : Cut(j, k)}
    /\ UNCHANGED <<disk, gens, unread>>

KeepNext ==
    \/ Boot \/ BootLoad \/ BootDeal \/ BootReadFails \/ BootInstall \/ Crash
    \/ \E j \in Job : PutShare(j) \/ JobFails(j)
    \/ \E j \in Refresher : \/ RunReshare(j) \/ RefreshIntent(j) \/ Snapshot(j)
                            \/ RefreshTaproot(j) \/ RefreshChannelsTaproot(j)
=============================================================================
