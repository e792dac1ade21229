----------------------------- MODULE BootConfig -----------------------------
(***************************************************************************)
(* How a vault turns its environment into a configuration: the defaults    *)
(* VaultConfig::from_env fills in, the hygiene checks that refuse a        *)
(* combination, the genesis seating, and the share store that             *)
(* VaultRuntime::build picks.  Operators only; MeshAdmission runs them.    *)
(*                                                                         *)
(* The build is the default one (none of the features production, tee_hw,  *)
(* tpm and dealer_lab).  An environment is a record; "unset" is a variable *)
(* that is not there, "unknown" one no parser accepts.  Nodes are natural  *)
(* numbers, ordered as their ids are.                                      *)
(***************************************************************************)
EXTENDS Integers, Sequences, FiniteSets, SequencesExt

LabSecret == "lab"  \* the passphrase and the token printed in the lab files
PadBase == 100      \* vault-pad-k is PadBase + k: pads sort after the vaults
Manifest == <<1, 2, 3>>  \* the members the node directory lists: Manifest[m] = m

Given(v, default) == IF v = "unset" THEN default ELSE v

---------------------------------------------------------------------------
(* from_env *)

IsHardened(e) == e.refuseSim \/ e.kero \in {"staging", "production"}

CeremonyOf(e) == Given(e.ceremony, e.kero)

\* VAULT_NODE_TIER, or the best device the host has.
ResolveNodeTier(e) ==
    IF e.tier \notin {"unset", "auto"} THEN e.tier
    ELSE IF "sev" \in e.devices THEN "sev"
    ELSE IF "sgx" \in e.devices THEN "sgx"
    ELSE "domestic"

IsTee(x) == x \in {"sev", "sgx"}

AttestationModeOf(e) ==
    LET tier == ResolveNodeTier(e) IN
    Given(e.attest, IF IsTee(tier) THEN tier
                    ELSE IF CeremonyOf(e) = "lab" /\ ~IsHardened(e) THEN "sim"
                    ELSE "software")

ListenOf(e) ==
    Given(e.listen, IF CeremonyOf(e) # "lab" \/ IsHardened(e) THEN "loopback" ELSE "all")

\* The node directory answers with members, with 404, with something unusable,
\* or not at all; a member that is not an onion service spoils the whole list.
DirectoryAnswers(e) ==
    \/ e.directory \in {"unset", "members"}
    \/ e.directory = "empty" /\ (CeremonyOf(e) = "staging" \/ e.allowEmpty)

\* The directory's members but the one this vault is told it is; or the list.
DiscoverVaultPeers(e) ==
    IF e.directory = "empty" THEN <<>>
    ELSE IF e.member /\ e.id \in DOMAIN Manifest THEN RemoveAt(Manifest, e.id)
    ELSE Manifest

SeedPeers(e) == IF e.directory = "unset" THEN e.peers ELSE DiscoverVaultPeers(e)

OnionPeers(e) == e.directory # "unset" \/ e.onion \/ e.peers = <<>>

AuthModeOf(e) == Given(e.auth, IF IsHardened(e) THEN "mtls" ELSE "static")

ShareStoreOf(e) ==
    Given(e.store, IF IsTee(ResolveNodeTier(e)) /\ IsHardened(e) THEN "tee" ELSE "aead")

DkgModeOf(e) == Given(e.dkg, IF IsHardened(e) THEN "wire" ELSE "distributed")

TransportOf(e) == Given(e.transport, IF CeremonyOf(e) = "production" THEN "tor" ELSE "clearnet")

ResolveTlsVerifyPolicy(e) ==
    Given(e.verify, IF TransportOf(e) = "tor" THEN "onion_or_spiffe" ELSE "hostname")

RequireQuote(e) == Given(e.requireQuote, IF CeremonyOf(e) = "lab" THEN "no" ELSE "yes") = "yes"

\* VAULT_DATA_DIR, or the directory vault-data under LAB_ATTESTATION_ROOT.
EffectiveDataDir(e) == Given(e.dir, e.root)

\* Every variable that is parsed has a value its parser accepts.
Parses(e) ==
    /\ CeremonyOf(e) \in {"lab", "staging", "production"}
    /\ \A f \in {"tier", "attest", "auth", "store", "dkg", "transport", "verify"} :
           e[f] # "unknown"

Config(e) ==
    [id |-> e.id, hardened |-> IsHardened(e), ceremony |-> CeremonyOf(e),
     tier |-> ResolveNodeTier(e), teeAvailable |-> e.devices # {},
     attest |-> AttestationModeOf(e), stub |-> e.stub, listen |-> ListenOf(e),
     root |-> e.root, peers |-> SeedPeers(e), onion |-> OnionPeers(e),
     peerTiers |-> e.peerTiers, quotes |-> e.quotes, requireQuote |-> RequireQuote(e),
     genesisN |-> e.genesisN, timelock |-> e.timelock, auth |-> AuthModeOf(e),
     token |-> e.token, tls |-> e.tls, clientTls |-> e.clientTls,
     store |-> ShareStoreOf(e), pass |-> e.pass, tpmSeal |-> e.tpmSeal,
     tpmStub |-> e.tpmStub, fallback |-> e.fallback, pin |-> e.pin,
     dir |-> EffectiveDataDir(e), dkg |-> DkgModeOf(e), transport |-> TransportOf(e),
     verify |-> ResolveTlsVerifyPolicy(e), publish |-> e.publish, audit |-> e.audit,
     manual |-> e.manual, admin |-> e.admin, onlineStatic |-> e.onlineStatic,
     onlineCount |-> e.onlineCount, open |-> e.open]

---------------------------------------------------------------------------
(* validate_hygiene and the checks it calls *)

ValidateAttestationPolicy(c) == c.hardened => c.attest # "sim"

ValidateTeeClaims(c) ==
    /\ IsTee(c.attest) => IsTee(c.tier)
    /\ IsTee(c.tier) => IF c.stub THEN c.ceremony # "production" ELSE c.teeAvailable

\* As if KEROSENE_ENV decided and VAULT_CEREMONY_MODE did not.
ValidateCeremonyHardened(c) ==
    c.hardened =>
        /\ c.attest # "sim" /\ c.dkg = "wire" /\ c.auth = "mtls"
        /\ c.ceremony = "production" => c.audit
        /\ ~(c.store = "aead" /\ IsTee(c.tier))

ValidateCeremony(c) ==
    c.ceremony # "lab" =>
        /\ c.attest # "sim"
        /\ c.dkg = "wire"
        /\ c.auth = "mtls"
        /\ c.ceremony = "production" => c.audit
        /\ ~(c.store = "aead" /\ IsTee(c.tier))

ValidateTpmSeal(c) ==
    /\ c.fallback => ~c.hardened /\ c.ceremony # "production" /\ c.tpmSeal
    /\ c.tpmStub => c.ceremony = "lab" /\ ~c.hardened /\ c.tpmSeal
    /\ c.tpmSeal => c.store = "aead"

ValidateTransport(c) ==
    /\ c.transport = "tor" =>
           /\ c.onion
           /\ c.ceremony # "lab" => c.auth = "mtls"
           /\ c.auth = "mtls" => c.verify # "hostname"
    /\ c.ceremony = "production" =>
           /\ c.transport = "tor" /\ c.auth = "mtls" /\ ~c.publish
           /\ c.peers # <<>> \/ c.genesisN >= 2

ValidateListenBind(c) ==
    c.listen = "all" =>
        /\ c.ceremony # "production"
        /\ c.hardened => c.ceremony = "staging" /\ c.auth = "mtls" /\ ~c.publish

ValidateLabPassphrase(c) ==
    c.pass \in {"unset", LabSecret} /\ c.store = "aead" => c.ceremony = "lab" /\ ~c.hardened

ValidateLabRoot(c) == c.root = "default" => c.ceremony = "lab"

ValidateHygiene(c) ==
    /\ ValidateAttestationPolicy(c)
    /\ c.hardened => ~c.timelock
    /\ ~(c.ceremony = "production" /\ c.stub)
    /\ ValidateTeeClaims(c)
    /\ c.ceremony = "production" /\ c.attest = "software" => c.pin # "unset"
    /\ ValidateCeremony(c)
    /\ c.auth = "mtls" => c.tls /\ c.clientTls
    /\ ValidateTpmSeal(c)
    /\ ValidateTransport(c)
    /\ ValidateListenBind(c)
    /\ ValidateLabPassphrase(c)
    /\ ValidateLabRoot(c)

\* from_env succeeds.
FromEnv(e) == Parses(e) /\ DirectoryAnswers(e) /\ ValidateHygiene(Config(e))

---------------------------------------------------------------------------
(* Genesis seating *)

SeatingPriority(tier) == CASE tier = "sev" -> 3 [] tier = "sgx" -> 2 [] OTHER -> 1

\* A peer's elevated tier counts only with a quote, where quotes are required.
PeerTier(c, p) ==
    IF IsTee(c.peerTiers[p]) /\ c.requireQuote /\ p \notin c.quotes
    THEN "domestic" ELSE c.peerTiers[p]

SeatingCandidates(c) ==
    <<[id |-> c.id, tier |-> c.tier]>> \o
    [i \in DOMAIN c.peers |-> [id |-> c.peers[i], tier |-> PeerTier(c, c.peers[i])]]

EffectiveGenesisN(c) ==
    IF c.genesisN >= 0 THEN c.genesisN
    ELSE IF Len(c.peers) = 0 THEN 2 ELSE Len(c.peers) + 1

\* As if the order in which the candidates are listed broke the ties.
SeatGenesisByTierListed(candidates, n) ==
    LET Best == {i \in DOMAIN candidates :
                     Cardinality({j \in DOMAIN candidates :
                         \/ SeatingPriority(candidates[j].tier) > SeatingPriority(candidates[i].tier)
                         \/ candidates[j].tier = candidates[i].tier /\ j < i}) < n}
    IN SetToSeq({candidates[i].id : i \in Best})

\* Of candidates with one id, the one that is listed first.
FirstListed(candidates) ==
    {candidates[i] : i \in {j \in DOMAIN candidates :
         \A k \in 1 .. j - 1 : candidates[k].id # candidates[j].id}}

\* The better tier ahead, then the smaller id.
InTierOrder(unique) ==
    LET Before(a, b) == \/ SeatingPriority(a.tier) > SeatingPriority(b.tier)
                        \/ a.tier = b.tier /\ a.id < b.id
    IN SetToSortSeq(unique, Before)

SeatGenesisByTier(candidates, n) ==
    LET unique == FirstListed(candidates)
        seats == InTierOrder(unique)
        count == IF n < Cardinality(unique) THEN n ELSE Cardinality(unique)
    IN [i \in 1 .. count |-> seats[i].id]

Padded(candidates, n) ==
    candidates \o [k \in 1 .. (IF n > Len(candidates) THEN n - Len(candidates) ELSE 0) |->
                      [id |-> PadBase + Len(candidates) + k - 1, tier |-> "domestic"]]

SeatGenesis(c) ==
    SeatGenesisByTier(Padded(SeatingCandidates(c), EffectiveGenesisN(c)), EffectiveGenesisN(c))

QuorumTwoThirds(n) == (2 * n + 2) \div 3

---------------------------------------------------------------------------
(* What build wires *)

EffectiveVaultToken(c) ==
    Given(c.token, IF c.ceremony = "lab" /\ ~c.hardened THEN LabSecret ELSE "unset")

EffectiveSharePassphrase(c) ==
    Given(c.pass, IF c.ceremony = "lab" /\ ~c.hardened THEN LabSecret ELSE "unset")

\* As if the constitution's own hash were used whether there is a pin or not.
MeasurementOfHash(c, n) == <<"hash", n, c.open>>

\* VAULT_MEASUREMENT_PIN, or the hash of the genesis constitution, which is
\* made of the number of seats and of the economy.
Measurement(c, n) == IF c.pin # "unset" THEN <<"pin", c.pin>> ELSE <<"hash", n, c.open>>

\* A quote the node issues for its own measurement and verifies at once.
QuoteVerifies(c) ==
    \/ ~IsTee(c.attest)                         \* SimAttestationAdapter: mac over itself
    \/ c.stub /\ c.ceremony # "production"      \* staging stub; no hardware report here

\* The store build selects: "aead", "stub" (tee_seal over a passphrase), "closed".
StoreBackend(c) ==
    IF c.store = "aead" THEN "aead"
    ELSE IF c.stub /\ c.ceremony # "production" THEN "stub" ELSE "closed"

\* put_share is possible at all.
SealWorks(c) ==
    CASE StoreBackend(c) = "aead" -> TRUE
      [] StoreBackend(c) = "stub" -> QuoteVerifies(c)
      [] OTHER -> FALSE

\* The TPM port: only the lab stub seals and unseals; a device without TSS
\* support and no device both refuse.
TpmSeals(c) == c.tpmStub

\* resolve_aead_passphrase with the sealed envelope found (or "none") and the
\* outcome of writing a new one: the passphrase, or "refused".
ResolveAeadPassphrase(c, envelope, written) ==
    LET clear == EffectiveSharePassphrase(c)
        resolved == IF envelope # "none"
                    THEN IF TpmSeals(c) THEN envelope ELSE "refused"
                    ELSE IF TpmSeals(c) /\ written THEN clear ELSE "refused"
    IN IF envelope = "none" /\ clear = "unset" THEN "refused"
       ELSE IF resolved # "refused" THEN resolved
       ELSE IF c.fallback /\ clear # "unset" THEN clear
       ELSE "refused"

\* The passphrase the share store is opened with, or "refused".
StorePassphrase(c, envelope, written) ==
    CASE StoreBackend(c) = "closed" -> "closed"
      [] c.store = "aead" /\ c.tpmSeal -> ResolveAeadPassphrase(c, envelope, written)
      [] OTHER -> Given(EffectiveSharePassphrase(c), "refused")

\* What build refuses before it opens the share store: a node without a seat, a
\* constitution of fewer than two, a malformed pin, static auth without a token.
BuildReachesStore(c, roster) ==
    /\ c.id \in Range(roster) /\ Len(roster) >= 2
    /\ c.pin # "unknown"
    /\ c.auth = "static" => EffectiveVaultToken(c) # "unset"

\* And after it: the dealer that is not compiled in, in-process key generation
\* into a store that does not seal, an admin socket without a token.
BuildAccepts(c) ==
    /\ c.dkg # "dealer"
    /\ c.dkg = "distributed" => SealWorks(c)
    /\ c.admin => EffectiveVaultToken(c) # "unset"
=============================================================================
