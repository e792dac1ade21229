--------------------------- MODULE MeshAdmission ---------------------------
(***************************************************************************)
(* Vaults that are configured, booted, stopped and called.                 *)
(*                                                                         *)
(* Between two boots an operator may edit the environment of a vault, one  *)
(* variable at a time (the process reads it only at boot, so edits of a    *)
(* running vault are no different).  A boot resolves the passphrase of the *)
(* share store, writes the TPM envelope if there is none, and takes the    *)
(* node up or ends with an error.  A running vault seals shares and serves *)
(* requests: under the static token whoever has the token, under mTLS      *)
(* whoever holds a certificate of the mesh CA.                             *)
(***************************************************************************)
EXTENDS BootConfig

CONSTANTS
    Node,         \* the vaults that are run
    Name,         \* the vault ids there are, run or only listed as peers
    Deployments,  \* environments the mesh is deployed with
    Settings,     \* Settings[n]: what an edit can set, a set of values for each variable
    Callers,      \* credentials (certificate of the mesh CA, token) and who holds them
    Route,        \* the protected routes that are called
    MaxEdits,     \* bound: edits
    Keepers,      \* bound: the vaults whose shares are looked at
    ServeEdits,   \* bound: edits up to which requests are looked at
    MaxWriteFaults, \* bound: failed writes of an envelope
    NoCall

Dirs == {"data", "default", "r1"}
Passphrases == {LabSecret, "p1", "p2"}
Kfe == 0

\* The variables a property counts on.
Counted == {"id", "pass", "dir", "root", "peers", "genesisN", "onlineCount"}

\* The values a variable may have, where anything below counts on them.
Possible(f, v) ==
    /\ f = "pass" => v \in Passphrases \cup {"unset"}
    /\ f = "dir" => v \in Dirs \cup {"unset"}
    /\ f = "root" => v \in Dirs
    /\ f = "peers" => v \in Seq(Name)
    /\ f = "genesisN" => v \in Int
    /\ f = "onlineCount" => v \in Nat \cup {-1}      \* -1: not set

ASSUME MeshAdmissionAssumption ==
    /\ Keepers \subseteq Node /\ Node \subseteq Name /\ Name \subseteq 1 .. PadBase - 1
    /\ MaxEdits \in Nat /\ ServeEdits \in Nat /\ MaxWriteFaults \in Nat

\* Every vault is deployed under its own id, and no edit changes it.
ASSUME EnvironmentAssumption ==
    /\ \A d \in Deployments :
          /\ d = [n \in Node |-> d[n]]
          /\ \A n \in Node : /\ Counted \subseteq DOMAIN d[n]
                              /\ d[n].id = n
                              /\ \A f \in DOMAIN d[n] : Possible(f, d[n][f])
    /\ \A n \in Node : \A f \in DOMAIN Settings[n] :
          f # "id" /\ \A v \in Settings[n][f] : Possible(f, v)

\* What the mesh CA vouches for: the settlement URI and a vault's own SVID are
\* held by whom they name, the shared server SVID by one of its DNS names.
ASSUME CallerAssumption ==
    \A x \in Callers :
        /\ x.uri = "kfe" => x.holder = Kfe
        /\ x.uri = "vault" => x.holder = x.node
        /\ x.uri = "server" => x.holder \in x.dns
        /\ IsFiniteSet(x.dns)

VARIABLES
    env,         \* env[n]: the environment of vault n
    edits,       \* edits so far
    vault,       \* vault[n]: the VaultRuntime that runs, or Down
    envelope,    \* envelope[n][d]: tpm-passphrase.sealed in directory d
    shareFiles,  \* shareFiles[n]: the sealed share files of n, one per directory
    last,        \* the request that is being answered, or NoCall
    writeFaults  \* failed writes so far

vars == <<env, edits, vault, envelope, shareFiles, last, writeFaults>>

Down == [up |-> FALSE]
up == {n \in Node : vault[n].up}
cfg(n) == vault[n].config

---------------------------------------------------------------------------
(* Requests *)

\* Who the certificate names, at a vault that knows these nodes.
Known(c) == {c.id} \cup {c.peers[i] : i \in DOMAIN c.peers}

Refused == [role |-> "refused", id |-> Kfe]

\* As if the first DNS name that fits were taken.
PrincipalFromCertSansFirst(c, x) ==
    CASE x.uri = "kfe" -> [role |-> "kfe", id |-> Kfe]
      [] x.uri = "vault" /\ x.node \in Known(c) -> [role |-> "vault", id |-> x.node]
      [] x.uri = "server" /\ x.dns \cap Known(c) # {} ->
             [role |-> "vault", id |-> CHOOSE i \in x.dns \cap Known(c) :
                                           \A j \in x.dns \cap Known(c) : i <= j]
      [] OTHER -> Refused

PrincipalFromCertSans(c, x) ==
    CASE x.uri = "kfe" -> [role |-> "kfe", id |-> Kfe]
      [] x.uri = "vault" /\ x.node \in Known(c) -> [role |-> "vault", id |-> x.node]
      [] x.uri = "server" /\ Cardinality(x.dns \cap Known(c)) = 1 ->
             [role |-> "vault", id |-> CHOOSE i \in x.dns \cap Known(c) : TRUE]
      [] OTHER -> Refused

\* The lab token stands for a principal that may do everything.
Principal(c, x) ==
    IF c.auth = "static" THEN [role |-> "lab", id |-> c.id] ELSE PrincipalFromCertSans(c, x)

RouteClass(r) ==
    CASE r \in {"/v1/sign", "/v1/bitcoin/sign-psbt"} -> "kfe_settlement"
      [] r \in {"/v1/dkg/round1", "/v1/day/vote"} -> "vault_peer"
      [] r \in {"/v1/day/advance", "/v1/reshare/trigger"} -> "shared_ops"
      [] r = "/v1/admin/status" -> "admin_read"
      [] OTHER -> "none"      \* /v1/reshare/tr/..., /profit/...

AllowsRoute(p, class) ==
    \/ p.role = "lab"
    \/ p.role # "refused" /\ class = "none"
    \/ p.role = "kfe" /\ class \in {"kfe_settlement", "shared_ops"}
    \/ p.role = "vault" /\ class \in {"vault_peer", "shared_ops", "admin_read"}

\* X-Vault-Token: the expected one, or none at all under mTLS.
Authorize(c, x) ==
    x.token = (IF c.auth = "static" THEN EffectiveVaultToken(c) ELSE "unset")

\* The voter: the certificate's node; under the lab token a header names it, or
\* it is the vault itself.  A voter named in the body must be the same.
ResolveMeshCallerIdentity(c, p, header) ==
    IF p.role = "lab" THEN IF header = Kfe THEN c.id ELSE header ELSE p.id

SigningT(n) == QuorumTwoThirds(Len(vault[n].roster))

\* Self, and the seed peers that answer GET /v1/health.  The probe has no client
\* certificate, so a vault behind mTLS never answers it.
Probed(n) ==
    LET c == cfg(n) IN
    1 + Cardinality({i \in DOMAIN c.peers : /\ c.peers[i] \in up
                                            /\ c.auth = "static"
                                            /\ cfg(c.peers[i]).auth = "static"})

\* VAULT_ONLINE_COUNT is the count itself where nothing is probed, and a ceiling
\* of it elsewhere.
OnlineCount(n) ==
    LET c == cfg(n) IN
    IF c.onlineStatic \/ (c.ceremony = "lab" /\ c.peers = <<>>)
    THEN IF c.onlineCount >= 0 THEN c.onlineCount ELSE Len(vault[n].roster)
    ELSE IF c.onlineCount >= 0 /\ c.onlineCount < Probed(n) THEN c.onlineCount ELSE Probed(n)

\* The treasury and the manual refresh ask the adapter once more.
AuthorizeTreasurySign(c) == c.auth = "static" => c.ceremony = "lab"
AuthorizeReshareTrigger(c) == c.ceremony = "lab" \/ c.manual

\* What the handler behind the middleware still asks of the caller: header is the
\* node a header names, claimed the sender or voter in the body, Kfe if there is none.
HandlerAccepts(n, r, p, header, claimed) ==
    LET c == cfg(n) IN
    CASE r = "/v1/sign" -> /\ AuthorizeTreasurySign(c)
                           /\ OnlineCount(n) >= SigningT(n)
      [] r = "/v1/bitcoin/sign-psbt" -> AuthorizeTreasurySign(c)
      [] r = "/v1/reshare/trigger" -> AuthorizeReshareTrigger(c)
      [] r = "/v1/dkg/round1" -> claimed # Kfe /\ (p.role = "lab" \/ claimed = p.id)
      [] r = "/v1/day/vote" ->
             /\ ResolveMeshCallerIdentity(c, p, header) \in Known(c)
             /\ claimed # Kfe => claimed = ResolveMeshCallerIdentity(c, p, header)
      [] OTHER -> TRUE

\* On behalf of whom the request is carried out.
ActsAs(n, r, p, header, claimed) ==
    CASE r = "/v1/dkg/round1" -> claimed
      [] r = "/v1/day/vote" -> ResolveMeshCallerIdentity(cfg(n), p, header)
      [] OTHER -> p.id

\* A request reaches vault n.  With the static token there is no TLS and no
\* certificate is seen; with mTLS the handshake has asked for one.
Serve(n) ==
    /\ vault[n].up /\ edits <= ServeEdits
    /\ \E x \in Callers : LET c == cfg(n)
                            p == Principal(c, x)
                        IN
       /\ Authorize(c, x)
       /\ \E r \in Route, header, claimed \in Name \cup {Kfe} :
              /\ AllowsRoute(p, RouteClass(r))
              /\ HandlerAccepts(n, r, p, header, claimed)
              /\ last' = [node |-> n, route |-> r, as |-> ActsAs(n, r, p, header, claimed),
                          actor |-> x.holder, live |-> Cardinality(up)]
    /\ UNCHANGED <<env, edits, vault, envelope, shareFiles, writeFaults>>

---------------------------------------------------------------------------
(* Configuration, boot, shares *)

SetEnv(n) ==
    /\ ~vault[n].up /\ edits < MaxEdits
    /\ \E f \in DOMAIN Settings[n] : \E v \in Settings[n][f] \ {env[n][f]} :
           env' = [env EXCEPT ![n][f] = v]
    /\ edits' = edits + 1
    /\ UNCHANGED <<vault, envelope, shareFiles, last, writeFaults>>

\* The boot would write an envelope: sealing is on, there is none, the TPM seals.
SealsEnvelope(n, c) ==
    /\ StoreBackend(c) = "aead" /\ c.tpmSeal /\ TpmSeals(c)
    /\ envelope[n][c.dir] = "none" /\ EffectiveSharePassphrase(c) # "unset"

\* VaultRuntime::build: a boot that is refused late has written its envelope.
Boot(n, written) ==
    LET c == Config(env[n])
        roster == SeatGenesis(c)
        pass == StorePassphrase(c, envelope[n][c.dir], written)
    IN /\ ~vault[n].up
       /\ ~written => writeFaults < MaxWriteFaults /\ SealsEnvelope(n, c)
       /\ FromEnv(env[n]) /\ BuildReachesStore(c, roster)
       /\ writeFaults' = IF written THEN writeFaults ELSE writeFaults + 1
       /\ envelope' = IF written /\ SealsEnvelope(n, c)
                      THEN [envelope EXCEPT ![n][c.dir] = EffectiveSharePassphrase(c)]
                      ELSE envelope
       /\ vault' = IF pass # "refused" /\ BuildAccepts(c)
                   THEN [vault EXCEPT ![n] =
                            [up |-> TRUE, config |-> c, roster |-> roster, pass |-> pass,
                             measurement |-> Measurement(c, Len(roster))]]
                   ELSE vault
       /\ UNCHANGED <<env, edits, shareFiles, last>>

\* The process ends, however it ends; what it knew is gone.
Stop(n) ==
    /\ vault[n].up
    /\ vault' = [vault EXCEPT ![n] = Down]
    /\ UNCHANGED <<env, edits, envelope, shareFiles, last, writeFaults>>

\* A file of the AEAD store is bound to the passphrase, one of the stub store
\* to the passphrase and the measurement; they lie in different directories.
SealedUnder(n) ==
    LET v == vault[n] backend == StoreBackend(v.config) IN
    [dir |-> v.config.dir, backend |-> backend, pass |-> v.pass,
     measurement |-> IF backend = "stub" THEN v.measurement ELSE <<>>]

\* What the operator has a hand in: directory, store, passphrase, and for the
\* stub store the pin or, without a pin, the size of the mesh and its economy.
\* An envelope that can be unsealed stands for the passphrase.
View(n) ==
    LET c == vault[n].config IN
    [dir |-> c.dir, backend |-> StoreBackend(c),
     secret |-> IF c.store = "aead" /\ c.tpmSeal /\ c.tpmStub /\ envelope[n][c.dir] # "none"
                THEN envelope[n][c.dir] ELSE EffectiveSharePassphrase(c),
     mesh |-> IF c.store = "aead" THEN <<>>
              ELSE IF c.pin # "unset" THEN <<c.pin>>
              ELSE <<"seats", Len(vault[n].roster), c.open>>]

\* put_share, when a key generation or a refresh is finished.
PutShare(n) ==
    /\ n \in Keepers /\ vault[n].up
    /\ cfg(n).dkg = "wire" /\ SealWorks(cfg(n))
    /\ LET new == [file |-> SealedUnder(n), view |-> View(n)]
           other(s) == s.file.dir # new.file.dir \/ s.file.backend # new.file.backend
       IN shareFiles' = [shareFiles EXCEPT ![n] = {s \in @ : other(s)} \cup {new}]
    /\ UNCHANGED <<env, edits, vault, envelope, last, writeFaults>>

\* get_share opens the file.
Opens(n, s) == s.file = SealedUnder(n) /\ SealWorks(cfg(n))

---------------------------------------------------------------------------
Init ==
    /\ env \in Deployments
    /\ edits = 0 /\ writeFaults = 0
    /\ vault = [n \in Node |-> Down]
    /\ envelope = [n \in Node |-> [d \in Dirs |-> "none"]]
    /\ shareFiles = [n \in Node |-> {}]
    /\ last = NoCall

\* The answer is sent.  No request changes what is modelled here, so that one
\* at a time is enough.
Answer ==
    /\ last # NoCall
    /\ last' = NoCall
    /\ UNCHANGED <<env, edits, vault, envelope, shareFiles, writeFaults>>

Step(n) ==
    \/ SetEnv(n)
    \/ \E written \in BOOLEAN : Boot(n, written)
    \/ Stop(n)
    \/ PutShare(n)
    \/ Serve(n)

Next == Answer \/ (last = NoCall /\ \E n \in Node : Step(n))

Spec == Init /\ [][Next]_vars

---------------------------------------------------------------------------
(* Properties *)

\* A runtime has a seat in its own roster and an open store; an envelope holds a
\* passphrase some environment had.
TypeOK ==
    /\ edits \in 0 .. MaxEdits /\ writeFaults \in 0 .. MaxWriteFaults
    /\ \A n \in up : /\ n \in Range(vault[n].roster) /\ Len(vault[n].roster) >= 2
                     /\ vault[n].pass \in Passphrases \cup {"closed"}
    /\ \A n \in Node, d \in Dirs : envelope[n][d] \in Passphrases \cup {"none"}
    /\ last # NoCall => last.node \in up /\ last.route \in Route

\* Outside the lab ceremony no running vault takes the static token, deals or
\* simulates its keys or has the lab's entropy, in production none attests by a
\* stub or leaves Tor, and no hardened vault of any ceremony simulates attestation:
\* however ceremony, KEROSENE_ENV and the single variables disagree
\* (validate_hygiene, build).
OutsideLabIsClosed ==
    \A n \in up :
        LET c == cfg(n) IN
        /\ c.ceremony # "lab" =>
               c.auth = "mtls" /\ c.dkg = "wire" /\ c.attest # "sim" /\ c.root # "default"
        /\ c.ceremony = "production" =>
               ~c.stub /\ StoreBackend(c) # "stub" /\ c.transport = "tor" /\ ~c.publish
        /\ c.hardened => c.attest # "sim"

\* A vault that listens on every interface is not in production, and publishes no
\* clearnet address unless KEROSENE_ENV and KEROSENE_VAULT_REFUSE_SIM both leave it
\* unhardened, which a staging ceremony may be as well (validate_listen_bind).
AllInterfacesAreGuarded ==
    \A n \in up :
        LET c == cfg(n) IN
        c.listen = "all" =>
            /\ c.ceremony # "production"
            /\ c.publish => /\ env[n].kero \notin {"staging", "production"} /\ ~env[n].refuseSim
                            /\ c.ceremony = "lab" \/ env[n].ceremony = "staging"

\* The passphrase that is printed in the lab files opens the share store of an
\* unhardened lab vault, or of a stub store whose operator named it, which only
\* production forbids.  It gets nowhere else: not by default, not by name over
\* AEAD, and not through an envelope sealed in the lab
\* (effective_share_passphrase, resolve_aead_passphrase).
LabSecretStaysInLab ==
    \A n \in up : vault[n].pass = LabSecret =>
        LET c == cfg(n) IN
        \/ c.ceremony = "lab" /\ ~c.hardened
        \/ StoreBackend(c) = "stub" /\ c.pass = LabSecret /\ c.ceremony # "production"

\* A sealed share opens after any number of restarts and edits, while directory,
\* store, passphrase and pin stand; with a pin the mesh may change its size.
SealedShareOpens ==
    \A n \in up : \A s \in shareFiles[n] : s.view = View(n) => Opens(n, s)

\* The same candidates, as many of them, for as many seats.
SameView(a, b) ==
    LET Cands(c) == {SeatingCandidates(c)[i] : i \in DOMAIN SeatingCandidates(c)} IN
    /\ EffectiveGenesisN(a) = EffectiveGenesisN(b)
    /\ Len(a.peers) = Len(b.peers)
    /\ Cands(a) = Cands(b)

\* Two running vaults with one view of the mesh seat the same roster, whatever
\* the order of their seed lists and whichever of them is the local one: the
\* candidates are as many and the same, and each knows a quote for the other's
\* tier or needs none (seating_candidates, peer_tier, seat_genesis).
RostersAgree ==
    \A n, m \in up : n < m /\ SameView(cfg(n), cfg(m)) => vault[n].roster = vault[m].roster

\* A treasury signature is asked for by the settlement service's certificate, or
\* with the static token in a lab ceremony (route classes, authorize_treasury_sign).
TreasuryByKfe ==
    last # NoCall /\ RouteClass(last.route) = "kfe_settlement" =>
        \/ last.actor = Kfe
        \/ cfg(last.node).auth = "static" /\ cfg(last.node).ceremony = "lab"

\* Behind mTLS a vote or a key-generation package counts for the vault that sent
\* it, even when a certificate carries several names, as long as the receiver
\* knows the sender (principal_from_cert_sans, bind_dkg_sender_to_peer).
CountsForSender ==
    last # NoCall /\ last.route \in {"/v1/dkg/round1", "/v1/day/vote"}
        /\ cfg(last.node).auth = "mtls" =>
            last.as = last.actor \/ last.actor \notin Known(cfg(last.node))

\* /v1/sign stops when fewer vaults run than the threshold, unless the count is
\* configured or the seed list names a vault twice (ProbedOnlineCount).
SignStopsBelowThreshold ==
    last # NoCall /\ last.route = "/v1/sign" =>
        LET c == cfg(last.node) IN
        \/ last.live >= SigningT(last.node)
        \/ c.onlineStatic \/ c.peers = <<>>
        \/ Cardinality(Known(c)) < 1 + Len(c.peers)

\* What the lab allows stays in the lab, with the two exceptions named above, for
\* every combination of the variables and every history of edits and boots.
LabStaysInLab ==
    TypeOK /\ OutsideLabIsClosed /\ AllInterfacesAreGuarded /\ LabSecretStaysInLab

\* A request that was served came from who it counts for, from someone who may
\* ask, and from a mesh that can answer.
CallsJustified == TreasuryByKfe /\ CountsForSender /\ SignStopsBelowThreshold
=============================================================================
