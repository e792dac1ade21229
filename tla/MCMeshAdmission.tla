-------------------------- MODULE MCMeshAdmission --------------------------
(***************************************************************************)
(* Two vaults, 1 and 2, that may list a third; six ways to deploy them;   *)
(* every variable an edit can set.                                         *)
(***************************************************************************)
EXTENDS MeshAdmission

Others(n) == SetToSortSeq(Name \ {n}, <)

\* Nothing set but the id and the seed list.
Lab(n) ==
    [id |-> n, kero |-> "lab", ceremony |-> "unset", refuseSim |-> FALSE,
     tier |-> "unset", devices |-> {}, attest |-> "unset", stub |-> FALSE,
     listen |-> "unset", root |-> "default", directory |-> "unset",
     allowEmpty |-> FALSE, member |-> TRUE, peers |-> Others(n), onion |-> FALSE,
     peerTiers |-> [p \in Name |-> "domestic"], quotes |-> {}, requireQuote |-> "unset",
     genesisN |-> -1, timelock |-> FALSE, auth |-> "unset", token |-> "unset",
     tls |-> FALSE, clientTls |-> FALSE, store |-> "unset", pass |-> "unset",
     tpmSeal |-> FALSE, tpmStub |-> FALSE, fallback |-> FALSE, pin |-> "unset",
     dir |-> "unset", dkg |-> "unset", transport |-> "unset", verify |-> "unset",
     publish |-> FALSE, audit |-> FALSE, manual |-> FALSE, admin |-> FALSE,
     onlineStatic |-> FALSE, onlineCount |-> -1, open |-> FALSE]

\* A lab mesh of two that generates its keys over the wire, sealed by the TPM stub.
LabTpm(n) ==
    [Lab(n) EXCEPT !.dkg = "wire", !.tpmSeal = TRUE, !.tpmStub = TRUE, !.fallback = TRUE,
                   !.pass = "p1", !.dir = "data", !.genesisN = 2]

Staging(n) ==
    [Lab(n) EXCEPT !.kero = "staging", !.root = "r1", !.tls = TRUE, !.clientTls = TRUE,
                   !.pass = "p1", !.dir = "data"]

\* Staging by VAULT_CEREMONY_MODE alone, in a container that binds all interfaces.
StagingByMode(n) ==
    [Staging(n) EXCEPT !.kero = "lab", !.ceremony = "staging", !.auth = "mtls",
                       !.dkg = "wire", !.listen = "all"]

\* Vault 2 and the listed third have SEV; the quotes of both are known.
StagingTee(n) ==
    [Staging(n) EXCEPT !.tier = IF n = 2 THEN "sev" ELSE "domestic",
                       !.stub = TRUE, !.store = "tee", !.genesisN = 3, !.pin = "m1",
                       !.peerTiers = [p \in Name |-> IF p = 1 THEN "domestic" ELSE "sev"],
                       !.quotes = Name]

Production(n) ==
    [Staging(n) EXCEPT !.kero = "production", !.directory = "members", !.pin = "m1",
                       !.audit = TRUE, !.token = "api", !.admin = TRUE]

MCDeployments ==
    {[n \in Node |-> Lab(n)], [n \in Node |-> LabTpm(n)], [n \in Node |-> Staging(n)],
     [n \in Node |-> StagingByMode(n)], [n \in Node |-> StagingTee(n)], [n \in Node |-> Production(n)]}

AllSettings ==
    [kero |-> {"lab", "staging", "production"},
     ceremony |-> {"unset", "lab", "staging", "production", "unknown"},
     refuseSim |-> BOOLEAN, tier |-> {"auto", "domestic", "sev", "sgx"},
     devices |-> {{}, {"sgx"}, {"sev", "sgx"}},
     attest |-> {"unset", "sim", "software", "sev"}, stub |-> BOOLEAN,
     listen |-> {"unset", "all", "loopback"}, root |-> {"default", "r1"},
     directory |-> {"unset", "members", "empty", "mismatch"}, allowEmpty |-> BOOLEAN,
     member |-> BOOLEAN, peers |-> {<<>>, <<3>>, <<3, 2>>, <<3, 1>>, <<1, 2, 3>>, <<2, 2>>},
     onion |-> BOOLEAN, quotes |-> {{}, Name}, requireQuote |-> {"unset", "yes", "no"},
     peerTiers |-> {[p \in Name |-> "domestic"], [p \in Name |-> IF p = 3 THEN "sgx" ELSE "sev"]},
     genesisN |-> {-1, 0, 2, 4}, timelock |-> BOOLEAN,
     auth |-> {"unset", "static", "mtls", "unknown"}, token |-> {"unset", "api"},
     tls |-> BOOLEAN, clientTls |-> BOOLEAN, store |-> {"unset", "aead", "tee"},
     pass |-> {"unset", LabSecret, "p1", "p2"}, tpmSeal |-> BOOLEAN, tpmStub |-> BOOLEAN,
     fallback |-> BOOLEAN, pin |-> {"unset", "m1", "m2", "unknown"}, dir |-> {"unset", "data"},
     dkg |-> {"unset", "dealer", "distributed", "wire", "unknown"},
     transport |-> {"unset", "tor", "clearnet"},
     verify |-> {"unset", "hostname", "spiffe"}, publish |-> BOOLEAN,
     audit |-> BOOLEAN, manual |-> BOOLEAN, admin |-> BOOLEAN, onlineStatic |-> BOOLEAN,
     onlineCount |-> {-1, 1}, open |-> BOOLEAN]

\* Vault 1 may be edited in every way, vault 2 in its view of the mesh.
MCSettings ==
    [n \in Node |->
        IF n = 1 THEN AllSettings
        ELSE [f \in {"peers", "quotes", "genesisN"} |-> AllSettings[f]]]

Cert(uri, node, dns, holder) ==
    [uri |-> uri, node |-> node, dns |-> dns, token |-> "unset", holder |-> holder]

\* Own SVIDs, the shared server SVID bound by DNS names (one vault's, or two
\* vaults' on one certificate), the settlement service, a stranger's workload,
\* and whoever has a token.
MCCallers ==
    {Cert("kfe", Kfe, {}, Kfe), Cert("vault", 1, {}, 1), Cert("vault", 2, {2}, 2),
     Cert("server", Kfe, {2}, 2), Cert("server", Kfe, {2, 3}, 3), Cert("other", Kfe, {2}, 9)}
    \cup {[Cert("none", Kfe, {}, 9) EXCEPT !.token = t] : t \in {"api", LabSecret}}
=============================================================================
