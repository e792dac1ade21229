----------------------------- MODULE Processes -----------------------------
(***************************************************************************)
(* The signing processes beside the vault's HTTP node: vault-signer,       *)
(* vault-identityd, and the lab quorum inside the node.  They share no     *)
(* state and call each other nowhere, so a behaviour of one is examined    *)
(* with the other two at rest: focus says which one runs.                  *)
(***************************************************************************)
EXTENDS SignerDaemon, IdentityDaemon, LabThreshold

VARIABLE focus

processVars == <<signerVars, identityVars, labVars, focus>>

ProcessInit ==
    /\ SignerInit
    /\ IdentityInit
    /\ focus \in {"signer", "identityd", "lab"}
    /\ LabInit(IF focus = "lab" THEN Polynomials ELSE {CHOOSE drawn \in Polynomials : TRUE})

Signer == focus = "signer" /\ SignerNext /\ UNCHANGED <<identityVars, labVars, focus>>

Identityd == focus = "identityd" /\ IdentityNext /\ UNCHANGED <<signerVars, labVars, focus>>

Lab == focus = "lab" /\ LabNext /\ UNCHANGED <<signerVars, identityVars, focus>>

ProcessNext == Signer \/ Identityd \/ Lab

ProcessSpec == ProcessInit /\ [][ProcessNext]_processVars
=============================================================================
