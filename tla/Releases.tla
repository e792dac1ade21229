------------------------------ MODULE Releases ------------------------------
(***************************************************************************)
(* Release candidates and their policy as values (release.rs), and the     *)
(* quorum sizes of the constitution.  A candidate holds its source and     *)
(* whether its binary hash is the one the source rebuilds to.              *)
(***************************************************************************)
EXTENDS Integers, FiniteSets

CONSTANTS Vault,       \* vaults that rebuild, cosign and vote
          CouncilN,    \* council size
          MinRebuilds, \* rebuilds asked for
          Timelock     \* effective_timelock_secs

ASSUME ReleasesAssumption ==
    /\ IsFiniteSet(Vault) /\ CouncilN \in Nat /\ Timelock \in Nat
    /\ MinRebuilds \in Nat \ {0}                       \* build takes at least one

\* quorum_two_thirds, vault_cosign_quorum, and governance_t of the constitution.
QuorumTwoThirds(n) == (2 * n + 2) \div 3
VaultCosignQuorum == Cardinality(Vault) \div 2 + 1
GovernanceT ==
    LET t == QuorumTwoThirds(Cardinality(Vault)) + 1 IN
    IF t < Cardinality(Vault) THEN t ELSE Cardinality(Vault)

Phases == {"proposed", "cosigning", "allowlisted"}
Candidates(Source) ==
    [source : Source, rebuildable : BOOLEAN, council : 0 .. CouncilN, at : Nat, hash : Nat,
     rebuilds : SUBSET Vault, cosigns : SUBSET Vault, phase : Phases]

\* ProposeRelease: the council's signatures are counted when the candidate is made.
CouncilOk(council) == council >= QuorumTwoThirds(CouncilN)

NewCandidate(source, rebuildable, council, now, h) ==
    [source |-> source, rebuildable |-> rebuildable, council |-> council, at |-> now, hash |-> h,
     rebuilds |-> {}, cosigns |-> {}, phase |-> "proposed"]

Open(c) == c.phase # "allowlisted"

\* record_rebuild: the binary hash must be the candidate's.
CanRebuild(c) == Open(c) /\ c.rebuildable
RecordRebuild(c, v) == [c EXCEPT !.rebuilds = @ \cup {v}]

\* Mutant: a candidate of another constitution will do.
PredicatesOkAnyHash(c, now, h) ==
    CouncilOk(c.council) /\ Cardinality(c.rebuilds) >= MinRebuilds /\ now - c.at >= Timelock

\* predicates_ok: the active constitution's, h, and council, rebuilds and age.
PredicatesOk(c, now, h) ==
    /\ c.hash = h
    /\ CouncilOk(c.council)
    /\ Cardinality(c.rebuilds) >= MinRebuilds
    /\ now - c.at >= Timelock

CanCosign(c, now, h) == PredicatesOk(c, now, h) /\ Open(c)

AddCosign(c, v) == [c EXCEPT !.cosigns = @ \cup {v}, !.phase = "cosigning"]

\* Mutant: a candidate whose phase is allowlisted is refused.
CanActivateOpen(c, now, h) ==
    PredicatesOk(c, now, h) /\ Cardinality(c.cosigns) >= VaultCosignQuorum /\ Open(c)

\* ActivateRelease asks for the predicates and the cosign quorum, not for the phase.
CanActivate(c, now, h) == PredicatesOk(c, now, h) /\ Cardinality(c.cosigns) >= VaultCosignQuorum

Allowlist(c) == [c EXCEPT !.phase = "allowlisted"]

=============================================================================
