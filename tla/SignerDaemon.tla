---------------------------- MODULE SignerDaemon ----------------------------
(***************************************************************************)
(* The vault-signer process: the FROST signing sessions it keeps in memory *)
(* and the public key package it keeps on disk.  serve_blocking takes one  *)
(* connection at a time and runs its handler to the end, so every request  *)
(* is one action.  A reply that is lost changes nothing in the daemon: the *)
(* client's retry is the same action once more.                            *)
(***************************************************************************)
EXTENDS Naturals, FiniteSets

CONSTANTS
    Identifier,     \* FROST identifiers, positive and in their order
    Key,            \* public key packages that can be installed, positive
    KeyThreshold,   \* the min_signers the packages were dealt with
    MinSigners,     \* values a client asks for in CreateSession
    Nonce,          \* which of its preprocessed nonces a participant commits to
    MaxSessions,    \* SigningSessionManager::new(64)
    MaxMade,        \* bound: sessions created
    None

ASSUME SignerAssumption ==
    /\ Identifier \subseteq Nat \ {0} /\ IsFiniteSet(Identifier)
    /\ Key \subseteq Nat \ {0}
    /\ {KeyThreshold, MaxSessions, MaxMade} \subseteq Nat \ {0}
    /\ MinSigners \subseteq Nat

VARIABLES
    sessions,   \* SigningSessionManager.sessions: id -> SigningSession
    made,       \* sessions created so far; session ids are never drawn twice
    signerKey,  \* KeyStore.pubkey_package
    keyFile,    \* pubkey_package.json: None, Torn or a key
    signerUp,   \* the process runs
    installed,  \* history: the last key acknowledged by KeyPackagesInstalled, or
                \* wholly written by a request that died before its reply
    keyFault    \* history: a write of the key file failed or was cut short

signerVars == <<sessions, made, signerKey, keyFile, signerUp, installed, keyFault>>

\* A key file cut short in writing.
Torn == 0

SigningSession(min) ==
    [min |-> min, state |-> "awaiting_commitments", comms |-> <<>>, shares |-> <<>>]

SignerInit ==
    /\ sessions = <<>>
    /\ made = 0
    /\ signerKey = None
    /\ keyFile = None
    /\ signerUp = TRUE
    /\ installed = None
    /\ keyFault = FALSE

-----------------------------------------------------------------------------
(***************************************************************************)
(* A session.  Each step yields the session it leaves.                     *)
(***************************************************************************)

Count(f) == Cardinality(DOMAIN f)

Put(f, i, v) == [j \in DOMAIN f \cup {i} |-> IF j = i THEN v ELSE f[j]]

\* Mutant: commitments are still taken while shares are awaited.
CanCommitLate(s, i) == s.state # "complete" /\ i \notin DOMAIN s.comms

CanCommit(s, i) == s.state = "awaiting_commitments" /\ i \notin DOMAIN s.comms

\* The session after add_commitments has taken those of B, one after the other.
AddCommitments(s, batch, B) ==
    LET new == [j \in DOMAIN s.comms \cup B |-> IF j \in B THEN batch[j] ELSE s.comms[j]] IN
    IF B = {} THEN s
    ELSE [s EXCEPT !.comms = new,
                   !.state = IF Cardinality(DOMAIN new) >= s.min THEN "awaiting_signature_shares" ELSE @]

\* Mutant: a share still replaces an earlier one when the session is complete.
CanShareLate(s) == s.state # "awaiting_commitments"

CanShare(s) == s.state = "awaiting_signature_shares"

\* The identifier is not looked up: not among the commitments, nor among the
\* expected participants.
AddSignatureShare(s, i, sh) ==
    LET new == Put(s.shares, i, sh) IN
    [s EXCEPT !.shares = new,
              !.state = IF Cardinality(DOMAIN new) >= s.min THEN "complete" ELSE @]

-----------------------------------------------------------------------------
(***************************************************************************)
(* Requests.                                                               *)
(***************************************************************************)

\* The file is overwritten in place; a failure is only warned about.
SaveToDisk(k) ==
    \/ keyFile' = k /\ UNCHANGED keyFault
    \/ keyFile' \in {keyFile, Torn} /\ keyFault' = TRUE

InstallKeyPackages(k) ==
    /\ signerUp
    /\ signerKey' = k
    /\ installed' = k
    /\ SaveToDisk(k)
    /\ UNCHANGED <<sessions, made, signerUp>>

\* The daemon dies in the middle of an install: the file is cut short, or it is
\* the new key and only the reply is missing.
InstallCutShort(k) ==
    /\ signerUp
    /\ signerUp' = FALSE
    /\ sessions' = <<>>
    /\ signerKey' = None
    /\ \/ keyFile' = k /\ installed' = k /\ UNCHANGED keyFault
       \/ keyFile' = Torn /\ keyFault' = TRUE /\ UNCHANGED installed
    /\ UNCHANGED made

HasSlot == Count(sessions) < MaxSessions

\* No session is ever removed, so a slot is free only until MaxSessions
\* sessions have been created since the start.
CreateSession(min) ==
    /\ signerUp
    /\ made < MaxMade
    /\ HasSlot
    /\ made' = made + 1
    /\ sessions' = Put(sessions, made + 1, SigningSession(min))
    /\ UNCHANGED <<signerKey, keyFile, signerUp, installed, keyFault>>

Before(batch, i) == {j \in DOMAIN batch : j < i}

\* The batch is a map; it is applied in identifier order up to the first
\* refusal, and what was applied before the refusal stays.
Taken(s, batch) ==
    {i \in DOMAIN batch :
        \A j \in DOMAIN batch :
            j <= i => CanCommit(AddCommitments(s, batch, Before(batch, j)), j)}

Submit(s, batch) == AddCommitments(s, batch, Taken(s, batch))

SubmitCommitments(n, batch) ==
    /\ signerUp
    /\ sessions' = [sessions EXCEPT ![n] = Submit(@, batch)]
    /\ UNCHANGED <<made, signerKey, keyFile, signerUp, installed, keyFault>>

\* A share is made under a key, over a message and a set of commitments;
\* [key, over] with over = None stands for one made for something else.
SubmitSignatureShare(n, i, k, over) ==
    /\ signerUp
    /\ CanShare(sessions[n])
    /\ sessions' = [sessions EXCEPT ![n] = AddSignatureShare(@, i, [key |-> k, over |-> over])]
    /\ UNCHANGED <<made, signerKey, keyFile, signerUp, installed, keyFault>>

\* frost::aggregate: one valid share for every commitment, and enough of them.
Aggregates(s, k) ==
    /\ DOMAIN s.shares = DOMAIN s.comms
    /\ Count(s.comms) >= KeyThreshold
    /\ \A i \in DOMAIN s.shares : s.shares[i] = [key |-> k, over |-> s.comms]

\* The answer to GetSignature: the signature, or None for an error.
GetSignature(s, k) ==
    IF /\ s.state = "complete"
       /\ k # None
       /\ Count(s.comms) >= s.min
       /\ Count(s.shares) >= s.min
       /\ Aggregates(s, k)
    THEN [key |-> k, over |-> s.comms]
    ELSE None

SignerCrash ==
    /\ signerUp
    /\ signerUp' = FALSE
    /\ sessions' = <<>>
    /\ signerKey' = None
    /\ UNCHANGED <<made, keyFile, installed, keyFault>>

\* A file that does not parse is ignored, like one that is not there.
LoadFromDisk == IF keyFile = Torn THEN None ELSE keyFile

SignerStart ==
    /\ ~signerUp
    /\ signerUp' = TRUE
    /\ signerKey' = LoadFromDisk
    /\ UNCHANGED <<sessions, made, keyFile, installed, keyFault>>

Batches == UNION {[B -> Nonce] : B \in (SUBSET Identifier) \ {{}}}

SignerNext ==
    \/ \E k \in Key : InstallKeyPackages(k) \/ InstallCutShort(k)
    \/ \E min \in MinSigners : CreateSession(min)
    \/ \E n \in DOMAIN sessions :
          \/ \E batch \in Batches : SubmitCommitments(n, batch)
          \/ \E i \in Identifier, k \in Key, over \in {None, sessions[n].comms} :
                SubmitSignatureShare(n, i, k, over)
    \/ SignerCrash
    \/ SignerStart

-----------------------------------------------------------------------------
SignerTypeOK ==
    /\ DOMAIN sessions \subseteq 1 .. made
    /\ Count(sessions) <= MaxSessions
    /\ \A n \in DOMAIN sessions :
          /\ sessions[n].state \in {"awaiting_commitments", "awaiting_signature_shares", "complete"}
          /\ sessions[n].comms \in Batches \cup {<<>>}
          /\ DOMAIN sessions[n].shares \subseteq Identifier
    /\ signerKey \in Key \cup {None}

\* A session that awaits shares or is complete holds exactly the signers it
\* was created for, one at least, whatever batches were sent, repeated and cut
\* off by a refusal half-way (add_commitments, SubmitCommitments).
ExactSigners ==
    \A n \in DOMAIN sessions :
        LET s == sessions[n] IN
        IF s.state = "awaiting_commitments"
        THEN s.comms = <<>> \/ Count(s.comms) < s.min
        ELSE Count(s.comms) = (IF s.min = 0 THEN 1 ELSE s.min)

\* A recorded commitment is never replaced or dropped, so that no participant
\* is made to sign with a nonce it did not announce (DuplicateCommitment).
CommitmentsStand ==
    [][\A n \in DOMAIN sessions \cap DOMAIN sessions' :
          \A i \in DOMAIN sessions[n].comms :
              i \in DOMAIN sessions'[n].comms /\ sessions'[n].comms[i] = sessions[n].comms[i]]_signerVars

\* The answer for a complete session stays what it was, for a client that asks
\* again because it lost the reply, until another key is installed or the
\* daemon goes down (add_signature_share on a complete session).
AnswerRepeats ==
    [][\A n \in DOMAIN sessions \cap DOMAIN sessions' :
          sessions[n].state = "complete" /\ signerKey' = signerKey =>
              GetSignature(sessions'[n], signerKey) = GetSignature(sessions[n], signerKey)]_signerVars

\* A running daemon holds the last key it acknowledged, or that of a later install
\* which died between the file and the reply, across any number of restarts,
\* unless writing the key file failed or was cut short at some point
\* (InstallKeyPackages only warns of it; load_from_disk's error is dropped).
KeyLostHasCause == signerUp /\ signerKey # installed => keyFault

\* The signer's sessions hold exactly their signers and its key is the one it
\* acknowledged, however requests are repeated, cut off or fall into a restart.
SignerSafe == SignerTypeOK /\ ExactSigners /\ KeyLostHasCause

\* What a client was told of a session stays true until the daemon goes down.
SessionsStand == CommitmentsStand /\ AnswerRepeats
=============================================================================
