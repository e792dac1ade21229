--------------------------- MODULE IdentityDaemon ---------------------------
(***************************************************************************)
(* vault-identityd: the hybrid identity key of a node, in the memory of    *)
(* the daemon and in the store directory it shares with the generate and   *)
(* rotate commands, which run as processes of their own.  The daemon's     *)
(* mutex makes its requests follow one another; nothing orders the daemon  *)
(* and a command.  The directory is modelled by its names and the files    *)
(* behind them, because both write through the one name identity-<id>.tmp. *)
(***************************************************************************)
EXTENDS Naturals, FiniteSets

CONSTANTS
    Command,    \* processes started as generate-identity or rotate-identity
    Sizes,      \* lengths of messages to sign, of nonces, and time stamps
    Nonces,
    MaxMessage, \* MAX_SIGN_MESSAGE_BYTES
    Skew,       \* skew_secs
    MaxKeys,    \* bound: key pairs generated
    MaxClock,   \* bound: seconds that pass
    MaxFaults,  \* bound: processes that die or fail to write
    NoKey

ASSUME IdentityAssumption ==
    /\ "serve" \notin Command
    /\ {MaxMessage, Skew, MaxKeys, MaxClock, MaxFaults} \subseteq Nat
    /\ NoKey \notin Nat

Process == Command \cup {"serve"}

VARIABLES
    names,      \* the directory: Enc, Tmp and the archives -> file
    content,    \* file -> Blank, or the key encrypted in it
    memory,     \* IdentityDaemon.identity of the daemon
    at,         \* what each process does: "idle", or its next step
    mine,       \* the key a process has generated for its request
    fd,         \* the file a process has open as tmp
    keys,       \* keys generated so far
    clock,      \* seconds
    faults,     \* deaths and failed writes so far
    told,       \* history: the keys that were reported or have signed
    overwrote,  \* history: an archive of the same second was overwritten
    overlapped, \* history: a request ran while another process was at work
    drift       \* history: the daemon's file was taken away under it

files == <<names, content>>
bounds == <<keys, clock, faults>>
history == <<told, overwrote, overlapped, drift>>
identityVars == <<files, memory, at, mine, fd, bounds, history>>

Enc == <<"enc", 0>>
Tmp == <<"tmp", 0>>
Archive(secs) == <<"old", secs>>

\* A file that was truncated and not written to.
Blank == 0

IdentityInit ==
    /\ names = <<>>
    /\ content = <<>>
    /\ memory = NoKey
    /\ at = [p \in Process |-> "idle"]
    /\ mine = [p \in Process |-> NoKey]
    /\ fd = [p \in Process |-> NoKey]
    /\ keys = 0
    /\ clock = 0
    /\ faults = 0
    /\ told = {}
    /\ overwrote = FALSE
    /\ overlapped = FALSE
    /\ drift = FALSE

Has(name) == name \in DOMAIN names

Entry(name) == content[names[name]]

Without(f, x) == [y \in DOMAIN f \ {x} |-> f[y]]

With(f, x, v) == [y \in DOMAIN f \cup {x} |-> IF y = x THEN v ELSE f[y]]

\* decrypt_bytes and HybridKeyPair::from_bytes: too short a blob is refused.
FromBytes(blob) == IF blob = Blank THEN NoKey ELSE blob

\* Mutant: the temporary file is renamed before it is written.
AfterRenamedFirst(step) ==
    CASE step = "open" -> "rename" [] step = "rename" -> "write" [] OTHER -> "done"

\* atomic_write, one system call after the other.
After(step) ==
    CASE step = "open" -> "write" [] step = "write" -> "rename" [] OTHER -> "done"

\* HybridKeyPair::generate: a fresh key, to be written next.
Generate(p) ==
    /\ keys < MaxKeys
    /\ keys' = keys + 1
    /\ mine' = [mine EXCEPT ![p] = keys + 1]
    /\ at' = [at EXCEPT ![p] = "open"]
    /\ UNCHANGED <<memory, clock, faults>>

Begin(p) ==
    /\ at[p] = "idle"
    /\ overlapped' = (overlapped \/ \E q \in Process \ {p} : at[q] # "idle")

-----------------------------------------------------------------------------
(***************************************************************************)
(* load_or_generate_identity.                                              *)
(***************************************************************************)

LoadOrGenerate(p) ==
    /\ Begin(p)
    /\ \/ /\ p = "serve" /\ memory # NoKey
          /\ told' = told \cup {memory}
          /\ UNCHANGED <<at, mine, memory, bounds>>
       \/ /\ p # "serve" \/ memory = NoKey
          /\ Has(Enc)
          /\ at' = [at EXCEPT ![p] = "read"]
          /\ UNCHANGED <<mine, memory, bounds, told>>
       \/ /\ p # "serve" \/ memory = NoKey
          /\ ~Has(Enc)
          /\ Generate(p)
          /\ UNCHANGED told
    /\ UNCHANGED <<files, fd, overwrote, drift>>

\* read_identity_blob, then decoding; any failure ends the request.
Read(p) ==
    LET key == IF Has(Enc) THEN FromBytes(Entry(Enc)) ELSE NoKey IN
    /\ at[p] = "read"
    /\ at' = [at EXCEPT ![p] = "idle"]
    /\ IF key = NoKey
       THEN UNCHANGED <<memory, told, drift>>
       ELSE /\ told' = told \cup {key}
            /\ memory' = IF p = "serve" THEN key ELSE memory
            /\ drift' = (drift /\ p # "serve")
    /\ UNCHANGED <<files, mine, fd, bounds, overwrote, overlapped>>

-----------------------------------------------------------------------------
(***************************************************************************)
(* rotate_identity.                                                        *)
(***************************************************************************)

Rotate(p) ==
    /\ Begin(p)
    /\ IF Has(Enc)
       THEN at' = [at EXCEPT ![p] = "archive"] /\ UNCHANGED <<mine, memory, bounds>>
       ELSE Generate(p)
    /\ UNCHANGED <<files, fd, told, overwrote, drift>>

\* The file moves to the archive of this second, over one that is there.  The
\* clean-up after it looks for names that end in ".old.": no archive does.
ArchiveOld == With(Without(names, Enc), Archive(clock), names[Enc])

\* fs::rename of the current file; it fails when the file is gone by now.
ArchiveStep(p) ==
    /\ at[p] = "archive"
    /\ IF Has(Enc)
       THEN /\ Generate(p)
            /\ names' = ArchiveOld
            /\ overwrote' = (overwrote \/ Has(Archive(clock)))
            /\ drift' = TRUE
       ELSE /\ at' = [at EXCEPT ![p] = "idle"]
            /\ UNCHANGED <<names, memory, mine, bounds, overwrote, drift>>
    /\ UNCHANGED <<content, fd, told, overlapped>>

-----------------------------------------------------------------------------
(***************************************************************************)
(* atomic_write.                                                           *)
(***************************************************************************)

\* A request that reported its key; the daemon keeps it in memory.
Report(p) ==
    /\ told' = told \cup {mine[p]}
    /\ memory' = IF p = "serve" THEN mine[p] ELSE memory
    /\ drift' = (drift /\ p # "serve")

Advance(p) ==
    /\ at' = [at EXCEPT ![p] = IF After(at[p]) = "done" THEN "idle" ELSE After(at[p])]
    /\ IF After(at[p]) = "done" THEN Report(p) ELSE UNCHANGED <<told, memory, drift>>
    /\ UNCHANGED <<mine, bounds, overwrote, overlapped>>

\* Created when missing, truncated when there: another process may hold it.
OpenTmp(p) ==
    LET file == IF Has(Tmp) THEN names[Tmp] ELSE 1 + Cardinality(DOMAIN content) IN
    /\ at[p] = "open"
    /\ names' = With(names, Tmp, file)
    /\ content' = With(content, file, Blank)
    /\ fd' = [fd EXCEPT ![p] = file]
    /\ Advance(p)

\* Written and synced, under whatever name the file has by now.
WriteTmp(p) ==
    /\ at[p] = "write"
    /\ content' = [content EXCEPT ![fd[p]] = mine[p]]
    /\ Advance(p)
    /\ UNCHANGED <<names, fd>>

RenameTmp(p) ==
    /\ at[p] = "rename"
    /\ IF Has(Tmp)
       THEN /\ names' = With(Without(names, Tmp), Enc, names[Tmp])
            /\ Advance(p)
       ELSE /\ at' = [at EXCEPT ![p] = "idle"]
            /\ UNCHANGED <<names, memory, mine, bounds, history>>
    /\ UNCHANGED <<content, fd>>

\* A write that fails ends the request with an error; a process that dies
\* ends it with nothing, and the daemon starts again with an empty memory.
Fault(p, dies) ==
    /\ faults < MaxFaults
    /\ faults' = faults + 1
    /\ at[p] \in {"open", "write", "rename"} \/ dies
    /\ at' = [at EXCEPT ![p] = "idle"]
    /\ memory' = IF dies /\ p = "serve" THEN NoKey ELSE memory
    /\ drift' = (drift /\ ~(dies /\ p = "serve"))
    /\ UNCHANGED <<files, mine, fd, keys, clock, told, overwrote, overlapped>>

-----------------------------------------------------------------------------
\* The gates of handle_sign before the daemon's lock is taken.
AdmitsSign(size, op, nonce, stamp) ==
    /\ size <= MaxMessage
    /\ op \in {"identity", "audit"}
    /\ nonce \in 8 .. 64
    /\ stamp >= (IF clock < Skew THEN 0 ELSE clock - Skew) /\ stamp <= clock + Skew

\* Nonces are not remembered: the same request signs again within its window.
Sign(size, op, nonce, stamp) ==
    /\ AdmitsSign(size, op, nonce, stamp)
    /\ at["serve"] = "idle" /\ memory # NoKey
    /\ told' = told \cup {memory}
    /\ UNCHANGED <<files, memory, at, mine, fd, bounds, overwrote, overlapped, drift>>

Second ==
    /\ clock < MaxClock
    /\ clock' = clock + 1
    /\ UNCHANGED <<files, memory, at, mine, fd, keys, faults, history>>

IdentityNext ==
    \/ \E p \in Process :
          \/ LoadOrGenerate(p) \/ Rotate(p) \/ Read(p) \/ ArchiveStep(p)
          \/ OpenTmp(p) \/ WriteTmp(p) \/ RenameTmp(p)
          \/ \E dies \in BOOLEAN : Fault(p, dies)
    \/ \E size \in Sizes, nonce \in Nonces, stamp \in 0 .. MaxClock + 2 :
          \E op \in {"identity", "audit", "treasury"} : Sign(size, op, nonce, stamp)
    \/ Second

-----------------------------------------------------------------------------
IdentityTypeOK ==
    /\ \A name \in DOMAIN names : names[name] \in DOMAIN content
    /\ \A f \in DOMAIN content : content[f] \in 0 .. keys
    /\ memory \in 1 .. keys \cup {NoKey}
    /\ \A p \in Process :
          /\ at[p] \in {"idle", "read", "archive", "open", "write", "rename"}
          /\ at[p] \in {"write", "rename"} => fd[p] \in DOMAIN content /\ mine[p] \in 1 .. keys
    /\ told \subseteq 1 .. keys

\* No key that was handed out or has signed leaves the store: it is the
\* current file or an archive, whatever processes die or fail to write on the
\* way, unless two requests overlapped or two rotations fell into one second.
KeysKept ==
    overlapped \/ overwrote \/
    \A k \in told : \E name \in DOMAIN names \ {Tmp} : Entry(name) = k

\* The identity file, when it is there, holds a whole key: the daemon can load
\* it after a death at any step (atomic_write), unless two requests overlapped.
FileLoads == overlapped \/ (Has(Enc) => FromBytes(Entry(Enc)) # NoKey)

\* The daemon signs with the key its file holds, and so does it after a restart,
\* unless a rotation by a command or a rotation that failed after archiving took
\* the file away, or two requests overlapped.
SignsWithFile ==
    at["serve"] = "idle" /\ memory # NoKey /\ ~drift /\ ~overlapped => Has(Enc) /\ Entry(Enc) = memory

\* No death of the daemon or of a command between two steps of a write loses a
\* key, leaves a file that does not load or a daemon that signs with another key
\* than its file has.
IdentitySafe == IdentityTypeOK /\ KeysKept /\ FileLoads /\ SignsWithFile
=============================================================================
