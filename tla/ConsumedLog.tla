---- MODULE ConsumedLog ----
(***************************************************************************)
(* The append-only id logs of one node, used_sessions.log and              *)
(* consumed_intents.log, down to the system calls: PersistedAntiNonce      *)
(* (adapters/session_persist.rs) and PersistedBucketLedger                 *)
(* (adapters/bucket_memory.rs).  Both append with                          *)
(* writeln!(file, "{id}") on an unbuffered file, which writes the id and   *)
(* the newline in two calls, and then fsync.  PersistedAntiNonce::prepare  *)
(* holds its mutex from the check to the insert; prepare_consume and       *)
(* try_consume of PersistedBucketLedger drop it for the append and check   *)
(* again after it.                                                         *)
(*                                                                         *)
(* Abstracted: an unfinished line is the sequence of ids whose text it is  *)
(* made of, so a line of two ids loads as neither of them; of the finished *)
(* lines only those of one id are kept, as no other loads.  One write call *)
(* writes all of its text or none.                                         *)
(***************************************************************************)
EXTENDS Naturals, Sequences, FiniteSets

CONSTANTS
    Id,          \* session or intent ids
    Writer,      \* threads that prepare an id
    NoId,        \* the thread is idle
    MaxTail,     \* bound on the ids of an unfinished line
    MaxCuts      \* bound on the appends cut before their newline

ASSUME IdAssumption == NoId \notin Id

VARIABLES
    lines,   \* ids with a finished line of their own, as the kernel has them
    tail,    \* what follows the last newline
    disk,    \* lines and tail as of the last fsync
    mem,     \* the HashSet in memory
    pc,      \* pc[w]: the next system call of the thread
    arg,     \* arg[w]: the id it prepares
    held,    \* the mutex is held over the append: used_sessions.log
    fresh,   \* history: ids some prepare returned as not seen before
    spoilt,  \* history: ids whose text met other text on an unfinished line
    cuts     \* history: how often an append ended before its newline

logVars == <<lines, tail, disk, mem, pc, arg, held, fresh, spoilt, cuts>>

\* load_ids_into / load_consumed_into: every non-empty line is an id, an
\* unfinished last one too.
Load(ls, tl) == ls \cup {i \in Id : tl = <<i>>}

LogInit ==
    /\ lines = {}
    /\ tail = <<>>
    /\ disk = [lines |-> {}, tail |-> <<>>]
    /\ mem = {}
    /\ pc = [w \in Writer |-> "idle"]
    /\ arg = [w \in Writer |-> NoId]
    /\ held \in BOOLEAN
    /\ fresh = {}
    /\ spoilt = {}
    /\ cuts = 0

Goto(w, l) == pc' = [pc EXCEPT ![w] = l]

\* prepare, up to the append: an id in memory is answered at once.
Check(w, i) ==
    /\ pc[w] = "idle"
    /\ held => \A v \in Writer : pc[v] = "idle"
    /\ i \notin mem
    /\ arg' = [arg EXCEPT ![w] = i]
    /\ Goto(w, "write_id")
    /\ UNCHANGED <<lines, tail, disk, mem, held, fresh, spoilt, cuts>>

\* Threads whose id is on the unfinished line and waits for its newline.
Waiting == {v \in Writer : pc[v] = "write_newline" /\ \E k \in DOMAIN tail : tail[k] = arg[v]}

WriteId(w) ==
    /\ pc[w] = "write_id"
    /\ Len(tail) < MaxTail
    /\ tail' = Append(tail, arg[w])
    /\ spoilt' = IF tail = <<>> THEN spoilt
                 ELSE spoilt \cup {arg[w]} \cup {arg[v] : v \in Waiting}
    /\ Goto(w, "write_newline")
    /\ UNCHANGED <<lines, disk, mem, arg, held, fresh, cuts>>

WriteNewline(w) ==
    /\ pc[w] = "write_newline"
    /\ lines' = Load(lines, tail)
    /\ tail' = <<>>
    /\ Goto(w, "sync")
    /\ UNCHANGED <<disk, mem, arg, held, fresh, spoilt, cuts>>

\* Mutant: the id is not synced before it is reported.
SyncNothing(w) ==
    /\ pc[w] = "sync"
    /\ Goto(w, "insert")
    /\ UNCHANGED <<lines, tail, disk, mem, arg, held, fresh, spoilt, cuts>>

Sync(w) ==
    /\ pc[w] = "sync"
    /\ disk' = [lines |-> lines, tail |-> tail]
    /\ Goto(w, "insert")
    /\ UNCHANGED <<lines, tail, mem, arg, held, fresh, spoilt, cuts>>

\* After the append: a thread that lost the race for its id reports it as seen.
Insert(w) ==
    /\ pc[w] = "insert"
    /\ IF arg[w] \in mem
       THEN UNCHANGED <<mem, fresh>>
       ELSE /\ mem' = mem \cup {arg[w]}
            /\ fresh' = fresh \cup {arg[w]}
    /\ arg' = [arg EXCEPT ![w] = NoId]
    /\ Goto(w, "idle")
    /\ UNCHANGED <<lines, tail, disk, held, spoilt, cuts>>

\* The appends of the threads ws end here, some perhaps before their newline.
Cut(ws) ==
    IF \E w \in ws : pc[w] = "write_newline"
    THEN cuts < MaxCuts /\ cuts' = cuts + 1
    ELSE UNCHANGED cuts

\* A system call fails: prepare returns the error, and memory stays as it was.
AppendError(w) ==
    /\ pc[w] \in {"write_id", "write_newline", "sync"}
    /\ Cut({w})
    /\ arg' = [arg EXCEPT ![w] = NoId]
    /\ Goto(w, "idle")
    /\ UNCHANGED <<lines, tail, disk, mem, held, fresh, spoilt>>

\* The process dies, or the whole machine and with it what was not synced; the
\* log is opened again.
Restart(ls, tl) ==
    /\ Cut(Writer)
    /\ lines' = ls
    /\ tail' = tl
    /\ mem' = Load(ls, tl)
    /\ pc' = [w \in Writer |-> "idle"]
    /\ arg' = [w \in Writer |-> NoId]
    /\ UNCHANGED <<disk, held, fresh, spoilt>>

ProcessDies == Restart(lines, tail)

PowerFails == Restart(disk.lines, disk.tail)

LogNext ==
    \/ \E w \in Writer :
          \/ \E i \in Id : Check(w, i)
          \/ WriteId(w) \/ WriteNewline(w) \/ Sync(w) \/ Insert(w)
          \/ AppendError(w)
    \/ ProcessDies
    \/ PowerFails

LogSpec == LogInit /\ [][LogNext]_logVars
----
\* Every variable has its type.
LogTypeOK ==
    /\ lines \subseteq Id
    /\ tail \in Seq(Id)
    /\ disk \in [lines : SUBSET Id, tail : Seq(Id)]
    /\ mem \subseteq Id
    /\ pc \in [Writer -> {"idle", "write_id", "write_newline", "sync", "insert"}]
    /\ arg \in [Writer -> Id \cup {NoId}]
    /\ held \in BOOLEAN
    /\ fresh \subseteq Id
    /\ spoilt \subseteq Id
    /\ cuts \in Nat

\* "Append-only local session_id log (fsync) survives restart": an id that some
\* prepare reported as not seen is found again whenever and however the node
\* restarts, unless its text ran into that of another id on one line.  Where
\* the mutex is held over the append, it takes an append cut before its newline
\* to spoil an id, and each cut spoils one id at most; where it is not, two
\* threads that write at once spoil both of theirs with no failure at all.
FreshSurvives ==
    /\ fresh \ Load(lines, tail) \subseteq spoilt
    /\ fresh \ Load(disk.lines, disk.tail) \subseteq spoilt
    /\ held => Cardinality(spoilt) <= cuts
====
