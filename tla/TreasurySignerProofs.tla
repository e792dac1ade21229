------------------------ MODULE TreasurySignerProofs ------------------------
(***************************************************************************)
(* The deposit keys of a vault and the PSBTs it signs with them, for every *)
(* number of shares, every set of requests and refreshes, and every number *)
(* of crashes, failed writes and boots in any mode.                        *)
(*                                                                         *)
(* Keys.  A key set is written in pieces, without a lock, while others may *)
(* write the same suite.  KeepInv says what holds at every piece: boot is  *)
(* alone when it writes; what is installed was sealed before, under the    *)
(* same group key and for the same shares; every job that writes a suite   *)
(* writes that key; unless the suite is torn, one job at a time is between *)
(* its first and last write, and what it wrote stands.  The threshold is   *)
(* the last piece, so a store that misses it was never installed, and      *)
(* dealing a fresh key over it replaces none.                              *)
(*                                                                         *)
(* Requests.  A request in progress took the installed key and no step     *)
(* short of a crash changes it, so all its inputs are signed under it.  A  *)
(* request that will commit holds the only reservation of its intent; what *)
(* was signed for is burnt, and a burnt intent cannot be reserved.         *)
(***************************************************************************)
EXTENDS TreasurySigner, FiniteSetTheorems, NaturalsInduction, TLAPS

----
(***************************************************************************)
(* The key material.                                                       *)
(***************************************************************************)

\* All shares of a key set have one token, of the key they are verified against.
Uniform(k) == \A i, j \in DOMAIN k.kp : k.kp[i] = k.kp[j] /\ k.kp[i].vk = k.pub.vk

\* Boot runs alone and installs one suite after the other, with dealer_lab only.
BootJob ==
    LET b == job["boot"] IN
    /\ up => b = Idle
    /\ b.op \in {"idle", "load", "put"}
    /\ ~up /\ b = Idle => \A k \in Suite : slot[k] = None
    /\ b # Idle =>
        /\ b.op # "idle"
        /\ mode = "dealer" /\ b.suite \in Sealed
        /\ slot["intent"] # None /\ slot["channels"] = None
        /\ b.suite = "tr" <=> slot["tr"] = None
    /\ b.op = "put" => b.new # None /\ DOMAIN b.new.kp = Id /\ Uniform(b.new)

\* A refresh runs on a booted dealer node, where every suite is installed; what
\* it writes is of the installed group key and for the same shares.
RefreshJobs ==
    /\ up /\ mode = "dealer" => \A k \in Suite : slot[k] # None
    /\ \A j \in Refresher :
        /\ job[j] # Idle => up /\ mode = "dealer" /\ job[j].op \in {"intent", "snap", "put"}
        /\ job[j].op = "intent" => job[j].new # None
        /\ job[j].op \in {"snap", "put"} => job[j].suite \in Sealed
        /\ job[j].op = "put" =>
            LET new == job[j].new
                k == job[j].suite IN
            /\ new # None
            /\ new.pub.vk = slot[k].pub.vk
            /\ DOMAIN new.kp = DOMAIN slot[k].kp
            /\ k \notin torn => Uniform(new)

\* An installed suite is sealed, under the same group key and for the same shares.
InstalledIsSealed ==
    \A k \in Sealed : slot[k] # None =>
        /\ Loads(k)
        /\ disk[k].pub.vk = slot[k].pub.vk
        /\ disk[k].roster = DOMAIN slot[k].kp
        /\ k \notin torn => Uniform(slot[k])

\* The pieces below next are those of the job's key set.
Written(j) ==
    LET d == disk[job[j].suite]
        new == job[j].new
        next == job[j].next IN
    /\ \A i \in DOMAIN new.kp : i < next => d.kp[i] = new.kp[i]
    /\ N + 1 < next => d.pub = new.pub
    /\ N + 2 < next => d.roster = DOMAIN new.kp
    /\ N + 3 < next => d.min = T

\* Nobody else wrote in between, unless the suite is torn.
WritesStand ==
    /\ \A j \in Job : job[j].op = "put" /\ (j = "boot" \/ (job[j].suite \notin torn /\ job[j].next \in Pieces))
            => Written(j)
    /\ \A k \in Sealed \ torn : \A i, j \in Job : Cut(i, k) /\ Cut(j, k) => i = j

\* What nobody is writing and was never torn is a whole key set.
SealedIsWhole ==
    \A k \in Sealed \ torn : (\A j \in Job : ~Cut(j, k)) /\ Loads(k) => Uniform(LoadTrShares(disk[k]))

\* The threshold is written last: while it is missing a fresh key overwrites nothing.
ThresholdIsLast ==
    \A k \in Sealed \ unread :
        /\ disk[k].min # 0 => Loads(k)
        /\ job["boot"].op = "put" /\ job["boot"].suite = k /\ job["boot"].next \in Pieces => disk[k].min = 0

KeepInv ==
    /\ KeepTypeOK
    /\ BootJob
    /\ RefreshJobs
    /\ InstalledIsSealed
    /\ WritesStand
    /\ SealedIsWhole
    /\ ThresholdIsLast

----
(***************************************************************************)
(* The requests.                                                           *)
(***************************************************************************)
Active(c) == call[c] # NoCall

\* A request in progress took the installed key, and its signatures are under it.
CallsAreBound ==
    /\ \A c \in Call : Active(c) =>
        /\ up /\ call[c].req \in Requests /\ Signs(call[c].req)
        /\ slot[call[c].req.bucket] # None
        /\ call[c].vk = slot[call[c].req.bucket].pub.vk
        /\ \A s \in call[c].sigs : s.vk = call[c].vk
    /\ \A a \in signed : Signs(a.req) /\ \A s \in a.sigs : s.vk = a.vk

\* A request that will commit holds the only reservation of its intent, and no
\* reserved intent is burnt.
Holds(c) == Active(c) /\ call[c].req.commit
ReservationsHeld ==
    /\ \A c \in Call : Holds(c) => call[c].req.intent \in reserved
    /\ \A c, d \in Call : Holds(c) /\ Holds(d) /\ call[c].req.intent = call[d].req.intent => c = d
    /\ reserved \cap burnt = {}

\* What was signed for is burnt.
SignedIsBurnt ==
    /\ \A a \in signed : a.req.commit => a.req.intent \in burnt
    /\ raw \subseteq burnt

IInv ==
    /\ TypeOK
    /\ KeepInv
    /\ CallsAreBound
    /\ ReservationsHeld
    /\ SignedIsBurnt
    /\ OneSignaturePerIntent

----
(***************************************************************************)
(* Key sets and sealed pieces.                                             *)
(***************************************************************************)
DiskSet == [kp : [Id -> Token \cup {None}], pub : Token \cup {None}, roster : SUBSET Id, min : {0, T}]
JobSet == [op : {"idle", "intent", "snap", "put", "load"}, suite : Suite,
           new : KeySets \cup {None}, next : 1 .. N + 4]

\* What the constants are assumed to be.
LEMMA Bounds ==
    /\ N \in Nat /\ T \in Nat /\ N >= 2 /\ T >= 2 /\ T <= N
    /\ "boot" \in Job /\ "boot" \notin Refresher /\ Refresher \subseteq Job
    /\ Sealed \subseteq Suite /\ "tr" \in Sealed /\ "channels" \in Sealed /\ "intent" \in Suite \ Sealed
  BY ShareKeepingAssumption DEF Job, Sealed, Suite

\* A key set has a token for each of its shares and for its public package.
LEMMA KeySetElim ==
    ASSUME NEW k \in KeySets
    PROVE  /\ k # None
           /\ DOMAIN k.kp \in SUBSET Id
           /\ \A i \in DOMAIN k.kp : k.kp[i] \in Token
           /\ k.pub \in Token
           /\ k.pub # None
  BY NoneAssumption DEF KeySets

\* A record of that form is a key set.
LEMMA KeySetIntro ==
    ASSUME NEW ids \in SUBSET Id, NEW f \in [ids -> Token], NEW t \in Token
    PROVE  [kp |-> f, pub |-> t] \in KeySets
  BY DEF KeySets

\* A generated key set is one for all identifiers, of one token.
LEMMA NewKeySet ==
    ASSUME NEW g \in 1 .. MaxGen
    PROVE  KeySet(Id, g, g) \in KeySets /\ DOMAIN KeySet(Id, g, g).kp = Id /\ Uniform(KeySet(Id, g, g))
<1>1. [vk |-> g, gen |-> {g}] \in Token
  BY DEF Token
<1>2. KeySet(Id, g, g) \in KeySets
  BY <1>1, KeySetIntro DEF KeySet
<1> QED
  BY <1>2 DEF KeySet, Uniform

\* A refresh keeps the group key and the shares' names, and uniform shares uniform.
LEMMA Refreshed ==
    ASSUME NEW k \in KeySets, NEW g \in 1 .. MaxGen
    PROVE  LET r == RefreshTrShares(k, g) IN
           /\ r \in KeySets
           /\ DOMAIN r.kp = DOMAIN k.kp
           /\ r.pub.vk = k.pub.vk
           /\ Uniform(k) => Uniform(r)
<1> DEFINE r == RefreshTrShares(k, g)
<1>1. ASSUME NEW t \in Token
      PROVE  [t EXCEPT !.gen = @ \cup {g}] \in Token /\ [t EXCEPT !.gen = @ \cup {g}].vk = t.vk
  BY DEF Token
<1>2. DOMAIN k.kp \in SUBSET Id /\ k.pub \in Token /\ \A i \in DOMAIN k.kp : k.kp[i] \in Token
  BY KeySetElim
<1>3. [i \in DOMAIN k.kp |-> [k.kp[i] EXCEPT !.gen = @ \cup {g}]] \in [DOMAIN k.kp -> Token]
  BY <1>1, <1>2
<1>4. [k.pub EXCEPT !.gen = @ \cup {g}] \in Token
  BY <1>1, <1>2
<1>5. r \in KeySets
  BY <1>2, <1>3, <1>4, KeySetIntro DEF RefreshTrShares
<1>6. /\ DOMAIN r.kp = DOMAIN k.kp /\ r.pub.vk = k.pub.vk
      /\ \A i \in DOMAIN k.kp : r.kp[i] = [k.kp[i] EXCEPT !.gen = @ \cup {g}] /\ r.kp[i].vk = k.kp[i].vk
  BY <1>1, <1>2 DEF RefreshTrShares
<1>7. Uniform(k) => Uniform(r)
  <2> SUFFICES ASSUME Uniform(k), NEW i \in DOMAIN r.kp, NEW j \in DOMAIN r.kp
               PROVE  r.kp[i] = r.kp[j] /\ r.kp[i].vk = r.pub.vk
    BY DEF Uniform
  <2>1. i \in DOMAIN k.kp /\ j \in DOMAIN k.kp
    BY <1>6
  <2>2. k.kp[i] = k.kp[j] /\ k.kp[i].vk = k.pub.vk
    BY <2>1 DEF Uniform
  <2> HIDE DEF r
  <2> QED
    BY <1>6, <2>1, <2>2
<1> QED
  BY <1>5, <1>6, <1>7

\* Loading gives the sealed shares of the roster.
LEMMA Loaded ==
    ASSUME NEW d \in DiskSet, LoadsTr(d)
    PROVE  LET k == LoadTrShares(d) IN k \in KeySets /\ DOMAIN k.kp = d.roster /\ k.pub = d.pub
<1>1. d.roster \in SUBSET Id /\ d.pub \in Token
  BY DEF DiskSet, LoadsTr
<1>2. [i \in d.roster |-> d.kp[i]] \in [d.roster -> Token]
  BY DEF DiskSet, LoadsTr
<1>3. LoadTrShares(d) \in KeySets
  BY <1>1, <1>2, KeySetIntro DEF LoadTrShares
<1> QED
  BY <1>3 DEF LoadTrShares

\* What one write changes.
LEMMA PieceWritten ==
    ASSUME NEW d \in DiskSet, NEW new \in KeySets, NEW p \in Pieces
    PROVE  LET e == PutPiece(d, new, p) IN
           /\ e \in DiskSet
           /\ \A i \in Id : e.kp[i] = IF i = p /\ i \in DOMAIN new.kp THEN new.kp[i] ELSE d.kp[i]
           /\ e.pub = IF p = N + 1 THEN new.pub ELSE d.pub
           /\ e.roster = IF p = N + 2 THEN DOMAIN new.kp ELSE d.roster
           /\ e.min = IF p = N + 3 THEN T ELSE d.min
<1> DEFINE e == PutPiece(d, new, p)
<1>0. /\ DOMAIN new.kp \in SUBSET Id /\ new.pub \in Token
      /\ \A i \in DOMAIN new.kp : new.kp[i] \in Token
  BY KeySetElim
<1>1. /\ d.kp \in [Id -> Token \cup {None}] /\ d.pub \in Token \cup {None} /\ d.roster \in SUBSET Id
      /\ d.min \in {0, T}
      /\ d = [kp |-> d.kp, pub |-> d.pub, roster |-> d.roster, min |-> d.min]
  BY DEF DiskSet
<1>2. CASE p = N + 1
  <2>1. e = [kp |-> d.kp, pub |-> new.pub, roster |-> d.roster, min |-> d.min]
    BY <1>1, <1>2, Bounds DEF PutPiece
  <2> QED
    BY <1>0, <1>1, <1>2, <2>1, Bounds DEF DiskSet, Id
<1>3. CASE p = N + 2
  <2>1. e = [kp |-> d.kp, pub |-> d.pub, roster |-> DOMAIN new.kp, min |-> d.min]
    BY <1>1, <1>3, Bounds DEF PutPiece
  <2> QED
    BY <1>0, <1>1, <1>3, <2>1, Bounds DEF DiskSet, Id
<1>4. CASE p = N + 3
  <2>1. e = [kp |-> d.kp, pub |-> d.pub, roster |-> d.roster, min |-> T]
    BY <1>1, <1>4, Bounds DEF PutPiece
  <2> QED
    BY <1>0, <1>1, <1>4, <2>1, Bounds DEF DiskSet, Id
<1>5. CASE p \in Id /\ p \in DOMAIN new.kp
  <2>1. e = [kp |-> [d.kp EXCEPT ![p] = new.kp[p]], pub |-> d.pub, roster |-> d.roster, min |-> d.min]
    <3>1. p # N + 1 /\ p # N + 2 /\ p # N + 3
      BY <1>5, Bounds DEF Id
    <3>2. e = [d EXCEPT !.kp[p] = new.kp[p]]
      BY <1>5, <3>1 DEF PutPiece
    <3> QED
      BY <1>1, <3>2
  <2>2. [d.kp EXCEPT ![p] = new.kp[p]] \in [Id -> Token \cup {None}]
    BY <1>0, <1>1, <1>5
  <2>3. e \in DiskSet
    BY <1>1, <2>1, <2>2 DEF DiskSet
  <2>4. \A i \in Id : e.kp[i] = IF i = p THEN new.kp[i] ELSE d.kp[i]
    BY <1>1, <1>5, <2>1
  <2> QED
    BY <1>5, <2>1, <2>3, <2>4, Bounds DEF Id
<1>6. CASE p \in Id /\ p \notin DOMAIN new.kp
  <2>1. e = d
    BY <1>1, <1>6, Bounds DEF PutPiece, Id
  <2> QED
    BY <1>1, <1>6, <2>1, Bounds DEF Id
<1> QED
  BY <1>2, <1>3, <1>4, <1>5, <1>6, Bounds DEF Pieces, Id

\* A uniform key set of T shares signs.
LEMMA UniformSigns ==
    ASSUME NEW k, Uniform(k), Cardinality(DOMAIN k.kp) >= T
    PROVE  Signable(k)
  BY DEF Uniform, Signable, Aggregates, FirstSigners

----
(***************************************************************************)
(* The steps of the key material.                                          *)
(***************************************************************************)
LEMMA Typing ==
    KeepTypeOK <=>
        /\ mode \in Modes /\ up \in BOOLEAN
        /\ slot \in [Suite -> KeySets \cup {None}]
        /\ disk \in [Sealed -> DiskSet]
        /\ job \in [Job -> JobSet]
        /\ gens \in 0 .. MaxGen /\ torn \subseteq Sealed /\ unread \subseteq Sealed /\ faults \in 0 .. MaxFaults
  BY DEF KeepTypeOK, DiskSet, JobSet

\* The type invariant of the next state, from its parts.
LEMMA TypingNext ==
    KeepTypeOK' <=>
        /\ mode' \in Modes /\ up' \in BOOLEAN
        /\ slot' \in [Suite -> KeySets \cup {None}]
        /\ disk' \in [Sealed -> DiskSet]
        /\ job' \in [Job -> JobSet]
        /\ gens' \in 0 .. MaxGen /\ torn' \subseteq Sealed /\ unread' \subseteq Sealed /\ faults' \in 0 .. MaxFaults
  BY DEF KeepTypeOK, DiskSet, JobSet

\* The job records a step starts from.
LEMMA JobRecords ==
    /\ Idle \in JobSet /\ Idle.op = "idle" /\ Idle.next = 1
    /\ \A k \in Sealed : \A o \in {"load", "snap"} :
        LET r == [Idle EXCEPT !.op = o, !.suite = k] IN
        r \in JobSet /\ r.op = o /\ r.suite = k /\ r.next = 1 /\ r # Idle
    /\ \A n \in KeySets :
        LET r == [Idle EXCEPT !.op = "intent", !.new = n] IN
        r \in JobSet /\ r.op = "intent" /\ r.new = n /\ r # Idle
    /\ \A k \in Sealed, n \in KeySets :
        LET r == [op |-> "put", suite |-> k, new |-> n, next |-> 1] IN r \in JobSet /\ r # Idle
<1>0. 1 \in 1 .. N + 4 /\ "intent" \in Suite /\ Sealed \subseteq Suite
  BY Bounds
<1>1. Idle \in JobSet /\ Idle.op = "idle" /\ Idle.next = 1
  BY <1>0 DEF Idle, JobSet
<1>2. ASSUME NEW k \in Sealed, NEW o \in {"load", "snap"}
      PROVE  LET r == [Idle EXCEPT !.op = o, !.suite = k] IN
             r \in JobSet /\ r.op = o /\ r.suite = k /\ r.next = 1 /\ r # Idle
  <2>1. [Idle EXCEPT !.op = o, !.suite = k] = [op |-> o, suite |-> k, new |-> None, next |-> 1]
    <3>1. [Idle EXCEPT !.op = o] = [op |-> o, suite |-> "intent", new |-> None, next |-> 1]
      BY DEF Idle
    <3>2. PICK a : a = [Idle EXCEPT !.op = o]
      OBVIOUS
    <3>3. [Idle EXCEPT !.op = o, !.suite = k] = [a EXCEPT !.suite = k]
      BY <3>2
    <3>4. a = [op |-> o, suite |-> "intent", new |-> None, next |-> 1]
      BY <3>1, <3>2
    <3> QED
      BY <3>3, <3>4
  <2>2. [op |-> o, suite |-> k, new |-> None, next |-> 1] \in JobSet
    BY <1>0 DEF JobSet
  <2>3. o # "idle"
    OBVIOUS
  <2> QED
    BY <1>1, <2>1, <2>2, <2>3
<1>3. ASSUME NEW n \in KeySets
      PROVE  LET r == [Idle EXCEPT !.op = "intent", !.new = n] IN
             r \in JobSet /\ r.op = "intent" /\ r.new = n /\ r # Idle
  <2>1. [Idle EXCEPT !.op = "intent", !.new = n] = [op |-> "intent", suite |-> "intent", new |-> n, next |-> 1]
    <3>1. [Idle EXCEPT !.op = "intent"] = [op |-> "intent", suite |-> "intent", new |-> None, next |-> 1]
      BY DEF Idle
    <3>2. PICK a : a = [Idle EXCEPT !.op = "intent"]
      OBVIOUS
    <3>3. [Idle EXCEPT !.op = "intent", !.new = n] = [a EXCEPT !.new = n]
      BY <3>2
    <3>4. a = [op |-> "intent", suite |-> "intent", new |-> None, next |-> 1]
      BY <3>1, <3>2
    <3> QED
      BY <3>3, <3>4
  <2>2. [op |-> "intent", suite |-> "intent", new |-> n, next |-> 1] \in JobSet
    BY <1>0 DEF JobSet
  <2> QED
    BY <1>1, <2>1, <2>2
<1>4. ASSUME NEW k \in Sealed, NEW n \in KeySets
      PROVE  LET r == [op |-> "put", suite |-> k, new |-> n, next |-> 1] IN r \in JobSet /\ r # Idle
  BY <1>0, <1>1 DEF JobSet
<1> QED
  BY <1>1, <1>2, <1>3, <1>4

\* A step that writes nothing: jobs stay, end, or are about to write; cut writes
\* tear their suite.
LEMMA NothingWritten ==
    ASSUME KeepInv, disk' = disk, torn \subseteq torn',
           \A j \in Job : \/ job'[j] = job[j]
                          \/ job'[j].op # "put"
                          \/ job'[j].next = 1 /\ job'[j].new \in KeySets,
           \A j \in Job, k \in Sealed : Cut(j, k) /\ job'[j] # job[j] => k \in torn'
    PROVE  WritesStand' /\ SealedIsWhole'
<1>1. ASSUME NEW j \in Job, NEW k \in Sealed, Cut(j, k)' PROVE Cut(j, k)
  <2>1. job'[j].op = "put" /\ job'[j].next # 1 /\ job'[j].suite = k /\ job'[j].next \in 2 .. N + 3
    BY <1>1 DEF Cut
  <2>2. job'[j] = job[j]
    BY <2>1
  <2> QED
    BY <2>1, <2>2 DEF Cut
<1>2. ASSUME NEW k \in Sealed \ torn', NEW j \in Job, Cut(j, k) PROVE Cut(j, k)'
  <2>1. job'[j] = job[j]
    BY <1>2
  <2> QED
    BY <1>2, <2>1 DEF Cut
<1>3. ASSUME NEW j \in Job, job'[j].op = "put",
             j = "boot" \/ (job'[j].suite \notin torn' /\ job'[j].next \in Pieces)
      PROVE  Written(j)'
  <2>1. CASE job'[j] = job[j]
    <3>1. Written(j)
      BY <1>3, <2>1 DEF KeepInv, WritesStand
    <3> QED
      BY <2>1, <3>1 DEF Written
  <2>2. CASE job'[j].next = 1 /\ job'[j].new \in KeySets
    <3>1. \A i \in DOMAIN job'[j].new.kp : i \in Nat /\ ~ (i < 1)
      BY <2>2, KeySetElim DEF Id
    <3> QED
      BY <2>2, <3>1, Bounds DEF Written
  <2> QED
    BY <1>3, <2>1, <2>2
<1>4. WritesStand'
  <2>1. \A k \in Sealed \ torn' : \A i, j \in Job : Cut(i, k)' /\ Cut(j, k)' => i = j
    BY <1>1 DEF KeepInv, WritesStand
  <2> QED
    BY <1>3, <2>1 DEF WritesStand
<1>5. SealedIsWhole'
  <2> SUFFICES ASSUME NEW k \in Sealed \ torn', \A j \in Job : ~Cut(j, k)', LoadsTr(disk[k])
               PROVE  Uniform(LoadTrShares(disk[k]))
    BY DEF SealedIsWhole, Loads, LoadsTrChannels
  <2>1. \A j \in Job : ~Cut(j, k)
    BY <1>2
  <2> QED
    BY <2>1 DEF KeepInv, SealedIsWhole, Loads, LoadsTrChannels
<1> QED
  BY <1>4, <1>5

\* ... and boot overwrites nothing that has its threshold.
LEMMA NothingOverwritten ==
    ASSUME KeepInv, disk' = disk, unread \subseteq unread',
           \/ job'["boot"] = job["boot"]
           \/ job'["boot"].op # "put"
           \/ \A k \in Sealed \ unread' : job'["boot"].suite = k => disk[k].min = 0
    PROVE  ThresholdIsLast'
<1> SUFFICES ASSUME NEW k \in Sealed \ unread'
             PROVE  /\ disk[k].min # 0 => LoadsTr(disk[k])
                    /\ job'["boot"].op = "put" /\ job'["boot"].suite = k /\ job'["boot"].next \in Pieces
                        => disk[k].min = 0
  BY DEF ThresholdIsLast, Loads, LoadsTrChannels
<1>1. k \in Sealed \ unread
  OBVIOUS
<1>2. disk[k].min # 0 => LoadsTr(disk[k])
  BY <1>1 DEF KeepInv, ThresholdIsLast, Loads, LoadsTrChannels
<1>3. job["boot"].op = "put" /\ job["boot"].suite = k /\ job["boot"].next \in Pieces => disk[k].min = 0
  BY <1>1 DEF KeepInv, ThresholdIsLast
<1> QED
  BY <1>2, <1>3

\* While boot runs no refresh does.
LEMMA QuietRefreshers ==
    ASSUME \A j \in Refresher : job'[j] = Idle,
           up' /\ mode' = "dealer" => \A k \in Suite : slot'[k] # None
    PROVE  RefreshJobs'
<1>1. Idle.op = "idle"
  BY JobRecords
<1> QED
  BY <1>1 DEF RefreshJobs

\* While the process is down no refresh is under way.
LEMMA DownMeansQuiet == ASSUME KeepInv, ~up PROVE \A j \in Refresher : job[j] = Idle
  BY DEF KeepInv, RefreshJobs

\* No job of boot is between two writes unless it is putting.
LEMMA NotCut ==
    ASSUME NEW j \in Job, job[j].op # "put" \/ job[j].next \notin 2 .. N + 3
    PROVE  \A k \in Sealed : ~Cut(j, k)
  BY DEF Cut

\* Boot starts: the sealed single shares of a wire node, or the intent suite alone.
LEMMA StepBoot == ASSUME KeepInv, Boot PROVE KeepInv'
<1> USE DEF Boot
<1>0. /\ slot \in [Suite -> KeySets \cup {None}] /\ disk \in [Sealed -> DiskSet] /\ job \in [Job -> JobSet]
      /\ mode \in Modes /\ up \in BOOLEAN /\ gens \in 0 .. MaxGen /\ MaxGen \in Nat
      /\ torn \subseteq Sealed /\ unread \subseteq Sealed /\ faults \in 0 .. MaxFaults
  BY Typing, ShareKeepingAssumption DEF KeepInv
<1>1. /\ ~up /\ job["boot"] = Idle /\ UNCHANGED <<mode, torn, unread>> /\ faults' \in 0 .. MaxFaults
      /\ \A k \in Suite : slot[k] = None
      /\ \A j \in Refresher : job[j] = Idle
      /\ \A j \in Job : job[j] = Idle
      /\ disk' = disk
  <2>1. \A j \in Refresher : job[j] = Idle
    BY DownMeansQuiet
  <2>2. \A k \in Suite : slot[k] = None
    BY DEF KeepInv, BootJob
  <2>3. faults' \in 0 .. MaxFaults
    BY <1>0, ShareKeepingAssumption DEF BootDealer, BootWire, WireDistributedDkg
  <2> QED
    BY <2>1, <2>2, <2>3 DEF BootDealer, BootWire, WireDistributedDkg, Job
<1>2. \A j \in Job, k \in Sealed : ~Cut(j, k)
  BY <1>1, JobRecords DEF Cut
<1>3. ASSUME NEW g, g = gens + 1, gens < MaxGen PROVE g \in 1 .. MaxGen /\ KeySet(Id, g, g) \in KeySets
  BY <1>0, <1>3, NewKeySet
<1>4. CASE BootDealer
  <2>1. /\ mode = "dealer" /\ up' = up /\ gens' = gens + 1 /\ gens' \in 0 .. MaxGen
        /\ slot'["intent"] \in KeySets /\ \A k \in Sealed : slot'[k] = None
        /\ slot' \in [Suite -> KeySets \cup {None}]
    BY <1>0, <1>1, <1>3, <1>4, Bounds DEF BootDealer, Generate
  <2>2. /\ job'["boot"] \in JobSet /\ job'["boot"].op = "load" /\ job'["boot"].suite = "tr"
        /\ job'["boot"] # Idle
        /\ \A j \in Refresher : job'[j] = Idle
        /\ job' \in [Job -> JobSet]
    <3>1. PICK r : r = [Idle EXCEPT !.op = "load", !.suite = "tr"]
      OBVIOUS
    <3>2. r \in JobSet /\ r.op = "load" /\ r.suite = "tr" /\ r # Idle
      BY <3>1, JobRecords, Bounds
    <3>3. job' = [job EXCEPT !["boot"] = r]
      BY <1>4, <3>1 DEF BootDealer
    <3> QED
      BY <1>0, <1>1, <3>2, <3>3, Bounds
  <2>3. KeepTypeOK'
    BY <1>0, <1>1, <2>1, <2>2, TypingNext
  <2>4. BootJob'
    BY <1>1, <2>1, <2>2, Bounds, NoneAssumption DEF BootJob
  <2>5. RefreshJobs'
    BY <1>1, <2>1, <2>2, QuietRefreshers
  <2>6. InstalledIsSealed'
    BY <2>1 DEF InstalledIsSealed
  <2>7. WritesStand' /\ SealedIsWhole'
    <3>1. \A j \in Job : job'[j] = job[j] \/ job'[j].op # "put"
      BY <1>1, <2>2 DEF Job
    <3> QED
      BY <1>1, <1>2, <3>1, NothingWritten
  <2>8. ThresholdIsLast'
    BY <1>1, <2>2, NothingOverwritten
  <2> QED
    BY <2>3, <2>4, <2>5, <2>6, <2>7, <2>8 DEF KeepInv
<1>5. CASE WireDistributedDkg \/ \E lost \in SUBSET Sealed : BootWire(lost)
  <2>1. job' = job /\ up' = TRUE /\ mode # "dealer"
    BY <1>5 DEF BootWire, WireDistributedDkg
  <2>2. gens' \in 0 .. MaxGen
    BY <1>0, <1>3, <1>5 DEF BootWire, WireDistributedDkg
  <2>3. /\ slot' \in [Suite -> KeySets \cup {None}]
        /\ \A k \in Sealed : slot'[k] # None => LoadsTr(disk[k]) /\ slot'[k] = LoadTrShares(disk[k])
    <3>1. CASE \E lost \in SUBSET Sealed : BootWire(lost)
      <4>1. \A k \in Sealed : LoadsTr(disk[k]) => LoadTrShares(disk[k]) \in KeySets
        BY <1>0, Loaded
      <4> QED
        BY <3>1, <4>1, Bounds DEF BootWire, Loads, LoadsTrChannels
    <3>2. CASE WireDistributedDkg
      <4>1. slot'["intent"] \in KeySets /\ \A k \in Sealed : slot'[k] = None
        BY <1>0, <1>1, <1>3, <3>2, Bounds DEF WireDistributedDkg, RunInProcess
      <4>2. slot' \in [Suite -> KeySets \cup {None}]
        BY <1>0, <1>3, <3>2, Bounds DEF WireDistributedDkg, RunInProcess
      <4> QED
        BY <4>1, <4>2
    <3> QED
      BY <1>5, <3>1, <3>2
  <2>4. KeepTypeOK'
    BY <1>0, <1>1, <2>1, <2>2, <2>3, TypingNext
  <2>5. BootJob'
    BY <1>1, <2>1, JobRecords DEF BootJob
  <2>6. RefreshJobs'
    BY <1>1, <2>1, QuietRefreshers
  <2>7. InstalledIsSealed'
    <3> SUFFICES ASSUME NEW k \in Sealed, slot'[k] # None
                 PROVE  /\ LoadsTr(disk[k]) /\ disk[k].pub.vk = slot'[k].pub.vk
                        /\ disk[k].roster = DOMAIN slot'[k].kp
                        /\ k \notin torn => Uniform(slot'[k])
      BY <1>1 DEF InstalledIsSealed, Loads, LoadsTrChannels
    <3>1. LoadsTr(disk[k]) /\ slot'[k] = LoadTrShares(disk[k]) /\ disk[k] \in DiskSet
      BY <1>0, <2>3
    <3>2. DOMAIN slot'[k].kp = disk[k].roster /\ slot'[k].pub = disk[k].pub
      BY <3>1, Loaded
    <3>3. k \notin torn => Uniform(slot'[k])
      BY <1>2, <3>1 DEF KeepInv, SealedIsWhole, Loads, LoadsTrChannels
    <3> QED
      BY <3>1, <3>2, <3>3
  <2>8. WritesStand' /\ SealedIsWhole'
    BY <1>1, <2>1, NothingWritten
  <2>9. ThresholdIsLast'
    BY <1>1, <2>1, NothingOverwritten
  <2> QED
    BY <2>4, <2>5, <2>6, <2>7, <2>8, <2>9 DEF KeepInv
<1> QED
  BY <1>4, <1>5

\* Installing a suite at boot: the key set that is sealed.
LEMMA StepInstall ==
    ASSUME KeepInv, NEW k \in Sealed, NEW new \in KeySets,
           job["boot"].op \in {"load", "put"}, job["boot"].suite = k,
           \A i \in Sealed : ~Cut("boot", i),
           Install(k, new), UNCHANGED <<mode, disk, gens, torn, unread, faults>>,
           LoadsTr(disk[k]), disk[k].pub.vk = new.pub.vk, disk[k].roster = DOMAIN new.kp,
           k \notin torn => Uniform(new)
    PROVE  KeepInv'
<1>0. /\ slot \in [Suite -> KeySets \cup {None}] /\ disk \in [Sealed -> DiskSet] /\ job \in [Job -> JobSet]
      /\ mode \in Modes /\ up \in BOOLEAN /\ gens \in 0 .. MaxGen
      /\ torn \subseteq Sealed /\ unread \subseteq Sealed /\ faults \in 0 .. MaxFaults
  BY Typing DEF KeepInv
<1>1. job["boot"] # Idle
  BY JobRecords
<1>2. /\ ~up /\ mode = "dealer" /\ slot["intent"] # None /\ slot["channels"] = None
      /\ k = "tr" <=> slot["tr"] = None
  BY <1>1 DEF KeepInv, BootJob
<1>3. \A j \in Refresher : job[j] = Idle
  BY <1>2, DownMeansQuiet
<1>4. /\ slot' \in [Suite -> KeySets \cup {None}]
      /\ slot'[k] = new /\ \A i \in Suite \ {k} : slot'[i] = slot[i]
      /\ new # None
  BY <1>0, Bounds, KeySetElim DEF Install
<1>5. up' \in BOOLEAN /\ (up' <=> k = "channels")
  BY DEF Install
<1>6. /\ job' \in [Job -> JobSet]
      /\ \A j \in Refresher : job'[j] = Idle
      /\ k = "channels" => job'["boot"] = Idle
      /\ k = "tr" => job'["boot"] # Idle /\ job'["boot"].op = "load" /\ job'["boot"].suite = "channels"
      /\ job'["boot"].op # "put"
  <2>1. PICK r : r = [Idle EXCEPT !.op = "load", !.suite = "channels"]
    OBVIOUS
  <2>2. r \in JobSet /\ r.op = "load" /\ r.suite = "channels" /\ r # Idle
    BY <2>1, JobRecords, Bounds
  <2>3. job' = [job EXCEPT !["boot"] = IF k = "channels" THEN Idle ELSE r]
    BY <2>1 DEF Install
  <2>4. "tr" # "channels"
    OBVIOUS
  <2> QED
    BY <1>0, <1>3, <2>2, <2>3, <2>4, Bounds, JobRecords
<1>7. k = "tr" \/ k = "channels"
  BY DEF Sealed
<1>8. KeepTypeOK'
  BY <1>0, <1>4, <1>5, <1>6, TypingNext
<1>9. BootJob'
  <2>1. CASE k = "channels"
    BY <1>5, <1>6, <2>1, JobRecords DEF BootJob
  <2>2. CASE k = "tr"
    <3>1. slot'["tr"] # None /\ slot'["intent"] # None /\ slot'["channels"] = None
      BY <1>2, <1>4, <2>2, Bounds
    <3> QED
      BY <1>2, <1>5, <1>6, <2>2, <3>1, Bounds DEF BootJob
  <2> QED
    BY <1>7, <2>1, <2>2
<1>10. RefreshJobs'
  <2>1. up' => \A i \in Suite : slot'[i] # None
    BY <1>2, <1>4, <1>5 DEF Suite, Sealed
  <2> QED
    BY <1>6, <2>1, QuietRefreshers
<1>11. InstalledIsSealed'
  <2> SUFFICES ASSUME NEW i \in Sealed, slot'[i] # None
               PROVE  /\ LoadsTr(disk[i]) /\ disk[i].pub.vk = slot'[i].pub.vk
                      /\ disk[i].roster = DOMAIN slot'[i].kp
                      /\ i \notin torn => Uniform(slot'[i])
    BY DEF InstalledIsSealed, Loads, LoadsTrChannels
  <2>1. CASE i = k
    BY <1>4, <2>1
  <2>2. CASE i # k
    BY <1>4, <2>2, Bounds DEF KeepInv, InstalledIsSealed, Loads, LoadsTrChannels
  <2> QED
    BY <2>1, <2>2
<1>12. WritesStand' /\ SealedIsWhole'
  <2>1. \A j \in Job : job'[j] = job[j] \/ (j = "boot" /\ job'[j].op # "put")
    BY <1>3, <1>6 DEF Job
  <2> QED
    BY <2>1, NothingWritten
<1>13. ThresholdIsLast'
  BY <1>6, NothingOverwritten
<1> QED
  BY <1>8, <1>9, <1>10, <1>11, <1>12, <1>13 DEF KeepInv

\* Boot installs what it loaded.
LEMMA StepBootLoad == ASSUME KeepInv, BootLoad PROVE KeepInv'
<1>1. PICK k : k = job["boot"].suite
  OBVIOUS
<1>2. /\ job["boot"].op = "load" /\ LoadsTr(disk[k]) /\ Install(k, LoadTrShares(disk[k]))
      /\ UNCHANGED <<mode, disk, gens, torn, unread, faults>>
  BY <1>1 DEF BootLoad, Loads, LoadsTrChannels
<1>3. job["boot"] # Idle
  BY <1>2, JobRecords
<1>4. k \in Sealed /\ ~up
  BY <1>1, <1>3 DEF KeepInv, BootJob
<1>5. disk[k] \in DiskSet
  BY <1>4, Typing DEF KeepInv
<1>6. PICK new : new = LoadTrShares(disk[k])
  OBVIOUS
<1>7. new \in KeySets /\ DOMAIN new.kp = disk[k].roster /\ new.pub = disk[k].pub
  BY <1>2, <1>5, <1>6, Loaded
<1>8. \A j \in Job : ~Cut(j, k)
  <2>1. \A j \in Refresher : job[j].op = "idle"
    BY <1>4, DownMeansQuiet, JobRecords
  <2> QED
    BY <1>2, <2>1 DEF Cut, Job
<1>9. k \notin torn => Uniform(new)
  BY <1>2, <1>4, <1>6, <1>8 DEF KeepInv, SealedIsWhole, Loads, LoadsTrChannels
<1>10. \A i \in Sealed : ~Cut("boot", i)
  BY <1>2, Bounds, NotCut
<1> QED
  BY <1>1, <1>2, <1>4, <1>6, <1>7, <1>9, <1>10, StepInstall

\* Boot installs the fresh key it sealed.
LEMMA StepBootInstall == ASSUME KeepInv, BootInstall PROVE KeepInv'
<1>1. PICK k, new : k = job["boot"].suite /\ new = job["boot"].new
  OBVIOUS
<1>2. /\ job["boot"].op = "put" /\ job["boot"].next \notin Pieces /\ Install(k, new)
      /\ UNCHANGED <<mode, disk, gens, torn, unread, faults>>
  BY <1>1 DEF BootInstall
<1>3. job["boot"] # Idle
  BY <1>2, JobRecords
<1>4. k \in Sealed /\ ~up /\ new # None /\ DOMAIN new.kp = Id /\ Uniform(new)
  BY <1>1, <1>2, <1>3 DEF KeepInv, BootJob
<1>5. disk[k] \in DiskSet /\ job["boot"] \in JobSet
  BY <1>4, Bounds, Typing DEF KeepInv
<1>6. new \in KeySets /\ job["boot"].next = N + 4
  BY <1>1, <1>2, <1>4, <1>5, Bounds DEF JobSet, Pieces
<1>7. Written("boot")
  BY <1>2, Bounds DEF KeepInv, WritesStand
<1>8. /\ \A i \in Id : disk[k].kp[i] = new.kp[i]
      /\ disk[k].pub = new.pub /\ disk[k].roster = DOMAIN new.kp /\ disk[k].min = T
  BY <1>1, <1>4, <1>6, <1>7, Bounds DEF Written, Id
<1>9. LoadsTr(disk[k])
  <2>1. \A i \in Id : new.kp[i] \in Token
    BY <1>4, <1>6, KeySetElim
  <2>2. 1 \in Id /\ T # 0
    BY Bounds DEF Id
  <2> QED
    BY <1>4, <1>6, <1>8, <2>1, <2>2, KeySetElim, NoneAssumption DEF LoadsTr
<1>10. \A i \in Sealed : ~Cut("boot", i)
  BY <1>6, Bounds, NotCut
<1> QED
  BY <1>1, <1>2, <1>4, <1>6, <1>8, <1>9, <1>10, StepInstall

\* A fresh key for a suite: nothing is sealed there, or the read failed.
LEMMA StepDeal ==
    ASSUME KeepInv, NEW k \in Sealed, job["boot"].op = "load", job["boot"].suite = k, Deal(k),
           unread' \in SUBSET Sealed, unread \subseteq unread', faults' \in 0 .. MaxFaults,
           k \in unread' \/ ~LoadsTr(disk[k])
    PROVE  KeepInv'
<1> USE DEF Deal
<1>0. /\ slot \in [Suite -> KeySets \cup {None}] /\ disk \in [Sealed -> DiskSet] /\ job \in [Job -> JobSet]
      /\ mode \in Modes /\ up \in BOOLEAN /\ gens \in 0 .. MaxGen /\ MaxGen \in Nat
      /\ torn \subseteq Sealed
  BY Typing, ShareKeepingAssumption DEF KeepInv
<1>1. job["boot"] # Idle
  BY JobRecords
<1>2. /\ ~up /\ mode = "dealer" /\ slot["intent"] # None /\ slot["channels"] = None
      /\ k = "tr" <=> slot["tr"] = None
  BY <1>1 DEF KeepInv, BootJob
<1>3. PICK g : g = gens + 1
  OBVIOUS
<1>4. gens' = g /\ g \in 1 .. MaxGen /\ UNCHANGED <<mode, up, slot, disk, torn>>
  BY <1>0, <1>3
<1>5. PICK new : new = GenerateTrDealer(g)
  OBVIOUS
<1>6. new \in KeySets /\ DOMAIN new.kp = Id /\ Uniform(new) /\ new # None
  BY <1>4, <1>5, NewKeySet, KeySetElim DEF GenerateTrDealer
<1>7. PICK r : r = [op |-> "put", suite |-> k, new |-> new, next |-> 1]
  OBVIOUS
<1>8. r \in JobSet /\ r # Idle /\ r.op = "put" /\ r.suite = k /\ r.new = new /\ r.next = 1
  <2>1. r.op = "put" /\ r.suite = k /\ r.new = new /\ r.next = 1
    BY <1>7
  <2>2. r \in JobSet
    BY <1>6, <1>7, Bounds DEF JobSet
  <2> QED
    BY <2>1, <2>2, JobRecords
<1>9. job' = [job EXCEPT !["boot"] = r]
  BY <1>3, <1>5, <1>7
<1>10. \A j \in Refresher : job[j] = Idle
  BY <1>2, DownMeansQuiet
<1> HIDE DEF Deal
<1>11. /\ job' \in [Job -> JobSet] /\ job'["boot"] = r
       /\ \A j \in Refresher : job'[j] = Idle
       /\ \A j \in Job : job'[j] = job[j] \/ j = "boot"
  <2>1. \A j \in Refresher : j # "boot" /\ j \in Job
    BY Bounds
  <2> QED
    BY <1>0, <1>8, <1>9, <1>10, <2>1, Bounds
<1>12. KeepTypeOK'
  BY <1>0, <1>4, <1>11, TypingNext
<1>13. BootJob'
  BY <1>2, <1>4, <1>6, <1>8, <1>11 DEF BootJob
<1>14. RefreshJobs'
  BY <1>2, <1>4, <1>11, QuietRefreshers
<1>15. InstalledIsSealed'
  BY <1>4 DEF KeepInv, InstalledIsSealed, Loads, LoadsTrChannels
<1>16. WritesStand' /\ SealedIsWhole'
  <2>1. \A i \in Sealed : ~Cut("boot", i)
    BY Bounds, NotCut
  <2> QED
    BY <1>4, <1>6, <1>8, <1>11, <2>1, NothingWritten
<1>17. ThresholdIsLast'
  <2>1. k \notin unread' => disk[k].min = 0
    BY DEF KeepInv, ThresholdIsLast, Loads, LoadsTrChannels
  <2> QED
    BY <1>4, <1>8, <1>11, <2>1, NothingOverwritten
<1> QED
  BY <1>12, <1>13, <1>14, <1>15, <1>16, <1>17 DEF KeepInv

\* Boot deals a fresh key, over a store it could not load.
LEMMA StepBootDeal == ASSUME KeepInv, BootDeal \/ BootReadFails PROVE KeepInv'
<1>1. PICK k : k = job["boot"].suite
  OBVIOUS
<1>2. /\ job["boot"].op = "load" /\ Deal(k)
      /\ \/ ~LoadsTr(disk[k]) /\ unread' = unread /\ faults' = faults
         \/ unread' = unread \cup {k} /\ faults' = faults + 1 /\ faults < MaxFaults
  BY <1>1 DEF BootDeal, BootReadFails, Loads, LoadsTrChannels
<1>3. job["boot"] # Idle
  BY <1>2, JobRecords
<1>4. k \in Sealed
  BY <1>1, <1>3 DEF KeepInv, BootJob
<1>5. unread \subseteq Sealed /\ faults \in 0 .. MaxFaults /\ MaxFaults \in Nat
  BY Typing, ShareKeepingAssumption DEF KeepInv
<1>6. unread' \in SUBSET Sealed /\ unread \subseteq unread' /\ faults' \in 0 .. MaxFaults
  BY <1>2, <1>4, <1>5
<1> QED
  BY <1>1, <1>2, <1>4, <1>6, StepDeal

\* A step of refresh j that writes nothing: its job changes, and perhaps the
\* installed shares, not their group key.
LEMMA StepRefresh ==
    ASSUME KeepInv, NEW j \in Refresher, NEW r \in JobSet, job' = [job EXCEPT ![j] = r],
           up, mode = "dealer", UNCHANGED <<mode, up, disk, torn, unread, faults>>, gens' \in 0 .. MaxGen,
           slot' \in [Suite -> KeySets \cup {None}], \A k \in Suite : slot'[k] # None,
           \A k \in Sealed : /\ slot'[k].pub.vk = slot[k].pub.vk
                             /\ DOMAIN slot'[k].kp = DOMAIN slot[k].kp
                             /\ k \notin torn => Uniform(slot'[k]),
           \A k \in Sealed : ~Cut(j, k),
           \/ r = Idle
           \/ r.op = "intent" /\ r.new # None
           \/ r.op = "snap" /\ r.suite \in Sealed
           \/ /\ r.op = "put" /\ r.suite \in Sealed /\ r.next = 1 /\ r.new \in KeySets
              /\ r.new.pub.vk = slot[r.suite].pub.vk
              /\ DOMAIN r.new.kp = DOMAIN slot[r.suite].kp
              /\ r.suite \notin torn => Uniform(r.new)
    PROVE  KeepInv'
<1>0. /\ slot \in [Suite -> KeySets \cup {None}] /\ disk \in [Sealed -> DiskSet] /\ job \in [Job -> JobSet]
      /\ mode \in Modes /\ up \in BOOLEAN
      /\ torn \subseteq Sealed /\ unread \subseteq Sealed /\ faults \in 0 .. MaxFaults
  BY Typing DEF KeepInv
<1>1. j \in Job /\ j # "boot"
  BY Bounds
<1>2. job' \in [Job -> JobSet] /\ job'[j] = r /\ \A i \in Job \ {j} : job'[i] = job[i]
  BY <1>0, <1>1
<1>3. job'["boot"] = job["boot"]
  BY <1>1, <1>2, Bounds
<1>4. KeepTypeOK'
  BY <1>0, <1>2, TypingNext
<1>5. BootJob'
  <2>1. job'["boot"] = Idle
    BY <1>3 DEF KeepInv, BootJob
  <2> QED
    BY <2>1, JobRecords DEF BootJob
<1>6. RefreshJobs'
  <2> SUFFICES ASSUME NEW i \in Refresher
               PROVE  /\ job'[i] # Idle => job'[i].op \in {"intent", "snap", "put"}
                      /\ job'[i].op = "intent" => job'[i].new # None
                      /\ job'[i].op \in {"snap", "put"} => job'[i].suite \in Sealed
                      /\ job'[i].op = "put" =>
                            /\ job'[i].new # None
                            /\ job'[i].new.pub.vk = slot[job'[i].suite].pub.vk
                            /\ DOMAIN job'[i].new.kp = DOMAIN slot[job'[i].suite].kp
                            /\ job'[i].suite \notin torn => Uniform(job'[i].new)
    BY DEF RefreshJobs
  <2>1. CASE i = j
    <3>1. Idle.op = "idle" /\ job'[i] = r
      BY <1>2, <2>1, JobRecords
    <3>2. r.new \in KeySets => r.new # None
      BY KeySetElim
    <3> QED
      BY <3>1, <3>2
  <2>2. CASE i # j
    <3>1. job'[i] = job[i]
      BY <1>2, <2>2, Bounds
    <3> QED
      BY <3>1 DEF KeepInv, RefreshJobs
  <2> QED
    BY <2>1, <2>2
<1>7. InstalledIsSealed'
  <2> SUFFICES ASSUME NEW k \in Sealed
               PROVE  /\ LoadsTr(disk[k]) /\ disk[k].pub.vk = slot'[k].pub.vk
                      /\ disk[k].roster = DOMAIN slot'[k].kp
                      /\ k \notin torn => Uniform(slot'[k])
    BY DEF InstalledIsSealed, Loads, LoadsTrChannels
  <2>1. slot[k] # None
    BY Bounds DEF KeepInv, RefreshJobs
  <2>2. LoadsTr(disk[k]) /\ disk[k].pub.vk = slot[k].pub.vk /\ disk[k].roster = DOMAIN slot[k].kp
    BY <2>1 DEF KeepInv, InstalledIsSealed, Loads, LoadsTrChannels
  <2> QED
    BY <2>2
<1>8. WritesStand' /\ SealedIsWhole'
  <2>1. r.op # "put" \/ (r.next = 1 /\ r.new \in KeySets)
    BY JobRecords
  <2>2. \A i \in Job : job'[i] = job[i] \/ job'[i].op # "put" \/ (job'[i].next = 1 /\ job'[i].new \in KeySets)
    BY <1>2, <2>1
  <2>3. \A i \in Job, k \in Sealed : Cut(i, k) => job'[i] = job[i]
    BY <1>2
  <2> QED
    BY <2>2, <2>3, NothingWritten
<1>9. ThresholdIsLast'
  BY <1>3, NothingOverwritten
<1> QED
  BY <1>4, <1>5, <1>6, <1>7, <1>8, <1>9 DEF KeepInv

\* The installed suites of a node that refreshes.
LEMMA DealerInstalled ==
    ASSUME KeepInv, up, mode = "dealer"
    PROVE  /\ \A k \in Suite : slot[k] # None /\ slot[k] \in KeySets
           /\ \A k \in Sealed \ torn : Uniform(slot[k])
<1>1. slot \in [Suite -> KeySets \cup {None}]
  BY Typing DEF KeepInv
<1>2. \A k \in Suite : slot[k] # None
  BY DEF KeepInv, RefreshJobs
<1>3. \A k \in Sealed \ torn : Uniform(slot[k])
  BY <1>2, Bounds DEF KeepInv, InstalledIsSealed
<1> QED
  BY <1>1, <1>2, <1>3

\* A refresh starts on a booted dealer node.
LEMMA StepRunReshare == ASSUME KeepInv, NEW j \in Refresher, RunReshare(j) PROVE KeepInv'
<1>1. /\ up /\ mode = "dealer" /\ job[j] = Idle
      /\ UNCHANGED <<mode, up, slot, disk, gens, torn, unread, faults>>
  BY DEF RunReshare
<1>2. PICK r : r = [Idle EXCEPT !.op = "intent", !.new = slot["intent"]]
  OBVIOUS
<1>3. slot["intent"] \in KeySets
  BY <1>1, DealerInstalled, Bounds
<1>4. r \in JobSet /\ r.op = "intent" /\ r.new = slot["intent"] /\ r.new # None
  BY <1>2, <1>3, JobRecords, KeySetElim
<1>5. job' = [job EXCEPT ![j] = r]
  BY <1>2 DEF RunReshare
<1>6. \A k \in Sealed : ~Cut(j, k)
  BY <1>1, JobRecords, Bounds, NotCut
<1>7. /\ \A k \in Suite : slot'[k] # None
      /\ \A k \in Sealed : k \notin torn => Uniform(slot'[k])
  BY <1>1, DealerInstalled
<1>8. gens' \in 0 .. MaxGen /\ slot' \in [Suite -> KeySets \cup {None}]
  BY <1>1, Typing DEF KeepInv
<1> QED
  BY <1>1, <1>4, <1>5, <1>6, <1>7, <1>8, StepRefresh

\* The intent suite is refreshed in memory.
LEMMA StepRefreshIntent == ASSUME KeepInv, NEW j \in Refresher, RefreshIntent(j) PROVE KeepInv'
<1>0. /\ slot \in [Suite -> KeySets \cup {None}] /\ job \in [Job -> JobSet] /\ j \in Job
      /\ gens \in 0 .. MaxGen /\ MaxGen \in Nat
  BY Typing, Bounds, ShareKeepingAssumption DEF KeepInv
<1>1. /\ job[j].op = "intent" /\ gens < MaxGen /\ gens' = gens + 1
      /\ UNCHANGED <<mode, up, disk, torn, unread, faults>>
  BY DEF RefreshIntent
<1>2. job[j] # Idle
  BY <1>1, JobRecords
<1>3. up /\ mode = "dealer" /\ job[j].new # None
  BY <1>1, <1>2 DEF KeepInv, RefreshJobs
<1>4. job[j].new \in KeySets
  BY <1>0, <1>3 DEF JobSet
<1>5. PICK g : g = gens + 1
  OBVIOUS
<1>6. g \in 1 .. MaxGen /\ gens' \in 0 .. MaxGen
  BY <1>0, <1>1, <1>5
<1>7. PICK new : new = RefreshShares(job[j].new, g)
  OBVIOUS
<1>8. new \in KeySets /\ new # None
  BY <1>4, <1>6, <1>7, Refreshed, KeySetElim DEF RefreshShares
<1>9. slot' = [slot EXCEPT !["intent"] = new]
  BY <1>5, <1>7 DEF RefreshIntent
<1>10. slot' \in [Suite -> KeySets \cup {None}] /\ slot'["intent"] = new /\ \A k \in Sealed : slot'[k] = slot[k]
  BY <1>0, <1>8, <1>9, Bounds
<1>11. PICK r : r = [Idle EXCEPT !.op = "snap", !.suite = "tr"]
  OBVIOUS
<1>12. r \in JobSet /\ r.op = "snap" /\ r.suite = "tr"
  BY <1>11, JobRecords, Bounds
<1>13. job' = [job EXCEPT ![j] = r]
  BY <1>11 DEF RefreshIntent
<1>14. \A k \in Sealed : ~Cut(j, k)
  BY <1>0, <1>1, NotCut
<1>15. /\ \A k \in Suite : slot[k] # None
       /\ \A k \in Sealed \ torn : Uniform(slot[k])
  BY <1>3, DealerInstalled
<1>16. \A k \in Suite : slot'[k] # None
  BY <1>8, <1>10, <1>15 DEF Suite
<1>17. r.suite \in Sealed
  BY <1>12, Bounds
<1>18. \A k \in Sealed : /\ slot'[k].pub.vk = slot[k].pub.vk
                         /\ DOMAIN slot'[k].kp = DOMAIN slot[k].kp
                         /\ k \notin torn => Uniform(slot'[k])
  BY <1>10, <1>15
<1> QED
  BY <1>1, <1>3, <1>6, <1>10, <1>12, <1>13, <1>14, <1>16, <1>17, <1>18, StepRefresh

\* A refresh computes the new shares of a suite from the installed ones.
LEMMA StepSnapshot == ASSUME KeepInv, NEW j \in Refresher, Snapshot(j) PROVE KeepInv'
<1>0. /\ slot \in [Suite -> KeySets \cup {None}] /\ job \in [Job -> JobSet] /\ j \in Job
      /\ gens \in 0 .. MaxGen /\ MaxGen \in Nat
  BY Typing, Bounds, ShareKeepingAssumption DEF KeepInv
<1>1. PICK k : k = job[j].suite
  OBVIOUS
<1>2. job[j].op = "snap" /\ UNCHANGED <<mode, up, slot, disk, torn, unread, faults>>
  BY DEF Snapshot
<1>3. job[j] # Idle
  BY <1>2, JobRecords
<1>4. up /\ mode = "dealer" /\ k \in Sealed
  BY <1>1, <1>2, <1>3 DEF KeepInv, RefreshJobs
<1>5. /\ \A i \in Suite : slot[i] # None /\ slot[i] \in KeySets
      /\ \A i \in Sealed \ torn : Uniform(slot[i])
  BY <1>4, DealerInstalled
<1>6. \A i \in Sealed : ~Cut(j, i)
  BY <1>0, <1>2, NotCut
<1>7. ASSUME gens < MaxGen, gens' = gens + 1,
             job' = [job EXCEPT ![j] = [op |-> "put", suite |-> k,
                                        new |-> RefreshTrShares(slot[k], gens + 1), next |-> 1]]
      PROVE  KeepInv'
  <2>1. PICK g : g = gens + 1
    OBVIOUS
  <2>2. g \in 1 .. MaxGen /\ gens' \in 0 .. MaxGen
    BY <1>0, <1>7, <2>1
  <2>3. PICK new : new = RefreshTrShares(slot[k], g)
    OBVIOUS
  <2>4. slot[k] \in KeySets /\ k \in Suite
    BY <1>4, <1>5, Bounds
  <2>5. /\ new \in KeySets /\ DOMAIN new.kp = DOMAIN slot[k].kp /\ new.pub.vk = slot[k].pub.vk
        /\ Uniform(slot[k]) => Uniform(new)
    BY <2>2, <2>3, <2>4, Refreshed
  <2>6. PICK r : r = [op |-> "put", suite |-> k, new |-> new, next |-> 1]
    OBVIOUS
  <2>7. r \in JobSet /\ r.op = "put" /\ r.suite = k /\ r.new = new /\ r.next = 1
    BY <2>4, <2>5, <2>6, Bounds DEF JobSet
  <2>8. job' = [job EXCEPT ![j] = r]
    BY <1>7, <2>1, <2>3, <2>6
  <2>9. r.suite \notin torn => Uniform(r.new)
    BY <1>4, <1>5, <2>5, <2>7
  <2> HIDE <1>7
  <2> QED
    BY <1>0, <1>2, <1>4, <1>5, <1>6, <2>2, <2>5, <2>7, <2>8, <2>9, StepRefresh
<1>8. ASSUME gens' = gens, job' = [job EXCEPT ![j] = Idle] PROVE KeepInv'
  <2>1. Idle \in JobSet
    BY JobRecords
  <2> QED
    BY <1>0, <1>2, <1>4, <1>5, <1>6, <1>8, <2>1, StepRefresh
<1> QED
  BY <1>1, <1>7, <1>8 DEF Snapshot

\* A refresh installs what it sealed.
LEMMA StepRefreshTaproot ==
    ASSUME KeepInv, NEW j \in Refresher, RefreshTaproot(j) \/ RefreshChannelsTaproot(j)
    PROVE  KeepInv'
<1>0. /\ slot \in [Suite -> KeySets \cup {None}] /\ job \in [Job -> JobSet] /\ j \in Job
      /\ gens \in 0 .. MaxGen
  BY Typing, Bounds DEF KeepInv
<1>1. PICK k, new : k = job[j].suite /\ new = job[j].new
  OBVIOUS
<1>2. /\ job[j].op = "put" /\ job[j].next \notin Pieces
      /\ slot' = [slot EXCEPT ![k] = new]
      /\ UNCHANGED <<mode, up, disk, gens, torn, unread, faults>>
  BY <1>1 DEF RefreshTaproot, RefreshChannelsTaproot
<1>3. job[j] # Idle
  BY <1>2, JobRecords
<1>4. /\ up /\ mode = "dealer" /\ k \in Sealed /\ new # None
      /\ new.pub.vk = slot[k].pub.vk /\ DOMAIN new.kp = DOMAIN slot[k].kp
      /\ k \notin torn => Uniform(new)
  BY <1>1, <1>2, <1>3 DEF KeepInv, RefreshJobs
<1>5. new \in KeySets
  BY <1>0, <1>1, <1>4 DEF JobSet
<1>6. /\ \A i \in Suite : slot[i] # None /\ slot[i] \in KeySets
      /\ \A i \in Sealed \ torn : Uniform(slot[i])
  BY <1>4, DealerInstalled
<1>7. /\ slot' \in [Suite -> KeySets \cup {None}]
      /\ slot'[k] = new /\ \A i \in Suite \ {k} : slot'[i] = slot[i]
  BY <1>0, <1>2, <1>4, <1>5, Bounds
<1>8. \A i \in Suite : slot'[i] # None
  BY <1>4, <1>6, <1>7
<1>9. \A i \in Sealed : /\ slot'[i].pub.vk = slot[i].pub.vk
                        /\ DOMAIN slot'[i].kp = DOMAIN slot[i].kp
                        /\ i \notin torn => Uniform(slot'[i])
  BY <1>4, <1>6, <1>7, Bounds
<1>10. PICK r \in JobSet : /\ job' = [job EXCEPT ![j] = r]
                           /\ r = Idle \/ (r.op = "snap" /\ r.suite \in Sealed)
  <2>1. CASE RefreshTaproot(j)
    <3>1. PICK r : r = [Idle EXCEPT !.op = "snap", !.suite = "channels"]
      OBVIOUS
    <3>2. r \in JobSet /\ r.op = "snap" /\ r.suite \in Sealed
      BY <3>1, JobRecords, Bounds
    <3>3. job' = [job EXCEPT ![j] = r]
      BY <2>1, <3>1 DEF RefreshTaproot
    <3> QED
      BY <3>2, <3>3
  <2>2. CASE RefreshChannelsTaproot(j)
    BY <2>2, JobRecords DEF RefreshChannelsTaproot
  <2> QED
    BY <2>1, <2>2
<1>11. \A i \in Sealed : ~Cut(j, i)
  <2>1. job[j].next \notin 2 .. N + 3
    BY <1>2, Bounds DEF Pieces
  <2> QED
    BY <1>0, <2>1, NotCut
<1>12. gens' \in 0 .. MaxGen
  BY <1>0, <1>2
<1> QED
  BY <1>2, <1>4, <1>7, <1>8, <1>9, <1>10, <1>11, <1>12, StepRefresh

\* What one put_share finds and leaves.
LEMMA PutFacts ==
    ASSUME KeepInv, NEW j \in Job, PutShare(j)
    PROVE  LET k == job[j].suite
               new == job[j].new
               p == job[j].next IN
           /\ job[j].op = "put" /\ k \in Sealed /\ new \in KeySets /\ p \in Pieces
           /\ disk' \in [Sealed -> DiskSet] /\ disk'[k] = PutPiece(disk[k], new, p)
           /\ \A i \in Sealed \ {k} : disk'[i] = disk[i]
           /\ job' \in [Job -> JobSet] /\ \A i \in Job \ {j} : job'[i] = job[i]
           /\ job'[j].op = "put" /\ job'[j].suite = k /\ job'[j].new = new /\ job'[j].next = p + 1
           /\ torn' = IF Overlaps(j, k) THEN torn \cup {k} ELSE torn
           /\ UNCHANGED <<mode, up, slot, gens, unread, faults>>
<1>0. disk \in [Sealed -> DiskSet] /\ job \in [Job -> JobSet]
  BY Typing DEF KeepInv
<1>1. PICK k, new, p : k = job[j].suite /\ new = job[j].new /\ p = job[j].next
  OBVIOUS
<1>2. job[j].op = "put" /\ p \in Pieces
  BY <1>1 DEF PutShare
<1>3. job[j] # Idle
  BY <1>2, JobRecords
<1>4. k \in Sealed /\ new # None
  BY <1>1, <1>2, <1>3 DEF KeepInv, BootJob, RefreshJobs, Job
<1>5. new \in KeySets
  BY <1>0, <1>1, <1>4 DEF JobSet
<1>6. disk' = [disk EXCEPT ![k] = PutPiece(disk[k], new, p)]
  BY <1>0, <1>1, <1>4 DEF PutShare, Put, PutChannelsPiece
<1>7. PutPiece(disk[k], new, p) \in DiskSet
  BY <1>0, <1>2, <1>4, <1>5, PieceWritten
<1>8. disk' \in [Sealed -> DiskSet] /\ disk'[k] = PutPiece(disk[k], new, p) /\ \A i \in Sealed \ {k} : disk'[i] = disk[i]
  BY <1>0, <1>4, <1>6, <1>7
<1>9. p + 1 \in 1 .. N + 4
  BY <1>2, Bounds DEF Pieces
<1>10. PICK r : r = [job[j] EXCEPT !.next = p + 1]
  OBVIOUS
<1>11. r \in JobSet /\ r.op = job[j].op /\ r.suite = k /\ r.new = new /\ r.next = p + 1
  BY <1>0, <1>1, <1>9, <1>10 DEF JobSet
<1>12. job' = [job EXCEPT ![j] = r]
  BY <1>1, <1>10 DEF PutShare
<1>13. job' \in [Job -> JobSet] /\ job'[j] = r /\ \A i \in Job \ {j} : job'[i] = job[i]
  BY <1>0, <1>11, <1>12
<1>14. /\ torn' = IF Overlaps(j, k) THEN torn \cup {k} ELSE torn
       /\ UNCHANGED <<mode, up, slot, gens, unread, faults>>
  BY <1>1 DEF PutShare
<1> QED
  BY <1>1, <1>2, <1>4, <1>5, <1>8, <1>11, <1>13, <1>14

\* One write: the pieces before it stand, and so does a key that is whole already.
LEMMA StepPutShare == ASSUME KeepInv, NEW j \in Job, PutShare(j) PROVE KeepInv'
<1>0. /\ slot \in [Suite -> KeySets \cup {None}] /\ disk \in [Sealed -> DiskSet] /\ job \in [Job -> JobSet]
      /\ mode \in Modes /\ up \in BOOLEAN /\ gens \in 0 .. MaxGen
      /\ torn \subseteq Sealed /\ unread \subseteq Sealed /\ faults \in 0 .. MaxFaults
  BY Typing DEF KeepInv
<1>1. PICK k, new, p : k = job[j].suite /\ new = job[j].new /\ p = job[j].next
  OBVIOUS
<1>2. /\ job[j].op = "put" /\ k \in Sealed /\ new \in KeySets /\ p \in Pieces
      /\ disk' \in [Sealed -> DiskSet] /\ disk'[k] = PutPiece(disk[k], new, p)
      /\ \A i \in Sealed \ {k} : disk'[i] = disk[i]
      /\ job' \in [Job -> JobSet] /\ \A i \in Job \ {j} : job'[i] = job[i]
      /\ job'[j].op = "put" /\ job'[j].suite = k /\ job'[j].new = new /\ job'[j].next = p + 1
      /\ torn' = IF Overlaps(j, k) THEN torn \cup {k} ELSE torn
      /\ UNCHANGED <<mode, up, slot, gens, unread, faults>>
  BY <1>1, PutFacts
<1>3. PICK d, e : d = disk[k] /\ e = disk'[k]
  OBVIOUS
<1>4. d \in DiskSet /\ e \in DiskSet
  BY <1>0, <1>2, <1>3
<1>5. /\ \A i \in Id : e.kp[i] = IF i = p /\ i \in DOMAIN new.kp THEN new.kp[i] ELSE d.kp[i]
      /\ e.pub = IF p = N + 1 THEN new.pub ELSE d.pub
      /\ e.roster = IF p = N + 2 THEN DOMAIN new.kp ELSE d.roster
      /\ e.min = IF p = N + 3 THEN T ELSE d.min
  BY <1>2, <1>3, <1>4, PieceWritten
<1>6. /\ DOMAIN new.kp \in SUBSET Id /\ \A i \in DOMAIN new.kp : new.kp[i] \in Token /\ new.kp[i] # None
      /\ new.pub # None /\ new # None
  BY <1>2, KeySetElim, NoneAssumption
<1>7. /\ p \in Nat /\ p >= 1 /\ p <= N + 3
      /\ \A i \in Id : i \in Nat /\ i >= 1 /\ i <= N
  BY <1>2, Bounds DEF Pieces, Id
<1>8. job[j] # Idle /\ job'[j] # Idle
  BY <1>2, JobRecords
<1>9. torn \subseteq torn' /\ torn' \subseteq Sealed /\ \A i \in Sealed \ {k} : i \in torn' <=> i \in torn
  BY <1>0, <1>2
<1>10. k \notin torn' => k \notin torn /\ \A i \in Job \ {j} : ~Cut(i, k)
  BY <1>2 DEF Overlaps
<1>11. j = "boot" => /\ ~up /\ slot[k] = None /\ DOMAIN new.kp = Id /\ Uniform(new)
                     /\ \A i \in Refresher : job[i] = Idle
  <2> SUFFICES ASSUME j = "boot" PROVE /\ ~up /\ slot[k] = None /\ DOMAIN new.kp = Id /\ Uniform(new)
                                       /\ \A i \in Refresher : job[i] = Idle
    OBVIOUS
  <2>1. ~up /\ (k = "tr" \/ k = "channels")
    BY <1>2, <1>8 DEF KeepInv, BootJob, Sealed
  <2>2. slot[k] = None /\ DOMAIN new.kp = Id /\ Uniform(new)
    BY <1>1, <1>2, <1>8, <2>1 DEF KeepInv, BootJob
  <2> QED
    BY <2>1, <2>2, DownMeansQuiet
<1>12. j # "boot" => /\ j \in Refresher /\ up /\ mode = "dealer" /\ slot[k] # None
                     /\ new.pub.vk = slot[k].pub.vk /\ DOMAIN new.kp = DOMAIN slot[k].kp
                     /\ k \notin torn => Uniform(new)
                     /\ job["boot"] = Idle
  <2> SUFFICES ASSUME j # "boot"
               PROVE  /\ j \in Refresher /\ up /\ mode = "dealer" /\ slot[k] # None
                      /\ new.pub.vk = slot[k].pub.vk /\ DOMAIN new.kp = DOMAIN slot[k].kp
                      /\ k \notin torn => Uniform(new)
                      /\ job["boot"] = Idle
    OBVIOUS
  <2>1. j \in Refresher
    BY DEF Job
  <2>2. /\ up /\ mode = "dealer" /\ new.pub.vk = slot[k].pub.vk /\ DOMAIN new.kp = DOMAIN slot[k].kp
        /\ k \notin torn => Uniform(new)
    BY <1>1, <1>2, <1>8, <2>1 DEF KeepInv, RefreshJobs
  <2>3. slot[k] # None /\ job["boot"] = Idle
    BY <1>2, <2>2, Bounds DEF KeepInv, RefreshJobs, BootJob
  <2> QED
    BY <2>1, <2>2, <2>3
<1>13. KeepTypeOK'
  BY <1>0, <1>2, <1>9, TypingNext
<1>14. BootJob'
  <2>1. CASE j = "boot"
    <3>1. slot' = slot /\ mode' = mode /\ up' = up /\ ~up
      BY <1>2, <1>11, <2>1
    <3>2. /\ mode = "dealer" /\ slot["intent"] # None /\ slot["channels"] = None
          /\ k = "tr" <=> slot["tr"] = None
      BY <1>1, <1>8, <2>1 DEF KeepInv, BootJob
    <3> QED
      BY <1>2, <1>6, <1>8, <1>11, <2>1, <3>1, <3>2 DEF BootJob
  <2>2. CASE j # "boot"
    <3>1. job'["boot"] = Idle /\ up' = up /\ up
      BY <1>2, <1>12, <2>2, Bounds
    <3> QED
      BY <3>1, JobRecords DEF BootJob
  <2> QED
    BY <2>1, <2>2
<1>15. RefreshJobs'
  <2> SUFFICES ASSUME NEW i \in Refresher
               PROVE  /\ job'[i] # Idle => up /\ mode = "dealer" /\ job'[i].op \in {"intent", "snap", "put"}
                      /\ job'[i].op = "intent" => job'[i].new # None
                      /\ job'[i].op \in {"snap", "put"} => job'[i].suite \in Sealed
                      /\ job'[i].op = "put" =>
                            /\ job'[i].new # None
                            /\ job'[i].new.pub.vk = slot[job'[i].suite].pub.vk
                            /\ DOMAIN job'[i].new.kp = DOMAIN slot[job'[i].suite].kp
                            /\ job'[i].suite \notin torn' => Uniform(job'[i].new)
    <3>1. up /\ mode = "dealer" => \A i \in Suite : slot[i] # None
      BY DEF KeepInv, RefreshJobs
    <3> QED
      BY <1>2, <3>1 DEF RefreshJobs
  <2>1. CASE i = j
    <3>1. j # "boot"
      BY <2>1, Bounds
    <3> QED
      BY <1>2, <1>6, <1>9, <1>12, <2>1, <3>1
  <2>2. CASE i # j
    <3>1. job'[i] = job[i]
      BY <1>2, <2>2, Bounds
    <3> QED
      BY <1>9, <3>1 DEF KeepInv, RefreshJobs
  <2> QED
    BY <2>1, <2>2
<1>16. ASSUME slot[k] # None
       PROVE  /\ LoadsTr(e) /\ e.pub.vk = slot[k].pub.vk /\ e.roster = DOMAIN slot[k].kp
              /\ k \notin torn => Uniform(slot[k])
  <2>1. j # "boot"
    BY <1>11, <1>16
  <2>2. /\ LoadsTr(d) /\ d.pub.vk = slot[k].pub.vk /\ d.roster = DOMAIN slot[k].kp
        /\ k \notin torn => Uniform(slot[k])
    BY <1>2, <1>3, <1>16 DEF KeepInv, InstalledIsSealed, Loads, LoadsTrChannels
  <2>3. e.roster = d.roster /\ e.pub.vk = slot[k].pub.vk /\ e.pub # None
    BY <1>5, <1>6, <1>12, <2>1, <2>2 DEF LoadsTr
  <2>4. e.min # 0
    BY <1>5, <2>2, Bounds DEF LoadsTr
  <2>5. \A i \in d.roster : e.kp[i] # None
    BY <1>4, <1>5, <1>6, <2>2 DEF LoadsTr, DiskSet
  <2> QED
    BY <2>2, <2>3, <2>4, <2>5 DEF LoadsTr
<1>17. InstalledIsSealed'
  <2> SUFFICES ASSUME NEW i \in Sealed, slot[i] # None
               PROVE  /\ LoadsTr(disk'[i]) /\ disk'[i].pub.vk = slot[i].pub.vk
                      /\ disk'[i].roster = DOMAIN slot[i].kp
                      /\ i \notin torn' => Uniform(slot[i])
    BY <1>2 DEF InstalledIsSealed, Loads, LoadsTrChannels
  <2>1. CASE i = k
    BY <1>3, <1>9, <1>16, <2>1
  <2>2. CASE i # k
    BY <1>2, <1>9, <2>2 DEF KeepInv, InstalledIsSealed, Loads, LoadsTrChannels
  <2> QED
    BY <2>1, <2>2
\* What the job wrote so far, before this piece and with it.
<1>18. ASSUME j = "boot" \/ k \notin torn
       PROVE  /\ \A i \in DOMAIN new.kp : i < p + 1 => e.kp[i] = new.kp[i]
              /\ N + 1 < p + 1 => e.pub = new.pub
              /\ N + 2 < p + 1 => e.roster = DOMAIN new.kp
              /\ N + 3 < p + 1 => e.min = T
  <2>1. Written(j)
    BY <1>1, <1>2, <1>18 DEF KeepInv, WritesStand
  <2>2. /\ \A i \in DOMAIN new.kp : i < p => d.kp[i] = new.kp[i]
        /\ N + 1 < p => d.pub = new.pub
        /\ N + 2 < p => d.roster = DOMAIN new.kp
        /\ N + 3 < p => d.min = T
    BY <1>1, <1>3, <2>1 DEF Written
  <2>3. ASSUME NEW i \in DOMAIN new.kp, i < p + 1 PROVE e.kp[i] = new.kp[i]
    <3>1. i \in Id /\ (i = p \/ i < p)
      BY <1>6, <1>7, <2>3
    <3> QED
      BY <1>5, <2>2, <3>1
  <2>4. /\ N + 1 < p + 1 => e.pub = new.pub
        /\ N + 2 < p + 1 => e.roster = DOMAIN new.kp
        /\ N + 3 < p + 1 => e.min = T
    BY <1>5, <1>7, <2>2, Bounds
  <2> QED
    BY <2>3, <2>4
<1>19. WritesStand'
  <2>1. ASSUME NEW i \in Job, job'[i].op = "put",
               i = "boot" \/ (job'[i].suite \notin torn' /\ job'[i].next \in Pieces)
        PROVE  Written(i)'
    <3>1. CASE i = j
      <4>1. j = "boot" \/ k \notin torn
        BY <1>2, <1>9, <2>1, <3>1
      <4> QED
        BY <1>2, <1>3, <1>18, <3>1, <4>1 DEF Written
    <3>2. CASE i # j /\ job[i].suite # k
      <4>1. job'[i] = job[i]
        BY <1>2, <3>2
      <4>2. job[i] # Idle
        BY <2>1, <4>1, JobRecords
      <4>3. job[i].suite \in Sealed
        BY <2>1, <4>1, <4>2 DEF KeepInv, BootJob, RefreshJobs, Job
      <4>4. disk'[job[i].suite] = disk[job[i].suite]
        BY <1>2, <3>2, <4>3
      <4>5. Written(i)
        BY <1>9, <2>1, <4>1 DEF KeepInv, WritesStand
      <4> QED
        BY <4>1, <4>4, <4>5 DEF Written
    <3>3. CASE i # j /\ job[i].suite = k
      <4>1. job'[i] = job[i] /\ job[i] # Idle
        <5>1. job'[i] = job[i]
          BY <1>2, <3>3
        <5>2. Idle.op = "idle"
          BY JobRecords
        <5> QED
          BY <2>1, <5>1, <5>2
      <4>2. i # "boot"
        BY <1>12, <3>3, <4>1
      <4>3. k \notin torn' /\ job[i].next \in Pieces
        BY <2>1, <3>3, <4>1, <4>2
      <4>4. job[i].next = 1
        BY <1>10, <2>1, <3>3, <4>1, <4>3, Bounds DEF Cut, Pieces
      <4>5. i \in Refresher
        BY <4>2 DEF Job
      <4>6. job[i].new \in KeySets
        BY <1>0, <2>1, <4>1, <4>5 DEF KeepInv, RefreshJobs, JobSet
      <4>7. \A x \in DOMAIN job[i].new.kp : x \in Nat /\ ~ (x < 1)
        BY <1>7, <4>6, KeySetElim
      <4> QED
        BY <4>1, <4>4, <4>7, Bounds DEF Written
    <3> QED
      BY <3>1, <3>2, <3>3
  <2>2. ASSUME NEW s \in Sealed \ torn', NEW a \in Job, NEW b \in Job, Cut(a, s)', Cut(b, s)' PROVE a = b
    <3>1. CASE s = k
      <4>1. \A i \in Job \ {j} : ~Cut(i, k)'
        BY <1>2, <1>10, <2>2, <3>1 DEF Cut
      <4> QED
        BY <2>2, <3>1, <4>1
    <3>2. CASE s # k
      <4>1. \A i \in Job : Cut(i, s)' => Cut(i, s)
        BY <1>2, <3>2 DEF Cut
      <4> QED
        BY <1>9, <2>2, <4>1 DEF KeepInv, WritesStand
    <3> QED
      BY <3>1, <3>2
  <2> QED
    BY <2>1, <2>2 DEF WritesStand
<1>20. SealedIsWhole'
  <2> SUFFICES ASSUME NEW i \in Sealed \ torn', \A x \in Job : ~Cut(x, i)', LoadsTr(disk'[i])
               PROVE  Uniform(LoadTrShares(disk'[i]))
    BY DEF SealedIsWhole, Loads, LoadsTrChannels
  <2>1. CASE i # k
    <3>1. \A x \in Job : Cut(x, i) => Cut(x, i)'
      BY <1>1, <1>2, <2>1 DEF Cut
    <3> QED
      BY <1>2, <1>9, <2>1, <3>1 DEF KeepInv, SealedIsWhole, Loads, LoadsTrChannels
  <2>2. CASE i = k
    <3>1. ~Cut(j, k)'
      BY <2>2
    <3>2. p = N + 3
      BY <1>2, <1>7, <3>1, Bounds DEF Cut
    <3>3. k \notin torn
      BY <1>9, <2>2
    <3>4. /\ \A x \in DOMAIN new.kp : e.kp[x] = new.kp[x]
          /\ e.pub = new.pub /\ e.roster = DOMAIN new.kp
      BY <1>6, <1>7, <1>18, <3>2, <3>3, Bounds
    <3>5. Uniform(new)
      BY <1>11, <1>12, <3>3
    <3>6. Uniform(LoadTrShares(e))
      BY <3>4, <3>5 DEF Uniform, LoadTrShares
    <3> QED
      BY <1>3, <2>2, <3>6
  <2> QED
    BY <2>1, <2>2
<1>21. ThresholdIsLast'
  <2> SUFFICES ASSUME NEW i \in Sealed \ unread
               PROVE  /\ disk'[i].min # 0 => LoadsTr(disk'[i])
                      /\ job'["boot"].op = "put" /\ job'["boot"].suite = i /\ job'["boot"].next \in Pieces
                            => disk'[i].min = 0
    BY <1>2 DEF ThresholdIsLast, Loads, LoadsTrChannels
  <2>1. CASE i # k
    <3>1. disk'[i] = disk[i]
      BY <1>2, <2>1
    <3>2. job'["boot"].suite = i => job'["boot"] = job["boot"]
      BY <1>2, <2>1, Bounds
    <3> QED
      BY <3>1, <3>2 DEF KeepInv, ThresholdIsLast, Loads, LoadsTrChannels
  <2>2. CASE i = k /\ j # "boot"
    <3>1. LoadsTr(e)
      BY <1>12, <1>16, <2>2
    <3>2. job'["boot"] = Idle
      BY <1>2, <1>12, <2>2, Bounds
    <3> QED
      BY <1>3, <2>2, <3>1, <3>2, JobRecords
  <2>3. CASE i = k /\ j = "boot"
    <3>1. d.min = 0
      BY <1>1, <1>2, <1>3, <2>3 DEF KeepInv, ThresholdIsLast
    <3>2. CASE p # N + 3
      BY <1>3, <1>5, <2>3, <3>1, <3>2
    <3>3. CASE p = N + 3
      <4>1. /\ \A x \in DOMAIN new.kp : e.kp[x] = new.kp[x]
            /\ e.pub = new.pub /\ e.roster = DOMAIN new.kp /\ e.min = T
        BY <1>6, <1>7, <1>18, <2>3, <3>3, Bounds
      <4>2. 1 \in DOMAIN new.kp
        BY <1>11, <2>3, Bounds DEF Id
      <4>3. LoadsTr(e)
        <5>1. e.roster # {} /\ e.min # 0 /\ e.pub # None
          BY <1>6, <4>1, <4>2, Bounds
        <5>2. \A x \in e.roster : e.kp[x] # None
          BY <1>6, <4>1
        <5> QED
          BY <5>1, <5>2 DEF LoadsTr
      <4>4. job'["boot"].next \notin Pieces
        BY <1>2, <2>3, <3>3, Bounds DEF Pieces
      <4> QED
        BY <1>3, <2>3, <4>3, <4>4
    <3> QED
      BY <3>2, <3>3
  <2> QED
    BY <2>1, <2>2, <2>3
<1> QED
  BY <1>13, <1>14, <1>15, <1>17, <1>19, <1>20, <1>21 DEF KeepInv

\* A job ends with an error, or the process stops: a suite whose write is cut is torn.
LEMMA StepFaults == ASSUME KeepInv, Crash \/ (\E j \in Job : JobFails(j)) PROVE KeepInv'
<1>0. /\ slot \in [Suite -> KeySets \cup {None}] /\ disk \in [Sealed -> DiskSet] /\ job \in [Job -> JobSet]
      /\ mode \in Modes /\ up \in BOOLEAN /\ gens \in 0 .. MaxGen /\ MaxFaults \in Nat
      /\ torn \subseteq Sealed /\ unread \subseteq Sealed /\ faults \in 0 .. MaxFaults
  BY Typing, ShareKeepingAssumption DEF KeepInv
<1>1. /\ UNCHANGED <<disk, gens, unread>> /\ faults' = faults + 1 /\ faults < MaxFaults
      /\ torn \subseteq torn' /\ torn' \subseteq Sealed
      /\ mode' \in Modes /\ up' \in BOOLEAN
      /\ \A j \in Job : job'[j] = job[j] \/ job'[j] = Idle
      /\ \A j \in Job, k \in Sealed : Cut(j, k) /\ job'[j] # job[j] => k \in torn'
  BY <1>0 DEF Crash, JobFails
<1>2. job' \in [Job -> JobSet]
  <2>1. Idle \in JobSet
    BY JobRecords
  <2> QED
    BY <1>0, <2>1 DEF Crash, JobFails
<1>3. faults' \in 0 .. MaxFaults
  BY <1>0, <1>1
<1>4. WritesStand' /\ SealedIsWhole'
  <2>1. \A j \in Job : job'[j] = job[j] \/ job'[j].op # "put"
    BY <1>1, JobRecords
  <2> QED
    BY <1>1, <2>1, NothingWritten
<1>5. ThresholdIsLast'
  <2>1. job'["boot"] = job["boot"] \/ job'["boot"].op # "put"
    BY <1>1, Bounds, JobRecords
  <2> QED
    BY <1>1, <2>1, NothingOverwritten
<1>6. CASE \/ Crash
           \/ JobFails("boot")
  <2>1. /\ ~up' /\ \A k \in Suite : slot'[k] = None
        /\ slot' \in [Suite -> KeySets \cup {None}]
        /\ \A j \in Job : job'[j] = Idle
    <3>1. CASE Crash
      BY <3>1 DEF Crash
    <3>2. CASE JobFails("boot")
      <4>1. job["boot"] # Idle
        BY <3>2 DEF JobFails
      <4>2. ~up
        BY <4>1 DEF KeepInv, BootJob
      <4>3. \A j \in Refresher : job[j] = Idle
        BY <4>2, DownMeansQuiet
      <4>4. job' = [job EXCEPT !["boot"] = Idle] /\ up' = up /\ slot' = [k \in Suite |-> None]
        BY <3>2 DEF JobFails
      <4> QED
        BY <1>0, <4>2, <4>3, <4>4 DEF Job
    <3> QED
      BY <1>6, <3>1, <3>2
  <2>2. job'["boot"] = Idle /\ \A j \in Refresher : job'[j] = Idle
    BY <2>1, Bounds
  <2>3. BootJob'
    BY <2>1, <2>2, JobRecords DEF BootJob
  <2>4. RefreshJobs'
    BY <2>1, <2>2, QuietRefreshers
  <2>5. InstalledIsSealed'
    BY <2>1, Bounds DEF InstalledIsSealed
  <2>6. KeepTypeOK'
    BY <1>0, <1>1, <1>2, <1>3, <2>1, TypingNext
  <2> QED
    BY <1>4, <1>5, <2>3, <2>4, <2>5, <2>6 DEF KeepInv
<1>7. ASSUME NEW j \in Refresher, JobFails(j) PROVE KeepInv'
  <2>1. j \in Job /\ j # "boot"
    BY Bounds
  <2>2. UNCHANGED <<mode, up, slot>> /\ job' = [job EXCEPT ![j] = Idle]
    BY <1>7, <2>1 DEF JobFails
  <2>3. job'[j] = Idle /\ \A i \in Job \ {j} : job'[i] = job[i]
    BY <1>0, <2>1, <2>2
  <2>4. job'["boot"] = job["boot"]
    BY <2>1, <2>3, Bounds
  <2>5. BootJob'
    BY <2>2, <2>4 DEF KeepInv, BootJob
  <2>6. RefreshJobs'
    <3>1. Idle.op = "idle" /\ \A i \in Refresher : job'[i] = job[i] \/ job'[i] = Idle
      BY <1>1, Bounds, JobRecords
    <3>2. up /\ mode = "dealer" => \A k \in Suite : slot[k] # None
      BY DEF KeepInv, RefreshJobs
    <3> SUFFICES ASSUME NEW i \in Refresher
                 PROVE  /\ job'[i] # Idle => up /\ mode = "dealer" /\ job'[i].op \in {"intent", "snap", "put"}
                        /\ job'[i].op = "intent" => job'[i].new # None
                        /\ job'[i].op \in {"snap", "put"} => job'[i].suite \in Sealed
                        /\ job'[i].op = "put" =>
                              /\ job'[i].new # None
                              /\ job'[i].new.pub.vk = slot[job'[i].suite].pub.vk
                              /\ DOMAIN job'[i].new.kp = DOMAIN slot[job'[i].suite].kp
                              /\ job'[i].suite \notin torn' => Uniform(job'[i].new)
      BY <2>2, <3>2 DEF RefreshJobs
    <3>3. CASE job'[i] = Idle
      BY <3>1, <3>3
    <3>4. CASE job'[i] = job[i]
      BY <1>1, <3>4 DEF KeepInv, RefreshJobs
    <3> QED
      BY <3>1, <3>3, <3>4
  <2>7. InstalledIsSealed'
    BY <1>1, <2>2 DEF KeepInv, InstalledIsSealed, Loads, LoadsTrChannels
  <2>8. KeepTypeOK'
    BY <1>0, <1>1, <1>2, <1>3, <2>2, TypingNext
  <2> QED
    BY <1>4, <1>5, <2>5, <2>6, <2>7, <2>8 DEF KeepInv
<1> QED
  BY <1>6, <1>7 DEF Job

\* Every step of the key material keeps its invariant.
LEMMA KeepStep == ASSUME KeepInv, KeepNext PROVE KeepInv'
<1>1. ASSUME NEW j \in Refresher, RunReshare(j) PROVE KeepInv'
  BY <1>1, StepRunReshare
<1> QED
  BY <1>1, StepBoot, StepBootLoad, StepBootDeal, StepBootInstall, StepFaults, StepPutShare,
     StepRefreshIntent, StepSnapshot, StepRefreshTaproot DEF KeepNext

\* Every initial store satisfies it.
LEMMA KeepInitial == KeepInit => KeepInv
<1> SUFFICES ASSUME KeepInit PROVE KeepInv
  OBVIOUS
<1> USE DEF KeepInit
<1>0. 1 \in 1 .. MaxGen /\ 2 \in 1 .. MaxGen /\ 2 \in 0 .. MaxGen /\ MaxFaults \in Nat
  BY ShareKeepingAssumption
<1>1. [vk |-> 1, gen |-> {1}] \in Token /\ [vk |-> 2, gen |-> {2}] \in Token
  BY <1>0 DEF Token
<1>2. \A j \in Job : job[j] = Idle
  OBVIOUS
<1>3. \A k \in Sealed : \/ disk[k] = Blank
                        \/ disk[k] = SingleShare
                        \/ disk[k] = DealtBefore(1)
                        \/ disk[k] = DealtBefore(2)
  BY DEF Sealed
<1>4. Blank \in DiskSet /\ Blank.min = 0 /\ ~LoadsTr(Blank)
  BY DEF Blank, DiskSet, LoadsTr
<1>5. SingleShare \in DiskSet /\ LoadsTr(SingleShare) /\ Uniform(LoadTrShares(SingleShare))
  <2>1. 1 \in Id /\ T # 0
    BY Bounds DEF Id
  <2>2. SingleShare.kp \in [Id -> Token \cup {None}] /\ SingleShare.kp[1] = [vk |-> 1, gen |-> {1}]
    BY <1>1, <2>1 DEF SingleShare
  <2>3. SingleShare.pub = [vk |-> 1, gen |-> {1}] /\ SingleShare.roster = {1} /\ SingleShare.min = T
    BY DEF SingleShare
  <2>4. SingleShare \in DiskSet
    BY <1>1, <2>1, <2>2 DEF SingleShare, DiskSet
  <2>5. LoadsTr(SingleShare)
    BY <1>1, <2>1, <2>2, <2>3, NoneAssumption DEF LoadsTr
  <2>6. Uniform(LoadTrShares(SingleShare))
    BY <2>2, <2>3 DEF LoadTrShares, Uniform
  <2> QED
    BY <2>4, <2>5, <2>6
<1>6. ASSUME NEW v \in 1 .. 2
      PROVE  DealtBefore(v) \in DiskSet /\ LoadsTr(DealtBefore(v)) /\ Uniform(LoadTrShares(DealtBefore(v)))
  <2>1. 1 \in Id /\ T # 0 /\ [vk |-> v, gen |-> {v}] \in Token
    BY <1>1, <1>6, Bounds DEF Id
  <2>2. DealtBefore(v).kp = [i \in Id |-> [vk |-> v, gen |-> {v}]]
    BY DEF DealtBefore
  <2>3. DealtBefore(v).pub = [vk |-> v, gen |-> {v}] /\ DealtBefore(v).roster = Id /\ DealtBefore(v).min = T
    BY DEF DealtBefore
  <2>4. DealtBefore(v) \in DiskSet
    BY <2>1 DEF DealtBefore, DiskSet
  <2>5. LoadsTr(DealtBefore(v))
    BY <2>1, <2>2, <2>3, NoneAssumption DEF LoadsTr
  <2>6. Uniform(LoadTrShares(DealtBefore(v)))
    BY <2>2, <2>3 DEF LoadTrShares, Uniform
  <2> QED
    BY <2>4, <2>5, <2>6
<1>7. \A k \in Sealed : /\ disk[k] \in DiskSet
                        /\ LoadsTr(disk[k]) => Uniform(LoadTrShares(disk[k]))
                        /\ disk[k].min # 0 => LoadsTr(disk[k])
  BY <1>3, <1>4, <1>5, <1>6
<1>8. KeepTypeOK
  <2>1. disk \in [Sealed -> DiskSet]
    BY <1>7
  <2>2. Idle \in JobSet
    BY JobRecords
  <2>3. job \in [Job -> JobSet] /\ slot \in [Suite -> KeySets \cup {None}]
    BY <2>2
  <2>4. /\ mode \in Modes /\ up \in BOOLEAN /\ gens \in 0 .. MaxGen
        /\ torn \subseteq Sealed /\ unread \subseteq Sealed /\ faults \in 0 .. MaxFaults
    <3>1. torn = {} /\ unread = {} /\ faults = 0 /\ gens = 2 /\ up = FALSE /\ mode \in Modes
      BY Zenon
    <3> HIDE DEF KeepInit
    <3>2. up \in BOOLEAN
      BY <3>1, Zenon
    <3>3. 0 \in 0 .. MaxFaults
      BY <1>0
    <3>4. torn \subseteq Sealed /\ unread \subseteq Sealed
      BY <3>1
    <3> QED
      BY <1>0, <3>1, <3>2, <3>3, <3>4
  <2> HIDE DEF KeepInit
  <2> QED
    BY <2>1, <2>3, <2>4, Typing
<1>9. BootJob
  BY <1>2, Bounds, JobRecords DEF BootJob
<1>10. RefreshJobs
  BY <1>2, Bounds, JobRecords DEF RefreshJobs
<1>11. InstalledIsSealed
  BY Bounds DEF InstalledIsSealed
<1>12. WritesStand /\ SealedIsWhole
  BY <1>2, <1>7, JobRecords DEF WritesStand, SealedIsWhole, Cut, Loads, LoadsTrChannels
<1>13. ThresholdIsLast
  BY <1>2, <1>7, Bounds, JobRecords DEF ThresholdIsLast, Loads, LoadsTrChannels
<1> QED
  BY <1>8, <1>9, <1>10, <1>11, <1>12, <1>13 DEF KeepInv

\* While the process runs, an installed suite keeps its group key.
LEMMA SlotsStay ==
    ASSUME KeepInv, KeepNext, up, up'
    PROVE  \A k \in Sealed : slot[k] # None => slot'[k] # None /\ slot'[k].pub.vk = slot[k].pub.vk
<1>0. slot \in [Suite -> KeySets \cup {None}] /\ job["boot"] = Idle /\ Idle.op = "idle"
  BY Typing, JobRecords DEF KeepInv, BootJob
<1>1. CASE slot' = slot
  BY <1>1
<1>2. ASSUME NEW j \in Refresher, RefreshIntent(j) PROVE \A k \in Sealed : slot'[k] = slot[k]
  BY <1>0, <1>2, Bounds DEF RefreshIntent
<1>3. ASSUME NEW j \in Refresher, RefreshTaproot(j) \/ RefreshChannelsTaproot(j)
      PROVE  \A k \in Sealed : slot[k] # None => slot'[k] # None /\ slot'[k].pub.vk = slot[k].pub.vk
  <2>1. PICK s, new : s = job[j].suite /\ new = job[j].new
    OBVIOUS
  <2>2. job[j].op = "put" /\ slot' = [slot EXCEPT ![s] = new]
    BY <1>3, <2>1 DEF RefreshTaproot, RefreshChannelsTaproot
  <2>3. s \in Sealed /\ new # None /\ new.pub.vk = slot[s].pub.vk
    BY <2>1, <2>2 DEF KeepInv, RefreshJobs
  <2> QED
    BY <1>0, <2>2, <2>3, Bounds
<1>4. ASSUME NEW j \in Job, PutShare(j) \/ JobFails(j) PROVE slot' = slot
  BY <1>0, <1>4 DEF PutShare, JobFails
<1>5. ASSUME NEW j \in Refresher, RunReshare(j) \/ Snapshot(j) PROVE slot' = slot
  BY <1>5 DEF RunReshare, Snapshot
<1>6. ~ (Boot \/ BootLoad \/ BootDeal \/ BootReadFails \/ BootInstall \/ Crash)
  BY <1>0 DEF Boot, BootLoad, BootDeal, BootReadFails, BootInstall, Crash
<1> QED
  BY <1>1, <1>2, <1>3, <1>4, <1>5, <1>6 DEF KeepNext

\* A sealed group key stays, unless a boot could not read it.
LEMMA SealedKeyStays ==
    ASSUME KeepInv, KeepInv', KeepNext, NEW k \in Sealed, Loads(k), k \notin unread'
    PROVE  Loads(k)' /\ disk'[k].pub.vk = disk[k].pub.vk
<1>1. CASE disk' = disk
  BY <1>1 DEF Loads, LoadsTrChannels
<1>2. ASSUME NEW j \in Job, PutShare(j) PROVE Loads(k)' /\ disk'[k].pub.vk = disk[k].pub.vk
  <2>1. PICK s : s = job[j].suite
    OBVIOUS
  <2>2. /\ job[j].op = "put" /\ s \in Sealed /\ job[j].next \in Pieces
        /\ \A i \in Sealed \ {s} : disk'[i] = disk[i]
        /\ slot' = slot /\ unread' = unread
    BY <1>2, <2>1, PutFacts
  <2>3. CASE s # k
    BY <2>2, <2>3 DEF Loads, LoadsTrChannels
  <2>4. CASE s = k /\ j = "boot"
    <3>1. disk[k].min = 0
      BY <2>1, <2>2, <2>4 DEF KeepInv, ThresholdIsLast
    <3> QED
      BY <3>1 DEF Loads, LoadsTrChannels, LoadsTr
  <2>5. CASE s = k /\ j # "boot"
    <3>1. j \in Refresher /\ job[j] # Idle
      BY <2>2, <2>5, JobRecords DEF Job
    <3>2. up /\ mode = "dealer"
      BY <3>1 DEF KeepInv, RefreshJobs
    <3>3. slot[k] # None
      BY <3>2, DealerInstalled, Bounds
    <3>4. disk[k].pub.vk = slot[k].pub.vk
      BY <3>3 DEF KeepInv, InstalledIsSealed
    <3>5. Loads(k)' /\ disk'[k].pub.vk = slot'[k].pub.vk
      BY <2>2, <3>3 DEF KeepInv, InstalledIsSealed
    <3> QED
      BY <2>2, <3>4, <3>5
  <2> QED
    BY <2>3, <2>4, <2>5
<1>3. ASSUME ~ \E j \in Job : PutShare(j) PROVE disk' = disk
  BY <1>3 DEF KeepNext, Boot, BootDealer, BootWire, WireDistributedDkg, BootLoad, BootDeal, BootReadFails,
              BootInstall, Deal, Crash, JobFails, RunReshare, RefreshIntent,
              Snapshot, RefreshTaproot, RefreshChannelsTaproot
<1> QED
  BY <1>1, <1>2, <1>3

\* Untorn shares sign, now and after a restart.
LEMMA KeepImpliesSigning == KeepInv => UnsignableHasCause /\ RestartStillSigns
<1> SUFFICES ASSUME KeepInv PROVE UnsignableHasCause /\ RestartStillSigns
  OBVIOUS
<1>1. UnsignableHasCause
  <2> SUFFICES ASSUME NEW k \in Sealed, slot[k] # None, Cardinality(DOMAIN slot[k].kp) >= T, k \notin torn
               PROVE  Signable(slot[k])
    BY DEF UnsignableHasCause
  <2>1. Uniform(slot[k])
    BY DEF KeepInv, InstalledIsSealed
  <2> QED
    BY <2>1, UniformSigns
<1>2. RestartStillSigns
  <2> SUFFICES ASSUME NEW k \in Sealed, slot[k] # None, k \notin torn, \A j \in Job : ~Cut(j, k)
               PROVE  /\ Loads(k)
                      /\ LoadTrShares(disk[k]).pub.vk = slot[k].pub.vk
                      /\ Signable(slot[k]) => Signable(LoadTrShares(disk[k]))
    BY DEF RestartStillSigns
  <2>1. Loads(k) /\ disk[k].pub.vk = slot[k].pub.vk /\ disk[k].roster = DOMAIN slot[k].kp
    BY DEF KeepInv, InstalledIsSealed
  <2>2. disk[k] \in DiskSet /\ LoadsTr(disk[k])
    BY <2>1, Typing DEF KeepInv, Loads, LoadsTrChannels
  <2>3. PICK l : l = LoadTrShares(disk[k])
    OBVIOUS
  <2>4. DOMAIN l.kp = disk[k].roster /\ l.pub = disk[k].pub
    BY <2>2, <2>3, Loaded
  <2>5. Uniform(l)
    BY <2>1, <2>3 DEF KeepInv, SealedIsWhole
  <2>6. Signable(slot[k]) => Signable(l)
    <3>1. Signable(slot[k]) => Cardinality(DOMAIN l.kp) >= T
      BY <2>1, <2>4 DEF Signable
    <3> QED
      BY <2>5, <3>1, UniformSigns
  <2> QED
    BY <2>1, <2>3, <2>4, <2>6
<1> QED
  BY <1>1, <1>2

----
(***************************************************************************)
(* The steps of the requests.                                              *)
(***************************************************************************)
CallSet == [req : Requests \cup {None}, vk : 0 .. MaxGen, todo : SUBSET Inputs, sigs : SUBSET Sigs]

RequestsTyped ==
    /\ call \in [Call -> CallSet]
    /\ used \subseteq Sessions /\ reserved \subseteq Intents /\ burnt \subseteq Intents
    /\ signed \subseteq [req : Requests, vk : 1 .. MaxGen, sigs : SUBSET Sigs]
    /\ raw \subseteq Intents

\* The type invariant has a part for the keys and one for the requests.
LEMMA TypeParts == TypeOK <=> KeepTypeOK /\ RequestsTyped
  BY DEF TypeOK, RequestsTyped, CallSet

\* A set of numbers has a least one.
LEMMA LeastOf ==
    ASSUME NEW S \in SUBSET Nat, S # {}
    PROVE  \E i \in S : \A j \in S : i <= j
<1>1. PICK i \in S : \A j \in S : ~ (<<j, i>> \in OpToRel(<, Nat))
  BY WFMin, NatLessThanWellFounded, Zenon
<1>2. \A j \in S : ~ (j < i)
  BY <1>1 DEF OpToRel
<1> QED
  BY <1>2

\* Inputs are numbered, and the loop signs inputs of the PSBT.
LEMMA InputsOf ==
    ASSUME NEW r \in Requests
    PROVE  ToSign(r.psbt, "mesh") \in SUBSET Inputs /\ r.intent \in Intents /\ r.session \in Sessions
<1>1. DOMAIN r.psbt.ins \subseteq Inputs
  BY DEF Inputs
<1> QED
  BY <1>1 DEF ToSign, Intents, Sessions

\* Inputs are numbered.
LEMMA InputsAreNumbers == Inputs \subseteq Nat
<1>1. ASSUME NEW r \in Requests PROVE DOMAIN r.psbt.ins \subseteq Nat
  <2>1. PICK S : r.psbt.ins \in Seq(S)
    BY RequestAssumption
  <2>2. DOMAIN r.psbt.ins = 1 .. Len(r.psbt.ins) /\ Len(r.psbt.ins) \in Nat
    BY <2>1
  <2> QED
    BY <2>2
<1> QED
  BY <1>1 DEF Inputs

\* The next input of a request in progress is one of those left.
LEMMA NextInput ==
    ASSUME NEW S \in SUBSET Inputs, S # {}
    PROVE  (CHOOSE i \in S : \A j \in S : i <= j) \in S
  BY LeastOf, InputsAreNumbers

\* A call that is not free names a request; a free one has nothing to do.
LEMMA CallFacts ==
    ASSUME IInv, NEW c \in Call
    PROVE  /\ call[c] \in CallSet
           /\ call[c].todo # {} => Active(c)
           /\ call[c].req # None => Active(c)
           /\ Active(c) => call[c].req \in Requests /\ call[c].vk \in 1 .. MaxGen
<1>1. call[c] \in CallSet
  BY TypeParts DEF IInv, RequestsTyped
<1>2. call[c].todo # {} => Active(c)
  BY DEF Active, NoCall
<1>3. call[c].req # None => Active(c)
  BY DEF Active, NoCall
<1>4. ASSUME Active(c) PROVE call[c].req \in Requests /\ call[c].vk \in 1 .. MaxGen
  <2>1. call[c].req \in Requests /\ call[c].req.bucket \in Sealed
    BY <1>4, RequestAssumption DEF IInv, CallsAreBound
  <2>2. slot[call[c].req.bucket] \in KeySets
    BY <1>4, <2>1, Typing, Bounds DEF IInv, KeepInv, CallsAreBound
  <2>3. slot[call[c].req.bucket].pub \in Token
    BY <2>2, KeySetElim
  <2>4. call[c].vk = slot[call[c].req.bucket].pub.vk
    BY <1>4 DEF IInv, CallsAreBound
  <2> QED
    BY <2>1, <2>3, <2>4 DEF Token
<1> QED
  BY <1>1, <1>2, <1>3, <1>4

\* A step of the key material keeps the requests: a crash drops them with the
\* reservations, anything else leaves the key they took installed.
LEMMA StepKeep ==
    ASSUME IInv, KeepNext,
           \/ ~up' /\ up /\ call' = [c \in Call |-> NoCall] /\ reserved' = {} /\ UNCHANGED <<used, burnt, signed, raw>>
           \/ (up' \/ ~up) /\ UNCHANGED svars
    PROVE  IInv'
<1>1. KeepInv'
  BY KeepStep DEF IInv
<1>2. RequestsTyped /\ CallsAreBound /\ ReservationsHeld /\ SignedIsBurnt /\ OneSignaturePerIntent
  BY TypeParts DEF IInv
<1>3. KeepTypeOK'
  BY <1>1 DEF KeepInv
<1>4. CASE ~up' /\ up /\ call' = [c \in Call |-> NoCall] /\ reserved' = {} /\ UNCHANGED <<used, burnt, signed, raw>>
  <2>1. NoCall \in CallSet
    BY ShareKeepingAssumption DEF NoCall, CallSet
  <2>2. RequestsTyped'
    BY <1>2, <1>4, <2>1 DEF RequestsTyped
  <2>3. \A c \in Call : ~Active(c)'
    BY <1>4 DEF Active
  <2>4. CallsAreBound' /\ ReservationsHeld' /\ SignedIsBurnt' /\ OneSignaturePerIntent'
    BY <1>2, <1>4, <2>3 DEF CallsAreBound, ReservationsHeld, Holds, SignedIsBurnt, OneSignaturePerIntent
  <2>5. TypeOK'
    BY <1>3, <2>2 DEF TypeOK, RequestsTyped, CallSet
  <2> QED
    BY <1>1, <2>4, <2>5 DEF IInv
<1>5. CASE (up' \/ ~up) /\ UNCHANGED svars
  <2>1. call' = call /\ used' = used /\ reserved' = reserved /\ burnt' = burnt /\ signed' = signed /\ raw' = raw
    BY <1>5 DEF svars
  <2>2. TypeOK'
    BY <1>2, <1>3, <2>1 DEF TypeOK, RequestsTyped, CallSet
  <2>3. ReservationsHeld' /\ SignedIsBurnt' /\ OneSignaturePerIntent'
    BY <1>2, <2>1 DEF ReservationsHeld, Holds, Active, SignedIsBurnt, OneSignaturePerIntent
  <2>4. ASSUME NEW c \in Call, Active(c)
        PROVE  up' /\ slot'[call[c].req.bucket] # None /\ slot'[call[c].req.bucket].pub.vk = call[c].vk
    <3>1. up /\ slot[call[c].req.bucket] # None /\ call[c].vk = slot[call[c].req.bucket].pub.vk
          /\ call[c].req \in Requests
      BY <1>2, <2>4 DEF CallsAreBound
    <3>2. call[c].req.bucket \in Sealed
      BY <3>1, RequestAssumption
    <3> QED
      BY <1>5, <3>1, <3>2, SlotsStay DEF IInv
  <2>5. CallsAreBound'
    BY <1>2, <2>1, <2>4 DEF CallsAreBound, Active
  <2> QED
    BY <1>1, <2>2, <2>3, <2>5 DEF IInv
<1> QED
  BY <1>4, <1>5

\* The steps of a request leave the key material alone.
LEMMA KeysStay == ASSUME KeepInv, UNCHANGED kvars PROVE KeepInv' /\ KeepTypeOK'
<1>1. /\ mode' = mode /\ up' = up /\ slot' = slot /\ disk' = disk /\ job' = job
      /\ gens' = gens /\ torn' = torn /\ unread' = unread /\ faults' = faults
  BY DEF kvars
<1>2. \A k : Loads(k)' <=> Loads(k)
  BY <1>1 DEF Loads, LoadsTrChannels
<1>3. \A j, k : Cut(j, k)' <=> Cut(j, k)
  BY <1>1 DEF Cut
<1>4. \A j : Written(j)' <=> Written(j)
  BY <1>1 DEF Written
<1>5. KeepTypeOK'
  BY <1>1 DEF KeepInv, KeepTypeOK
<1>6. BootJob'
  BY <1>1 DEF KeepInv, BootJob
<1>7. RefreshJobs'
  BY <1>1 DEF KeepInv, RefreshJobs
<1>8. InstalledIsSealed'
  BY <1>1, <1>2 DEF KeepInv, InstalledIsSealed
<1>9. WritesStand'
  BY <1>1, <1>3, <1>4 DEF KeepInv, WritesStand
<1>10. SealedIsWhole'
  BY <1>1, <1>2, <1>3 DEF KeepInv, SealedIsWhole
<1>11. ThresholdIsLast'
  BY <1>1, <1>2 DEF KeepInv, ThresholdIsLast
<1> QED
  BY <1>5, <1>6, <1>7, <1>8, <1>9, <1>10, <1>11 DEF KeepInv

\* What the invariant says of the step of one request: the others are as they were,
\* and the tables did not lose what they hold.
LEMMA StepCall ==
    ASSUME IInv, UNCHANGED kvars, NEW c \in Call, NEW m \in CallSet,
           call' = [call EXCEPT ![c] = m],
           m = NoCall \/ (/\ up /\ m.req \in Requests /\ Signs(m.req)
                          /\ slot[m.req.bucket] # None
                          /\ m.vk = slot[m.req.bucket].pub.vk
                          /\ \A s \in m.sigs : s.vk = m.vk)
    PROVE  /\ KeepInv' /\ KeepTypeOK'
           /\ call' \in [Call -> CallSet]
           /\ \A d \in Call : d # c => call'[d] = call[d] /\ (Active(d)' <=> Active(d)) /\ (Holds(d)' <=> Holds(d))
           /\ call'[c] = m /\ (Active(c)' <=> m # NoCall) /\ (Holds(c)' <=> m # NoCall /\ m.req.commit)
           /\ (\A a \in signed' : Signs(a.req) /\ \A s \in a.sigs : s.vk = a.vk) => CallsAreBound'
<1>1. KeepInv' /\ KeepTypeOK'
  BY KeysStay DEF IInv
<1>2. up' = up /\ slot' = slot
  BY DEF kvars
<1>3. call \in [Call -> CallSet]
  BY TypeParts DEF IInv, RequestsTyped
<1>4. call' \in [Call -> CallSet] /\ call'[c] = m /\ \A d \in Call : d # c => call'[d] = call[d]
  BY <1>3
<1>5. \A d \in Call : d # c => (Active(d)' <=> Active(d)) /\ (Holds(d)' <=> Holds(d))
  BY <1>4 DEF Active, Holds
<1>6. (Active(c)' <=> m # NoCall) /\ (Holds(c)' <=> m # NoCall /\ m.req.commit)
  BY <1>4 DEF Active, Holds
<1>7. ASSUME \A a \in signed' : Signs(a.req) /\ \A s \in a.sigs : s.vk = a.vk PROVE CallsAreBound'
  <2>1. ASSUME NEW d \in Call, Active(d)'
        PROVE  /\ up' /\ call'[d].req \in Requests /\ Signs(call'[d].req)
               /\ slot'[call'[d].req.bucket] # None
               /\ call'[d].vk = slot'[call'[d].req.bucket].pub.vk
               /\ \A s \in call'[d].sigs : s.vk = call'[d].vk
    <3>1. CASE d = c
      BY <1>2, <1>4, <1>6, <2>1, <3>1
    <3>2. CASE d # c
      BY <1>2, <1>4, <1>5, <2>1, <3>2 DEF IInv, CallsAreBound
    <3> QED
      BY <3>1, <3>2
  <2> QED
    BY <1>7, <2>1 DEF CallsAreBound
<1> QED
  BY <1>1, <1>4, <1>5, <1>6, <1>7

\* A free call is a call.
LEMMA FreeCall == NoCall \in CallSet
  BY ShareKeepingAssumption DEF NoCall, CallSet

\* A request is admitted with a reservation of its own.
LEMMA StepSignPsbt == ASSUME IInv, NEW c \in Call, NEW r \in Requests, SignPsbt(c, r) PROVE IInv'
<1>1. PICK m : m = [req |-> r, vk |-> slot[r.bucket].pub.vk, todo |-> ToSign(r.psbt, "mesh"), sigs |-> {}]
  OBVIOUS
<1>2. /\ call[c] = NoCall /\ call' = [call EXCEPT ![c] = m] /\ UNCHANGED kvars
      /\ up /\ slot[r.bucket] # None /\ Signs(r)
      /\ used' = used \cup {r.session} /\ burnt' = burnt /\ signed' = signed /\ raw' = raw
  BY <1>1 DEF SignPsbt, Admits, DepositInfo
<1>3. reserved' = IF r.commit THEN reserved \cup {r.intent} ELSE reserved
  BY DEF SignPsbt, Reserve
<1>4. r.commit => r.intent \notin reserved \cup burnt
  BY DEF SignPsbt, Admits
<1>5. slot[r.bucket].pub.vk \in 1 .. MaxGen
  <2>1. slot[r.bucket] \in KeySets
    BY <1>2, RequestAssumption, Typing, Bounds DEF IInv, KeepInv
  <2> QED
    BY <2>1, KeySetElim DEF Token
<1>6. m \in CallSet
  BY <1>1, <1>5, InputsOf DEF CallSet
<1>7. m # NoCall /\ m.req = r /\ m.vk = slot[r.bucket].pub.vk /\ m.sigs = {}
  BY <1>1, RequestAssumption DEF NoCall
<1>8. /\ KeepInv' /\ KeepTypeOK'
      /\ call' \in [Call -> CallSet]
      /\ \A d \in Call : d # c => call'[d] = call[d] /\ (Active(d)' <=> Active(d)) /\ (Holds(d)' <=> Holds(d))
      /\ call'[c] = m /\ (Active(c)' <=> m # NoCall) /\ (Holds(c)' <=> m # NoCall /\ m.req.commit)
      /\ (\A a \in signed' : Signs(a.req) /\ \A s \in a.sigs : s.vk = a.vk) => CallsAreBound'
  BY <1>2, <1>6, <1>7, StepCall
<1>9. CallsAreBound'
  BY <1>2, <1>8 DEF IInv, CallsAreBound
<1>10. TypeOK'
  BY <1>2, <1>3, <1>8, InputsOf DEF IInv, TypeOK, CallSet
<1>11. ReservationsHeld'
  <2>1. \A d \in Call : d # c /\ Holds(d)' => call'[d].req.intent \in reserved /\ call'[d] = call[d]
    BY <1>8 DEF IInv, ReservationsHeld
  <2>2. \A d \in Call : Holds(d)' => call'[d].req.intent \in reserved'
    BY <1>3, <1>7, <1>8, <2>1
  <2>3. \A d \in Call : d # c /\ Holds(c)' /\ Holds(d)' => call'[d].req.intent # call'[c].req.intent
    BY <1>4, <1>7, <1>8, <2>1
  <2>4. \A d, e \in Call : Holds(d)' /\ Holds(e)' /\ call'[d].req.intent = call'[e].req.intent => d = e
    BY <1>8, <2>3 DEF IInv, ReservationsHeld
  <2>5. reserved' \cap burnt' = {}
    BY <1>2, <1>3, <1>4 DEF IInv, ReservationsHeld
  <2> QED
    BY <2>2, <2>4, <2>5 DEF ReservationsHeld
<1>12. SignedIsBurnt' /\ OneSignaturePerIntent'
  BY <1>2 DEF IInv, SignedIsBurnt, OneSignaturePerIntent
<1> QED
  BY <1>8, <1>9, <1>10, <1>11, <1>12 DEF IInv

\* The next input is signed under the key the request took.
LEMMA StepSignRawQuorum == ASSUME IInv, NEW c \in Call, SignRawQuorum(c) PROVE IInv'
<1>1. PICK i, v, n : /\ i = CHOOSE e \in call[c].todo : \A j \in call[c].todo : e <= j
                     /\ v = slot[call[c].req.bucket].pub.vk
                     /\ n = [input |-> i, vk |-> v]
  OBVIOUS
<1>2. call[c].todo # {} /\ UNCHANGED <<kvars, used, reserved, burnt, signed, raw>>
      /\ call' = [call EXCEPT ![c].todo = @ \ {i}, ![c].sigs = @ \cup {n}]
  BY <1>1, Zenon DEF SignRawQuorum
<1>3. /\ call[c] \in CallSet /\ Active(c)
      /\ call[c].req \in Requests /\ call[c].vk \in 1 .. MaxGen
      /\ call \in [Call -> CallSet]
  BY <1>2, CallFacts, TypeParts DEF IInv, RequestsTyped
<1>4. i \in Inputs
  <2>1. call[c].todo \in SUBSET Inputs
    BY <1>3 DEF CallSet
  <2> QED
    BY <1>1, <1>2, <2>1, NextInput
<1>5. up /\ Signs(call[c].req) /\ slot[call[c].req.bucket] # None /\ v = call[c].vk
      /\ \A s \in call[c].sigs : s.vk = call[c].vk
  BY <1>1, <1>3 DEF IInv, CallsAreBound
<1>6. n \in Sigs /\ n.vk = call[c].vk
  BY <1>1, <1>3, <1>4, <1>5 DEF Sigs
<1>7. PICK m : m = [call[c] EXCEPT !.todo = @ \ {i}, !.sigs = @ \cup {n}]
  OBVIOUS
<1>8. call' = [call EXCEPT ![c] = m]
  BY <1>2, <1>3, <1>7 DEF CallSet
<1>9. m \in CallSet /\ m.req = call[c].req /\ m.vk = call[c].vk /\ m.sigs = call[c].sigs \cup {n}
  BY <1>3, <1>6, <1>7 DEF CallSet
<1>10. m # NoCall
  BY <1>3, <1>9, RequestAssumption DEF NoCall
<1>11. \A s \in m.sigs : s.vk = m.vk
  BY <1>5, <1>6, <1>9
<1>12. m.vk = slot[m.req.bucket].pub.vk /\ slot[m.req.bucket] # None /\ Signs(m.req) /\ m.req \in Requests
  BY <1>1, <1>3, <1>5, <1>9
<1>13. /\ KeepInv' /\ KeepTypeOK'
       /\ call' \in [Call -> CallSet]
       /\ \A d \in Call : d # c => call'[d] = call[d] /\ (Active(d)' <=> Active(d)) /\ (Holds(d)' <=> Holds(d))
       /\ call'[c] = m /\ (Active(c)' <=> m # NoCall) /\ (Holds(c)' <=> m # NoCall /\ m.req.commit)
       /\ (\A a \in signed' : Signs(a.req) /\ \A s \in a.sigs : s.vk = a.vk) => CallsAreBound'
  BY <1>2, <1>5, <1>8, <1>9, <1>11, <1>12, StepCall
<1>14. CallsAreBound'
  BY <1>2, <1>13 DEF IInv, CallsAreBound
<1>15. TypeOK'
  BY <1>2, <1>13 DEF IInv, TypeOK, CallSet
<1>16. \A d \in Call : (Holds(d)' <=> Holds(d)) /\ call'[d].req = call[d].req
  BY <1>3, <1>9, <1>10, <1>13 DEF Holds
<1>17. ReservationsHeld' /\ SignedIsBurnt' /\ OneSignaturePerIntent'
  <2>1. reserved' = reserved /\ burnt' = burnt /\ signed' = signed /\ raw' = raw
    BY <1>2
  <2>2. ReservationsHeld'
    BY <1>16, <2>1 DEF IInv, ReservationsHeld
  <2> QED
    BY <2>1, <2>2 DEF IInv, SignedIsBurnt, OneSignaturePerIntent
<1> QED
  BY <1>13, <1>14, <1>15, <1>17 DEF IInv

\* A request that ends without an answer gives its reservation back or leaves it
\* for the ledger; nobody else held it.
LEMMA StepEnd ==
    ASSUME IInv, NEW c \in Call, Active(c), UNCHANGED <<kvars, used, raw>>,
           call' = [call EXCEPT ![c] = NoCall],
           NEW r, r = call[c].req,
           \/ reserved' = reserved /\ burnt' = burnt
           \/ r.commit /\ reserved' = reserved \ {r.intent} /\ (burnt' = burnt \/ burnt' = burnt \cup {r.intent}),
           \/ signed' = signed
           \/ /\ signed' = signed \cup {[req |-> r, vk |-> call[c].vk, sigs |-> call[c].sigs]}
              /\ r.commit => burnt' = burnt \cup {r.intent}
    PROVE  IInv'
<1>1. /\ KeepInv' /\ KeepTypeOK'
      /\ call' \in [Call -> CallSet]
      /\ \A d \in Call : d # c => call'[d] = call[d] /\ (Active(d)' <=> Active(d)) /\ (Holds(d)' <=> Holds(d))
      /\ ~Holds(c)'
      /\ (\A a \in signed' : Signs(a.req) /\ \A s \in a.sigs : s.vk = a.vk) => CallsAreBound'
  BY StepCall, FreeCall
<1>2. PICK n : n = [req |-> r, vk |-> call[c].vk, sigs |-> call[c].sigs]
  OBVIOUS
<1>3. n.req = r /\ n.sigs = call[c].sigs /\ n.vk = call[c].vk /\ signed' \subseteq signed \cup {n}
  BY <1>2
<1>4. Signs(r) /\ (\A s \in n.sigs : s.vk = n.vk) /\ r \in Requests /\ call[c] \in CallSet /\ call[c].vk \in 1 .. MaxGen
  BY <1>3, CallFacts DEF IInv, CallsAreBound
<1>5. CallsAreBound'
  BY <1>1, <1>3, <1>4 DEF IInv, CallsAreBound
<1>6. n \in [req : Requests, vk : 1 .. MaxGen, sigs : SUBSET Sigs]
  BY <1>2, <1>4 DEF CallSet
<1>7. r.intent \in Intents
  BY <1>4, InputsOf
<1>8. TypeOK'
  BY <1>1, <1>3, <1>6, <1>7 DEF IInv, TypeOK, CallSet
<1>9. r.commit => r.intent \in reserved /\ r.intent \notin burnt
  BY DEF IInv, ReservationsHeld, Holds
<1>10. \A d \in Call : d # c /\ Holds(d) => call[d].req.intent \in reserved
                                            /\ (r.commit => call[d].req.intent # r.intent)
  BY DEF IInv, ReservationsHeld, Holds
<1>11. \A d \in Call : Holds(d)' => d # c /\ Holds(d) /\ call'[d] = call[d]
  BY <1>1
<1>12. ReservationsHeld'
  <2>1. \A d \in Call : Holds(d)' => call'[d].req.intent \in reserved'
    BY <1>10, <1>11
  <2>2. \A d, e \in Call : Holds(d)' /\ Holds(e)' /\ call'[d].req.intent = call'[e].req.intent => d = e
    BY <1>11 DEF IInv, ReservationsHeld
  <2>3. reserved' \cap burnt' = {}
    BY DEF IInv, ReservationsHeld
  <2> QED
    BY <2>1, <2>2, <2>3 DEF ReservationsHeld
<1>13. SignedIsBurnt'
  BY <1>3 DEF IInv, SignedIsBurnt
<1>14. OneSignaturePerIntent'
  <2>1. r.commit => r.intent \notin raw' /\ \A a \in signed : a.req.commit => a.req.intent # r.intent
    BY <1>9 DEF IInv, SignedIsBurnt
  <2> QED
    BY <1>3, <2>1 DEF IInv, OneSignaturePerIntent
<1> QED
  BY <1>1, <1>5, <1>8, <1>12, <1>13, <1>14 DEF IInv

\* The three ways a request ends.
LEMMA StepEnds ==
    ASSUME IInv, NEW c \in Call, SignFails(c) \/ V1BitcoinSignPsbt(c) \/ CommitFails(c)
    PROVE  IInv'
<1>1. PICK r : r = call[c].req
  OBVIOUS
<1>2. Active(c) /\ call' = [call EXCEPT ![c] = NoCall] /\ UNCHANGED <<kvars, used, raw>>
  BY CallFacts DEF SignFails, V1BitcoinSignPsbt, CommitFails
<1>3. r \in Requests /\ r.commit \in BOOLEAN
  BY <1>1, <1>2, CallFacts, RequestAssumption
<1>4. CASE SignFails(c)
  <2>1. \/ reserved' = reserved /\ burnt' = burnt
        \/ r.commit /\ reserved' = reserved \ {r.intent} /\ burnt' = burnt
    BY <1>1, <1>4 DEF SignFails
  <2>2. signed' = signed
    BY <1>4 DEF SignFails
  <2> QED
    BY <1>1, <1>2, <2>1, <2>2, StepEnd
<1>5. CASE V1BitcoinSignPsbt(c)
  <2>1. \/ reserved' = reserved /\ burnt' = burnt
        \/ r.commit /\ reserved' = reserved \ {r.intent} /\ burnt' = burnt \cup {r.intent}
    BY <1>1, <1>5 DEF V1BitcoinSignPsbt
  <2>2. /\ signed' = signed \cup {[req |-> r, vk |-> call[c].vk, sigs |-> call[c].sigs]}
        /\ r.commit => burnt' = burnt \cup {r.intent}
    BY <1>1, <1>5 DEF V1BitcoinSignPsbt
  <2> QED
    BY <1>1, <1>2, <2>1, <2>2, StepEnd
<1>6. CASE CommitFails(c)
  <2>1. /\ r.commit
        /\ \/ reserved' = reserved /\ burnt' = burnt
           \/ reserved' = reserved \ {r.intent} /\ burnt' = burnt \cup {r.intent}
    BY <1>1, <1>6 DEF CommitFails
  <2>2. signed' = signed
    BY <1>6 DEF CommitFails
  <2> QED
    BY <1>1, <1>2, <2>1, <2>2, StepEnd
<1> QED
  BY <1>4, <1>5, <1>6

\* The steps that leave the requests in progress alone: a refused PSBT, a reservation
\* for a channel, the one-shot gate of the raw route.
LEMMA StepOthers ==
    ASSUME IInv,
           \/ \E c \in Call, r \in Requests : RefusePsbt(c, r)
           \/ \E i \in Intents : ReserveOnly(i)
           \/ \E r \in Requests : V1BitcoinSignSighash(r)
           \/ UNCHANGED vars
    PROVE  IInv'
<1>1. UNCHANGED kvars /\ call' = call /\ signed' = signed
  BY DEF RefusePsbt, ReserveOnly, V1BitcoinSignSighash, vars, svars
<1>2. KeepInv' /\ KeepTypeOK'
  BY <1>1, KeysStay DEF IInv
<1>3. up' = up /\ slot' = slot
  BY <1>1 DEF kvars
<1>4. CallsAreBound'
  BY <1>1, <1>3 DEF IInv, CallsAreBound, Active
<1>5. \A c \in Call : Holds(c)' <=> Holds(c)
  BY <1>1 DEF Holds, Active
<1>6. CASE \E c \in Call, r \in Requests : RefusePsbt(c, r)
  <2>1. PICK c \in Call, r \in Requests : RefusePsbt(c, r)
    BY <1>6
  <2>2. used' = used \cup {r.session} /\ reserved' = reserved /\ burnt' = burnt /\ raw' = raw
    BY <2>1 DEF RefusePsbt
  <2>3. TypeOK'
    BY <1>1, <1>2, <2>2, InputsOf DEF IInv, TypeOK
  <2>4. ReservationsHeld' /\ SignedIsBurnt' /\ OneSignaturePerIntent'
    BY <1>1, <1>5, <2>2 DEF IInv, ReservationsHeld, SignedIsBurnt, OneSignaturePerIntent
  <2> QED
    BY <1>2, <1>4, <2>3, <2>4 DEF IInv
<1>7. CASE \E i \in Intents : ReserveOnly(i)
  <2>1. PICK i \in Intents : ReserveOnly(i)
    BY <1>7
  <2>2. /\ i \notin burnt /\ reserved' = reserved \cup {i}
        /\ used' = used /\ burnt' = burnt /\ raw' = raw
    BY <2>1 DEF ReserveOnly
  <2>3. TypeOK'
    BY <1>1, <1>2, <2>2 DEF IInv, TypeOK
  <2>4. ReservationsHeld' /\ SignedIsBurnt' /\ OneSignaturePerIntent'
    BY <1>1, <1>5, <2>2 DEF IInv, ReservationsHeld, SignedIsBurnt, OneSignaturePerIntent
  <2> QED
    BY <1>2, <1>4, <2>3, <2>4 DEF IInv
<1>8. CASE \E r \in Requests : V1BitcoinSignSighash(r)
  <2>1. PICK r \in Requests : V1BitcoinSignSighash(r)
    BY <1>8
  <2>2. /\ r.intent \notin reserved \cup burnt /\ burnt' = burnt \cup {r.intent} /\ reserved' = reserved
        /\ used' \subseteq used \cup {r.session} /\ raw' \subseteq raw \cup {r.intent}
    BY <2>1 DEF V1BitcoinSignSighash, MaybeGateIntent, SignSighash
  <2>3. TypeOK'
    BY <1>1, <1>2, <2>2, InputsOf DEF IInv, TypeOK
  <2>4. ReservationsHeld' /\ SignedIsBurnt'
    BY <1>1, <1>5, <2>2 DEF IInv, ReservationsHeld, SignedIsBurnt
  <2>5. OneSignaturePerIntent'
    BY <1>1, <2>2 DEF IInv, SignedIsBurnt, OneSignaturePerIntent
  <2> QED
    BY <1>2, <1>4, <2>3, <2>4, <2>5 DEF IInv
<1>9. CASE UNCHANGED vars
  <2>1. used' = used /\ reserved' = reserved /\ burnt' = burnt /\ raw' = raw
    BY <1>9 DEF vars, svars
  <2>2. TypeOK' /\ ReservationsHeld' /\ SignedIsBurnt' /\ OneSignaturePerIntent'
    BY <1>1, <1>2, <1>5, <2>1 DEF IInv, TypeOK, ReservationsHeld, SignedIsBurnt, OneSignaturePerIntent
  <2> QED
    BY <1>2, <1>4, <2>2 DEF IInv
<1> QED
  BY <1>6, <1>7, <1>8, <1>9

----
(***************************************************************************)
(* The theorems.                                                           *)
(***************************************************************************)

\* Every state satisfies the inductive invariant, for every number of shares, every
\* set of requests and every interleaving of refreshes, crashes and boots.
THEOREM Invariance == Spec => []IInv
<1>1. Init => IInv
  <2> SUFFICES ASSUME Init PROVE IInv
    OBVIOUS
  <2>1. KeepInv
    BY KeepInitial DEF Init
  <2>2. call \in [Call -> CallSet] /\ \A c \in Call : ~Active(c)
    BY FreeCall DEF Init, Active
  <2>3. TypeOK
    BY <2>1, <2>2 DEF Init, KeepInv, TypeOK, CallSet
  <2> QED
    BY <2>1, <2>2, <2>3 DEF Init, IInv, CallsAreBound, ReservationsHeld, Holds, SignedIsBurnt, OneSignaturePerIntent
<1>2. IInv /\ [Next]_vars => IInv'
  BY StepKeep, StepSignPsbt, StepSignRawQuorum, StepEnds, StepOthers, Zenon DEF Next
<1> QED
  BY <1>1, <1>2, PTL DEF Spec

\* Every variable has its type.
THEOREM TypeCorrect == Spec => []TypeOK
<1>1. IInv => TypeOK
  BY DEF IInv
<1> QED
  BY <1>1, Invariance, PTL

\* Local shares that were neither cut nor overlapped while they were sealed sign
\* together under their group key, now and after a restart (persist_tr_shares,
\* load_tr_shares, refresh_taproot).
THEOREM SharesStillSign == Spec => []SharesSign
<1>1. IInv => SharesSign
  BY KeepImpliesSigning DEF IInv, SharesSign
<1> QED
  BY <1>1, Invariance, PTL

\* No step replaces a sealed group key that the last boot could read: not a refresh,
\* not a write that is cut, not a boot in another mode.
THEOREM KeyIsStable == Spec => DepositKeyStable
<1>1. IInv /\ IInv' /\ [Next]_vars =>
        [\A k \in Sealed : Loads(k) /\ k \notin unread' => Loads(k)' /\ disk'[k].pub.vk = disk[k].pub.vk]_vars
  <2> SUFFICES ASSUME IInv, IInv', Next, NEW k \in Sealed, Loads(k), k \notin unread'
               PROVE  Loads(k)' /\ disk'[k].pub.vk = disk[k].pub.vk
    OBVIOUS
  <2>1. CASE KeepNext
    BY <2>1, SealedKeyStays DEF IInv
  <2>2. CASE ~KeepNext
    <3>1. disk' = disk
      BY <2>2 DEF Next, SignPsbt, RefusePsbt, SignRawQuorum, SignFails, V1BitcoinSignPsbt, CommitFails,
                  ReserveOnly, V1BitcoinSignSighash, kvars
    <3> QED
      BY <3>1 DEF Loads, LoadsTrChannels
  <2> QED
    BY <2>1, <2>2
<1> QED
  BY <1>1, Invariance, PTL DEF Spec, DepositKeyStable

\* An intent is signed for once, by whatever route (maybe_reserve_intent,
\* maybe_gate_intent, v1_bitcoin_sign_psbt).
THEOREM OneSignature == Spec => []OneSignaturePerIntent
<1>1. IInv => OneSignaturePerIntent
  BY DEF IInv
<1> QED
  BY <1>1, Invariance, PTL

\* All inputs of an answer are signed under the deposit key the PSBT was bound to
\* (sign_raw_quorum takes a snapshot for every input).
THEOREM SameKey == Spec => []SignedUnderDepositKey
<1>1. IInv => SignedUnderDepositKey
  BY DEF IInv, CallsAreBound, SignedUnderDepositKey
<1> QED
  BY <1>1, Invariance, PTL

----
(***************************************************************************)
(* What a signed PSBT does.  The sums and the binding of the outputs are   *)
(* folds; that the fold exists is shown on a smallest set without one, and *)
(* what it computes then follows from its equation.                        *)
(***************************************************************************)

\* g folds step over every subset of D, taking pick[s] off s.
IsFold(D, base, step, pick, g) ==
    g = [s \in SUBSET D |-> IF s = {} THEN base ELSE step[<<pick[s], g[s \ {pick[s]}]>>]]

\* Every set of finite sets has a member none of whose proper subsets is one.
LEMMA MinimalSet ==
    ASSUME NEW S, NEW Sets, Sets \subseteq FiniteSubsetsOf(S), Sets # {}
    PROVE  \E x \in Sets : \A y \in Sets : y \subseteq x => y = x
<1>1. PICK x \in Sets : \A y \in Sets : ~ (<<y, x>> \in StrictSubsetOrdering(S))
  BY WFMin, FS_StrictSubsetOrderingWellFounded
<1>2. Sets \subseteq SUBSET S
  BY DEF FiniteSubsetsOf
<1> QED
  BY <1>1, <1>2 DEF StrictSubsetOrdering

\* Two folds agree wherever both are defined.
LEMMA FoldsAgree ==
    ASSUME NEW D, NEW E, E \subseteq D, IsFiniteSet(E), NEW base, NEW step, NEW pick,
           \A s \in SUBSET D : s # {} => pick[s] \in s,
           NEW g, NEW h, IsFold(D, base, step, pick, g), IsFold(E, base, step, pick, h)
    PROVE  \A s \in SUBSET E : g[s] = h[s]
<1> DEFINE Bad == {s \in SUBSET E : g[s] # h[s]}
<1>1. SUFFICES ASSUME Bad # {} PROVE FALSE
  OBVIOUS
<1>2. Bad \subseteq FiniteSubsetsOf(E)
  BY FS_Subset DEF FiniteSubsetsOf
<1>3. PICK x \in Bad : \A y \in Bad : y \subseteq x => y = x
  <2> HIDE DEF Bad
  <2> QED BY <1>1, <1>2, MinimalSet
<1>4. x # {}
  BY DEF IsFold
<1>5. PICK p, z : p = pick[x] /\ z = x \ {p}
  OBVIOUS
<1>6. p \in x
  BY <1>4, <1>5
<1>7. g[z] = h[z]
  BY <1>3, <1>5, <1>6
<1>8. g[x] = step[<<p, g[z]>>] /\ h[x] = step[<<p, h[z]>>]
  BY <1>4, <1>5 DEF IsFold
<1> QED
  BY <1>7, <1>8

\* There is a fold over the subsets of every finite set.
LEMMA FoldsExist ==
    ASSUME NEW D, IsFiniteSet(D), NEW base, NEW step, NEW pick,
           \A s \in SUBSET D : s # {} => pick[s] \in s
    PROVE  \E g : IsFold(D, base, step, pick, g)
<1> DEFINE F(s, g) == IsFold(s, base, step, pick, g)
           G(s) == CHOOSE g : F(s, g)
           Bad == {s \in SUBSET D : ~ \E g : F(s, g)}
<1>1. SUFFICES ASSUME Bad # {} PROVE FALSE
  OBVIOUS
<1>2. Bad \subseteq FiniteSubsetsOf(D)
  BY FS_Subset DEF FiniteSubsetsOf
<1>3. PICK x \in Bad : \A y \in Bad : y \subseteq x => y = x
  <2> HIDE DEF Bad
  <2> QED BY <1>1, <1>2, MinimalSet
<1>4. \A y \in SUBSET x : y # x => F(y, G(y)) /\ IsFiniteSet(y)
  BY <1>3, FS_Subset
<1> DEFINE f == [s \in SUBSET x |->
                    IF s = {} THEN base ELSE step[<<pick[s], G(s \ {pick[s]})[s \ {pick[s]}]>>]]
<1> HIDE DEF G
<1>5. ASSUME NEW y \in SUBSET x, y # x PROVE f[y] = G(y)[y]
  <2>0. IsFold(y, base, step, pick, G(y))
    BY <1>4, <1>5
  <2>1. CASE y = {}
    BY <2>0, <2>1 DEF IsFold
  <2>2. CASE y # {}
    <3>0. PICK p, z : p = pick[y] /\ z = y \ {p}
      OBVIOUS
    <3>1. p \in y
      BY <2>2, <3>0
    <3>2. z \in SUBSET y /\ z \in SUBSET x /\ z # x
      BY <3>0, <3>1
    <3>3. IsFold(z, base, step, pick, G(z)) /\ IsFiniteSet(z)
      BY <3>2, <1>4
    <3>4. \A s \in SUBSET y : s # {} => pick[s] \in s
      OBVIOUS
    <3>5. G(y)[z] = G(z)[z]
      BY <2>0, <3>2, <3>3, <3>4, FoldsAgree
    <3>6. G(y)[y] = step[<<p, G(y)[z]>>]
      BY <2>0, <2>2, <3>0 DEF IsFold
    <3> QED
      BY <2>2, <3>0, <3>5, <3>6
  <2> QED
    BY <2>1, <2>2
<1>6. ASSUME NEW s \in SUBSET x, s # {}
      PROVE  f[s \ {pick[s]}] = G(s \ {pick[s]})[s \ {pick[s]}]
  <2>1. pick[s] \in s
    BY <1>6
  <2> QED
    BY <2>1, <1>5
<1>7. F(x, f)
  BY <1>6 DEF IsFold
<1> QED
  BY <1>3, <1>7

\* A fold with typed values exists and has its type.
LEMMA TypedFold ==
    ASSUME NEW D, IsFiniteSet(D), NEW V, NEW base \in V, NEW step \in [D \X V -> V], NEW pick,
           \A s \in SUBSET D : s # {} => pick[s] \in s
    PROVE  \E g \in [SUBSET D -> V] : IsFold(D, base, step, pick, g)
<1>1. PICK g : IsFold(D, base, step, pick, g)
  BY FoldsExist
<1> DEFINE Bad == {s \in SUBSET D : g[s] \notin V}
<1>2. ASSUME Bad # {} PROVE FALSE
  <2>1. Bad \subseteq FiniteSubsetsOf(D)
    BY FS_Subset DEF FiniteSubsetsOf
  <2>2. PICK x \in Bad : \A y \in Bad : y \subseteq x => y = x
    <3> HIDE DEF Bad
    <3> QED BY <1>2, <2>1, MinimalSet
  <2>3. x # {}
    BY <1>1 DEF IsFold
  <2>4. PICK p, z : p = pick[x] /\ z = x \ {p}
    OBVIOUS
  <2>5. p \in x /\ p \in D
    BY <2>3, <2>4
  <2>6. g[z] \in V
    BY <2>2, <2>4, <2>5
  <2>7. g[x] = step[<<p, g[z]>>]
    BY <1>1, <2>3, <2>4 DEF IsFold
  <2> QED
    BY <2>5, <2>6, <2>7
<1>3. \A s \in SUBSET D : g[s] \in V
  BY <1>2
<1>4. g \in [SUBSET D -> V]
  BY <1>1, <1>3 DEF IsFold
<1> QED
  BY <1>1, <1>4

\* The equation of the fold that ValuesOf takes.
Pick(S) == CHOOSE x \in S : TRUE
SumsValues(s, h) ==
    h = [S \in SUBSET DOMAIN s |-> IF S = {} THEN 0 ELSE s[Pick(S)].value + h[S \ {Pick(S)}]]

\* ValuesOf is the value of that fold for the whole sequence.
LEMMA ValuesOfIs == \A s : ValuesOf(s) = (CHOOSE h : SumsValues(s, h))[DOMAIN s]
  BY DEF ValuesOf, FoldSeq, FoldFunction, FoldFunctionOnSet, MapThenFoldSet, SumsValues, Pick

\* The amounts of a PSBT add up to an amount.
LEMMA ValuesAreAmounts ==
    ASSUME NEW R, NEW s \in Seq(R), \A i \in DOMAIN s : s[i].value \in Nat
    PROVE  ValuesOf(s) \in Nat
<1>1. PICK D : D = DOMAIN s /\ IsFiniteSet(D)
  <2>1. DOMAIN s = 1 .. Len(s) /\ Len(s) \in Nat
    OBVIOUS
  <2> QED
    BY <2>1, FS_Interval
<1>2. PICK step : step = [q \in D \X Nat |-> s[q[1]].value + q[2]]
  OBVIOUS
<1>3. PICK pick : pick = [S \in SUBSET D |-> Pick(S)]
  OBVIOUS
<1>4. step \in [D \X Nat -> Nat]
  BY <1>1, <1>2
<1>5. \A S \in SUBSET D : S # {} => pick[S] = Pick(S) /\ pick[S] \in S
  BY <1>3 DEF Pick
<1>6. PICK g \in [SUBSET D -> Nat] : IsFold(D, 0, step, pick, g)
  BY <1>1, <1>4, <1>5, TypedFold
<1>7. SumsValues(s, g)
  <2>1. ASSUME NEW S \in SUBSET D, S # {}
        PROVE  step[<<pick[S], g[S \ {pick[S]}]>>] = s[Pick(S)].value + g[S \ {Pick(S)}]
    <3>1. PICK p, z : p = pick[S] /\ z = S \ {p}
      OBVIOUS
    <3>2. p \in D /\ z \in SUBSET D /\ p = Pick(S)
      BY <1>5, <2>1, <3>1
    <3>3. PICK n \in Nat : n = g[z]
      BY <1>6, <3>2
    <3>4. <<p, n>> \in D \X Nat /\ <<p, n>>[1] = p /\ <<p, n>>[2] = n
      BY <3>2
    <3>5. step[<<p, n>>] = s[p].value + n
      BY <1>2, <3>4
    <3> QED
      BY <3>1, <3>2, <3>3, <3>5
  <2> QED
    BY <1>1, <1>6, <2>1 DEF IsFold, SumsValues
<1>8. SumsValues(s, CHOOSE h : SumsValues(s, h))
  BY <1>7, Zenon
<1> DEFINE h == CHOOSE h : SumsValues(s, h)
<1> HIDE DEF h
<1>9. h[{}] = 0 /\ \A S \in SUBSET D : S # {} => h[S] = s[Pick(S)].value + h[S \ {Pick(S)}]
  <2>1. SumsValues(s, h)
    BY <1>8, Zenon DEF h
  <2>2. \A S \in SUBSET D : h[S] = IF S = {} THEN 0 ELSE s[Pick(S)].value + h[S \ {Pick(S)}]
    BY <1>1, <2>1 DEF SumsValues
  <2> QED
    BY <2>2
<1> DEFINE Bad == {S \in SUBSET D : h[S] \notin Nat}
<1>10. ASSUME Bad # {} PROVE FALSE
  <2>1. Bad \subseteq FiniteSubsetsOf(D)
    BY <1>1, FS_Subset DEF FiniteSubsetsOf
  <2>2. PICK x \in Bad : \A y \in Bad : y \subseteq x => y = x
    <3> HIDE DEF Bad
    <3> QED BY <1>10, <2>1, MinimalSet
  <2>0. x \in SUBSET D /\ h[x] \notin Nat
    OBVIOUS
  <2>3. x # {}
    <3>1. ASSUME x = {} PROVE FALSE
      <4>1. h[x] = 0
        BY <1>9, <3>1
      <4> QED
        BY <2>0, <4>1
    <3> QED BY <3>1
  <2>4. Pick(x) \in x /\ Pick(x) \in D
    BY <2>3 DEF Pick
  <2>5. h[x \ {Pick(x)}] \in Nat
    BY <2>2, <2>4
  <2> QED
    <3>1. h[x] = s[Pick(x)].value + h[x \ {Pick(x)}] /\ s[Pick(x)].value \in Nat
      BY <1>1, <1>9, <2>0, <2>3, <2>4
    <3>2. h[x] \in Nat
      BY <2>5, <3>1
    <3> QED
      BY <2>0, <3>2
<1>11. h[D] \in Nat
  BY <1>10
<1> QED
  BY <1>1, <1>11, ValuesOfIs DEF h

\* The equation of the fold that binds the outputs, from the first to the last.
Verdicts == {"open", "paid", "refused"}
BindsOutputs(outs, pay, amount, change, h) ==
    h = [S \in SUBSET DOMAIN outs |-> IF S = {} THEN "open"
                                      ELSE BindStep(h[S \ {Max(S)}], outs[Max(S)], pay, amount, change)]

\* Bound outputs are those the fold ends on "paid" for.
LEMMA BindingIs ==
    \A outs, pay, amount, change :
        AssertOutputsMatchIntent(outs, pay, amount, change) =>
            (CHOOSE h : BindsOutputs(outs, pay, amount, change, h))[DOMAIN outs] = "paid"
  BY DEF AssertOutputsMatchIntent, FoldLeft, MapThenFoldSet, BindsOutputs

\* The last of some outputs.
LEMMA LastOf ==
    ASSUME NEW n \in Nat, NEW S \in SUBSET (1 .. n), S # {}
    PROVE  Max(S) \in S
<1> DEFINE U == {m \in 0 .. n : \A i \in S : i <= m}
<1>1. U \in SUBSET Nat /\ n \in U
  OBVIOUS
<1>2. PICK m \in U : \A k \in U : m <= k
  <2> HIDE DEF U
  <2> QED BY <1>1, LeastOf
<1>3. m \in Nat /\ \A i \in S : i <= m
  OBVIOUS
<1>4. m \in S
  <2>1. ASSUME m \notin S PROVE FALSE
    <3>1. \A i \in S : i <= m - 1 /\ i >= 1
      BY <1>3, <2>1
    <3>0. PICK e : e \in S
      OBVIOUS
    <3>2. m - 1 \in 0 .. n
      BY <1>3, <3>0, <3>1
    <3>3. m - 1 \in U
      BY <3>1, <3>2
    <3> QED
      BY <1>2, <1>3, <3>3
  <2> QED BY <2>1
<1>5. \E x \in S : \A y \in S : x >= y
  BY <1>3, <1>4
<1> QED
  BY <1>5 DEF Max

\* The last of the first m + 1 outputs is output m + 1.
LEMMA LastOfPrefix == ASSUME NEW m \in Nat PROVE Max(1 .. m + 1) = m + 1
<1>1. Max(1 .. m + 1) \in 1 .. m + 1 /\ \A y \in 1 .. m + 1 : Max(1 .. m + 1) >= y
  <2>1. m + 1 \in 1 .. m + 1 /\ \A y \in 1 .. m + 1 : m + 1 >= y
    OBVIOUS
  <2>2. \E x \in 1 .. m + 1 : \A y \in 1 .. m + 1 : x >= y
    BY <2>1
  <2> QED
    BY <2>2 DEF Max
<1> QED
  BY <1>1

\* Bound outputs pay the intent once, with its amount, and the rest is change.
LEMMA BoundOutputs ==
    ASSUME NEW R, NEW outs \in Seq(R), NEW pay, NEW amount, NEW change,
           AssertOutputsMatchIntent(outs, pay, amount, change)
    PROVE  \E i \in DOMAIN outs :
              /\ outs[i].spk = pay /\ outs[i].value = amount
              /\ \A j \in DOMAIN outs \ {i} : outs[j].spk # pay /\ outs[j].spk = change
<1>1. PICK n \in Nat : DOMAIN outs = 1 .. n
  OBVIOUS
<1>2. PICK D : D = 1 .. n /\ IsFiniteSet(D)
  BY FS_Interval
<1>3. \A o : \A v \in Verdicts : BindStep(v, o, pay, amount, change) \in Verdicts
  BY DEF Verdicts, BindStep
<1>4. PICK step : step = [q \in D \X Verdicts |-> BindStep(q[2], outs[q[1]], pay, amount, change)]
  OBVIOUS
<1>5. PICK pick : pick = [S \in SUBSET D |-> Max(S)]
  OBVIOUS
<1>6. step \in [D \X Verdicts -> Verdicts]
  BY <1>3, <1>4
<1>7. \A S \in SUBSET D : S # {} => pick[S] = Max(S) /\ pick[S] \in S
  BY <1>2, <1>5, LastOf
<1>8. PICK g \in [SUBSET D -> Verdicts] : IsFold(D, "open", step, pick, g)
  <2>1. "open" \in Verdicts
    BY DEF Verdicts
  <2> QED
    BY <1>2, <1>6, <1>7, <2>1, TypedFold
<1>9. BindsOutputs(outs, pay, amount, change, g)
  <2>1. ASSUME NEW S \in SUBSET D, S # {}
        PROVE  step[<<pick[S], g[S \ {pick[S]}]>>]
                 = BindStep(g[S \ {Max(S)}], outs[Max(S)], pay, amount, change)
    <3>1. PICK p, z : p = pick[S] /\ z = S \ {p}
      OBVIOUS
    <3>2. p \in D /\ z \in SUBSET D /\ p = Max(S)
      BY <1>7, <2>1, <3>1
    <3>3. PICK v \in Verdicts : v = g[z]
      BY <1>8, <3>2
    <3>4. <<p, v>> \in D \X Verdicts /\ <<p, v>>[1] = p /\ <<p, v>>[2] = v
      BY <3>2
    <3>5. step[<<p, v>>] = BindStep(v, outs[p], pay, amount, change)
      BY <1>4, <3>4
    <3> QED
      BY <3>1, <3>2, <3>3, <3>5
  <2> QED
    BY <1>1, <1>2, <1>8, <2>1 DEF IsFold, BindsOutputs
<1>10. BindsOutputs(outs, pay, amount, change, CHOOSE h : BindsOutputs(outs, pay, amount, change, h))
  BY <1>9, Zenon
<1> DEFINE h == CHOOSE h : BindsOutputs(outs, pay, amount, change, h)
<1> HIDE DEF h
<1>11. h[D] = "paid"
  BY <1>1, <1>2, BindingIs DEF h
<1>12. \A S \in SUBSET D : h[S] = IF S = {} THEN "open"
                                  ELSE BindStep(h[S \ {Max(S)}], outs[Max(S)], pay, amount, change)
  <2>1. BindsOutputs(outs, pay, amount, change, h)
    BY <1>10, Zenon DEF h
  <2> QED
    BY <1>1, <1>2, <2>1 DEF BindsOutputs
<1>13. h[{}] = "open"
  BY <1>12
<1>14. ASSUME NEW m \in Nat, m + 1 \in 1 .. n
       PROVE  h[1 .. m + 1] = BindStep(h[1 .. m], outs[m + 1], pay, amount, change)
  <2>1. PICK S : S = 1 .. m + 1
    OBVIOUS
  <2>2. S \in SUBSET D /\ S # {} /\ Max(S) = m + 1 /\ S \ {m + 1} = 1 .. m
    <3>1. Max(S) = m + 1
      BY <2>1, LastOfPrefix
    <3>2. S \in SUBSET D /\ m + 1 \in S
      BY <1>2, <1>14, <2>1
    <3>3. S \ {m + 1} = 1 .. m
      BY <2>1
    <3> QED
      BY <3>1, <3>2, <3>3
  <2>3. h[S] = BindStep(h[S \ {Max(S)}], outs[Max(S)], pay, amount, change)
    BY <1>12, <2>2
  <2> QED
    BY <2>1, <2>2, <2>3
<1> DEFINE Change(j) == outs[j].spk # pay /\ outs[j].spk = change
           Pays(i, m) == /\ outs[i].spk = pay /\ outs[i].value = amount
                         /\ \A j \in 1 .. m : j # i => Change(j)
           Good(m) == /\ h[1 .. m] = "open" => \A j \in 1 .. m : Change(j)
                      /\ h[1 .. m] = "paid" => \E i \in 1 .. m : Pays(i, m)
           Bad == {m \in 0 .. n : ~Good(m)}
<1>15. ASSUME Bad # {} PROVE FALSE
  <2>1. Bad \in SUBSET Nat
    OBVIOUS
  <2>2. PICK m \in Bad : \A k \in Bad : m <= k
    <3> HIDE DEF Bad
    <3> QED BY <1>15, <2>1, LeastOf
  <2>3. m \in 0 .. n /\ ~Good(m)
    OBVIOUS
  <2>4. m # 0
    <3>1. ASSUME m = 0 PROVE FALSE
      <4>1. 1 .. m = {}
        BY <3>1
      <4>2. h[1 .. m] = "open"
        BY <1>13, <4>1
      <4>3. Good(m)
        BY <4>1, <4>2
      <4> QED
        BY <2>3, <4>3
    <3> QED BY <3>1
  <2>5. PICK k \in Nat : m = k + 1 /\ k \in 0 .. n /\ m \in 1 .. n
    <3>1. m - 1 \in Nat /\ m = (m - 1) + 1 /\ m - 1 \in 0 .. n /\ m \in 1 .. n
      BY <2>3, <2>4
    <3> QED BY <3>1
  <2>6. Good(k)
    <3>1. k \notin Bad
      <4> HIDE DEF Bad
      <4> QED BY <2>1, <2>2, <2>5
    <3> QED
      BY <2>5, <3>1
  <2>7. PICK v, w : v = h[1 .. k] /\ w = h[1 .. m]
    OBVIOUS
  <2>8. w = BindStep(v, outs[m], pay, amount, change)
    BY <1>14, <2>5, <2>7
  <2>9. 1 .. m = (1 .. k) \cup {m} /\ m \notin 1 .. k
    BY <2>5
  <2>10. w = "open" => v = "open" /\ Change(m)
    BY <2>8 DEF BindStep
  <2>11. w = "paid" => \/ v = "open" /\ outs[m].spk = pay /\ outs[m].value = amount
                       \/ v = "paid" /\ Change(m)
    BY <2>8 DEF BindStep
  <2>12. w = "open" => \A j \in 1 .. m : Change(j)
    BY <2>6, <2>7, <2>9, <2>10
  <2>13. w = "paid" => \E i \in 1 .. m : Pays(i, m)
    <3>1. ASSUME w = "paid", v = "open" PROVE \E i \in 1 .. m : Pays(i, m)
      <4>1. \A j \in 1 .. k : Change(j)
        BY <2>6, <2>7, <3>1
      <4>2. outs[m].spk = pay /\ outs[m].value = amount
        BY <2>11, <3>1
      <4>3. Pays(m, m) /\ m \in 1 .. m
        BY <2>9, <4>1, <4>2
      <4> QED BY <4>3
    <3>2. ASSUME w = "paid", v = "paid" PROVE \E i \in 1 .. m : Pays(i, m)
      <4>1. PICK i \in 1 .. k : Pays(i, k)
        BY <2>6, <2>7, <3>2
      <4>2. Change(m)
        BY <2>11, <3>2
      <4>3. Pays(i, m) /\ i \in 1 .. m
        BY <2>9, <4>1, <4>2
      <4> QED BY <4>3
    <3> QED
      BY <2>11, <3>1, <3>2
  <2>14. Good(m)
    BY <2>7, <2>12, <2>13
  <2> QED
    BY <2>3, <2>14
<1>16. Good(n)
  BY <1>15
<1> QED
  BY <1>1, <1>2, <1>11, <1>16

\* The amounts of every input fit a u64 (all bitcoins together do): beyond that the
\* vault's own sum saturates and says nothing about the fee.
InputsFit == \A r \in Requests : ValuesOf(r.psbt.ins) < U64

\* A PSBT that passed the checks pays the intent and no more than the fee cap.
LEMMA SignsPays ==
    ASSUME InputsFit, NEW r \in Requests, Signs(r)
    PROVE  LET p == r.psbt
               paying == {i \in DOMAIN p.outs : p.outs[i].spk = r.dest} IN
           /\ \E i \in paying : paying = {i} /\ p.outs[i].value = r.amount
           /\ \A i \in DOMAIN p.outs \ paying : p.outs[i].spk = "mesh"
           /\ p.lock <= Policy.maxLock
           /\ ValuesOf(p.outs) < U64 => ValuesOf(p.ins) - ValuesOf(p.outs) \in 0 .. Policy.maxFee
<1>1. PICK p, outs, ins, Rin, Rout :
         /\ p = r.psbt /\ outs = p.outs /\ ins = p.ins
         /\ ins \in Seq(Rin) /\ outs \in Seq(Rout)
         /\ \A x \in Rin : x.value \in Nat
         /\ \A x \in Rout : x.value \in Nat
  <2> DEFINE I == [value : Nat, spk : STRING, utxo : {"witness", "legacy", "none"},
                   seq : {"rbf", "final"}, done : BOOLEAN]
             O == [spk : STRING, value : Nat]
  <2>1. r.psbt.ins \in Seq(I) /\ r.psbt.outs \in Seq(O)
    BY RequestAssumption
  <2>2. (\A x \in I : x.value \in Nat) /\ \A x \in O : x.value \in Nat
    OBVIOUS
  <2> HIDE DEF I, O
  <2> QED
    BY <2>1, <2>2
<1>2. ValuesOf(ins) \in Nat /\ ValuesOf(outs) \in Nat
  <2>1. (\A i \in DOMAIN ins : ins[i].value \in Nat) /\ \A i \in DOMAIN outs : outs[i].value \in Nat
    BY <1>1
  <2> QED
    BY <1>1, <2>1, ValuesAreAmounts
<1>3. AssertOutputsMatchIntent(outs, r.dest, r.amount, "mesh") /\ Validate(p)
  BY <1>1 DEF Signs
<1>4. PICK i \in DOMAIN outs :
          /\ outs[i].spk = r.dest /\ outs[i].value = r.amount
          /\ \A j \in DOMAIN outs \ {i} : outs[j].spk # r.dest /\ outs[j].spk = "mesh"
  BY <1>1, <1>3, BoundOutputs
<1>5. {j \in DOMAIN outs : outs[j].spk = r.dest} = {i}
  BY <1>4
<1>6. p.lock <= Policy.maxLock
  <2>1. (p.lock = 0 \/ p.lock <= Policy.maxLock) /\ Policy.maxLock \in Nat
    BY <1>3, PsbtPolicyAssumption DEF Validate
  <2> QED
    BY <2>1
<1>7. ASSUME ValuesOf(outs) < U64 PROVE ValuesOf(ins) - ValuesOf(outs) \in 0 .. Policy.maxFee
  <2>1. PICK a, b \in Nat : a = ValuesOf(ins) /\ b = ValuesOf(outs)
    BY <1>2
  <2>2. a < U64 /\ b < U64 /\ U64 \in Nat /\ Policy.maxFee \in Nat
    BY <1>1, <1>7, <2>1, PsbtPolicyAssumption DEF InputsFit
  <2>3. InSats(p) = a
    BY <1>1, <2>1, <2>2 DEF InSats
  <2>4. b % U64 = b
    BY <2>2, SMTT(30)
  <2>5. OutSats(p) = b
    BY <1>1, <2>1, <2>4 DEF OutSats
  <2>6. b <= a /\ a - b <= Policy.maxFee
    BY <1>3, <2>3, <2>5 DEF Validate
  <2> QED
    BY <2>1, <2>2, <2>6
<1> QED
  BY <1>1, <1>4, <1>5, <1>6, <1>7

\* Every signed PSBT pays the destination of its intent once and exactly, returns the
\* rest to the deposit key and pays no more than the fee cap, for every set of
\* requests whose input amounts fit a u64 (sign_psbt, PsbtPolicy::validate,
\* assert_outputs_match_intent).
THEOREM PaysTheIntent ==
    ASSUME InputsFit
    PROVE  Spec => []SignedPaysIntent
<1>1. IInv => SignedPaysIntent
  <2> SUFFICES ASSUME IInv, NEW a \in signed
               PROVE  LET p == a.req.psbt
                          paying == {i \in DOMAIN p.outs : p.outs[i].spk = a.req.dest} IN
                      /\ \E i \in paying : paying = {i} /\ p.outs[i].value = a.req.amount
                      /\ \A i \in DOMAIN p.outs \ paying : p.outs[i].spk = "mesh"
                      /\ p.lock <= Policy.maxLock
                      /\ ValuesOf(p.outs) < U64 => ValuesOf(p.ins) - ValuesOf(p.outs) \in 0 .. Policy.maxFee
    BY DEF SignedPaysIntent
  <2>1. a.req \in Requests /\ Signs(a.req)
    BY DEF IInv, TypeOK, CallsAreBound
  <2> QED
    BY <2>1, SignsPays
<1> QED
  BY <1>1, Invariance, PTL
=============================================================================
