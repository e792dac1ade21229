----------------------------- MODULE HostProofs -----------------------------
(***************************************************************************)
(* Proofs about what runs on the host of a vault: its configuration and    *)
(* boot and the requests it serves (MeshAdmission), and the processes      *)
(* beside it (Processes).                                                  *)
(***************************************************************************)
EXTENDS MeshAdmission, Processes, FunctionTheorems, FiniteSetTheorems,
        SequenceTheorems, TLAPS

-----------------------------------------------------------------------------
(***************************************************************************)
(* MeshAdmission.                                                          *)
(*                                                                         *)
(* A runtime is what the environment of its boot says, and the environment *)
(* of a running vault is not edited.  What remains is the share store: the *)
(* passphrase a store was opened with is the one View names, because an    *)
(* envelope is written once, before the vault is up, and a share file is a *)
(* function of the view it was sealed under (FileOf).                      *)
(***************************************************************************)

\* An environment of vault n: every variable a property counts on has a
\* possible value.
EnvironmentOf(n, e) ==
    /\ Counted \subseteq DOMAIN e
    /\ e.id = n
    /\ \A f \in DOMAIN e : Possible(f, e[f])

\* What from_env makes of it.
Sane(n, c) ==
    /\ c.id = n
    /\ c.pass \in Passphrases \cup {"unset"}
    /\ c.dir \in Dirs
    /\ c.peers \in Seq(1 .. PadBase - 1)
    /\ c.genesisN \in Int
    /\ c.onlineCount \in Nat \cup {-1}

\* The file put_share writes under a view.
FileOf(w) ==
    [dir |-> w.dir, backend |-> w.backend, pass |-> w.secret,
     measurement |-> IF w.backend # "stub" THEN <<>>
                     ELSE IF Len(w.mesh) = 1 THEN <<"pin", w.mesh[1]>>
                     ELSE <<"hash", w.mesh[2], w.mesh[3]>>]

\* Where the lab passphrase may open a store.
LabSecretMay(c, pass) ==
    pass = LabSecret =>
        \/ c.ceremony = "lab" /\ ~c.hardened
        \/ StoreBackend(c) = "stub" /\ c.pass = LabSecret /\ c.ceremony # "production"

\* A vault that is up passed every check of from_env and build, and has opened
\* its store with the passphrase its view names.
Booted(n) ==
    LET v == vault[n] c == v.config IN
    /\ Sane(n, c) /\ ValidateHygiene(c) /\ BuildReachesStore(c, v.roster)
    /\ v.roster = SeatGenesis(c)
    /\ v.measurement = Measurement(c, Len(v.roster))
    /\ v.pass \in Passphrases \cup {"closed"}
    /\ LabSecretMay(c, v.pass)
    /\ c.hardened = IsHardened(env[n]) /\ c.ceremony = CeremonyOf(env[n])
    /\ c.ceremony \in {"lab", "staging", "production"}
    /\ StoreBackend(c) # "closed" => v.pass = View(n).secret

\* Every share file is the file of the view it was sealed under, in a store
\* that seals.
FilesFollowViews ==
    /\ shareFiles = [n \in Node |-> shareFiles[n]]
    /\ \A n \in Node : \A s \in shareFiles[n] :
          s.file = FileOf(s.view) /\ s.view.backend # "closed"

MeshInv ==
    /\ edits \in 0 .. MaxEdits /\ writeFaults \in 0 .. MaxWriteFaults
    /\ env = [n \in Node |-> env[n]]
    /\ \A n \in Node : EnvironmentOf(n, env[n])
    /\ vault = [n \in Node |-> vault[n]]
    /\ \A n \in Node : vault[n].up \in BOOLEAN
    /\ \A n \in up : Booted(n)
    /\ envelope \in [Node -> [Dirs -> Passphrases \cup {"none"}]]
    /\ FilesFollowViews

\* The request that is being answered is justified.
CallInv ==
    /\ last # NoCall => last.node \in up /\ last.route \in Route
    /\ CallsJustified

-----------------------------------------------------------------------------
\* The configuration keeps id, passphrase, directory and a list of other vaults.
LEMMA ConfigIsSane ==
    ASSUME NEW n \in Node, NEW e, EnvironmentOf(n, e)
    PROVE  Sane(n, Config(e))
<1>1. /\ e.id = n /\ e.pass \in Passphrases \cup {"unset"} /\ e.dir \in Dirs \cup {"unset"}
      /\ e.root \in Dirs /\ e.peers \in Seq(Name) /\ e.genesisN \in Int
      /\ e.onlineCount \in Nat \cup {-1}
  BY DEF EnvironmentOf, Possible, Counted
<1>2. Config(e).id = e.id
  BY DEF Config
<1>3. Config(e).pass = e.pass
  BY DEF Config
<1>4. Config(e).genesisN = e.genesisN /\ Config(e).onlineCount = e.onlineCount
  BY DEF Config
<1>5. Config(e).dir \in Dirs
  <2>1. Config(e).dir = EffectiveDataDir(e)
    BY DEF Config
  <2> QED
    BY <1>1, <2>1 DEF EffectiveDataDir, Given
<1>6. Config(e).peers \in Seq(1 .. PadBase - 1)
  <2>1. Config(e).peers = SeedPeers(e)
    BY DEF Config
  <2>2. e.peers \in Seq(1 .. PadBase - 1)
    BY <1>1, SeqMonotonic, MeshAdmissionAssumption
  <2>3. /\ Manifest \in Seq(1 .. PadBase - 1)
        /\ \A i \in DOMAIN Manifest : RemoveAt(Manifest, i) \in Seq(1 .. PadBase - 1)
    <3>1. Manifest \in Seq(1 .. PadBase - 1) /\ Len(Manifest) = 3 /\ DOMAIN Manifest = 1 .. 3
      BY DEF Manifest, PadBase
    <3>2. ASSUME NEW i \in 1 .. 3
          PROVE  RemoveAt(Manifest, i) \in Seq(1 .. PadBase - 1)
      <4>1. \A j \in 1 .. 3 : Manifest[j] \in 1 .. PadBase - 1
        BY DEF Manifest, PadBase
      <4>2. SubSeq(Manifest, 1, i - 1) \in Seq(1 .. PadBase - 1)
        BY <4>1, SubSeqProperties
      <4>3. SubSeq(Manifest, i + 1, 3) \in Seq(1 .. PadBase - 1)
        BY <4>1, SubSeqProperties
      <4> QED
        BY <3>1, <4>2, <4>3, ConcatProperties DEF RemoveAt
    <3> QED
      BY <3>1, <3>2
  <2>4. <<>> \in Seq(1 .. PadBase - 1)
    BY EmptySeq
  <2>5. DiscoverVaultPeers(e) \in Seq(1 .. PadBase - 1)
    BY <2>3, <2>4 DEF DiscoverVaultPeers
  <2> QED
    BY <2>1, <2>2, <2>5 DEF SeedPeers
<1> QED
  BY <1>1, <1>2, <1>3, <1>4, <1>5, <1>6 DEF Sane

\* A store that seals at all is of one of two kinds, and seals.
LEMMA SealingStores ==
    ASSUME NEW c, SealWorks(c)
    PROVE  StoreBackend(c) \in {"aead", "stub"}
BY DEF SealWorks, StoreBackend

\* A store that opened seals.
LEMMA OpenStoresSeal ==
    ASSUME NEW c, StoreBackend(c) # "closed"
    PROVE  SealWorks(c)
BY DEF SealWorks, StoreBackend, QuoteVerifies

\* A runtime seals the file of its view.
LEMMA SealedUnderView ==
    ASSUME NEW n, Booted(n), StoreBackend(vault[n].config) # "closed"
    PROVE  SealedUnder(n) = FileOf(View(n))
<1> DEFINE c == vault[n].config
<1>1. vault[n].pass = View(n).secret
  BY DEF Booted
<1>2. View(n).dir = c.dir /\ View(n).backend = StoreBackend(c)
  BY DEF View
<1>3. StoreBackend(c) = "stub" => c.store # "aead"
  BY DEF StoreBackend
<1>4. ASSUME StoreBackend(c) = "stub"
      PROVE  vault[n].measurement = FileOf(View(n)).measurement
  <2>1. View(n).mesh = IF c.pin # "unset" THEN <<c.pin>>
                       ELSE <<"seats", Len(vault[n].roster), c.open>>
    BY <1>3, <1>4 DEF View
  <2>2. vault[n].measurement = Measurement(c, Len(vault[n].roster))
    BY DEF Booted
  <2>3. FileOf(View(n)).measurement =
            IF Len(View(n).mesh) = 1 THEN <<"pin", View(n).mesh[1]>>
            ELSE <<"hash", View(n).mesh[2], View(n).mesh[3]>>
    BY <1>2, <1>4 DEF FileOf
  <2>4. CASE c.pin # "unset"
    <3>1. View(n).mesh = <<c.pin>>
      BY <2>1, <2>4
    <3> QED
      BY <2>2, <2>3, <2>4, <3>1 DEF Measurement
  <2>5. CASE c.pin = "unset"
    <3>1. View(n).mesh = <<"seats", Len(vault[n].roster), c.open>>
      BY <2>1, <2>5
    <3>2. Len(View(n).mesh) = 3 /\ View(n).mesh[2] = Len(vault[n].roster) /\ View(n).mesh[3] = c.open
      BY <3>1
    <3> QED
      BY <2>2, <2>3, <2>5, <3>2 DEF Measurement
  <2> QED
    BY <2>4, <2>5
<1>5. FileOf(View(n)) = [dir |-> c.dir, backend |-> StoreBackend(c), pass |-> vault[n].pass,
                         measurement |-> FileOf(View(n)).measurement]
  BY <1>1, <1>2 DEF FileOf
<1>6. StoreBackend(c) # "stub" => FileOf(View(n)).measurement = <<>>
  BY <1>2 DEF FileOf
<1> QED
  BY <1>4, <1>5, <1>6 DEF SealedUnder

\* The envelope after a boot that found this one, and the secret of a view.
EnvelopeAfter(c, found, written) ==
    IF /\ written /\ StoreBackend(c) = "aead" /\ c.tpmSeal /\ TpmSeals(c)
       /\ found = "none" /\ EffectiveSharePassphrase(c) # "unset"
    THEN EffectiveSharePassphrase(c) ELSE found

SecretOf(c, after) ==
    IF c.store = "aead" /\ c.tpmSeal /\ c.tpmStub /\ after # "none"
    THEN after ELSE EffectiveSharePassphrase(c)

\* The passphrase build opens the store with.
LEMMA PassphraseOpens ==
    ASSUME NEW n \in Node, NEW c, Sane(n, c), ValidateHygiene(c),
           NEW found \in Passphrases \cup {"none"}, NEW written \in BOOLEAN,
           StorePassphrase(c, found, written) # "refused"
    PROVE  /\ StorePassphrase(c, found, written) \in Passphrases \cup {"closed"}
           /\ LabSecretMay(c, StorePassphrase(c, found, written))
           /\ StoreBackend(c) # "closed" =>
                 StorePassphrase(c, found, written) = SecretOf(c, EnvelopeAfter(c, found, written))
<1> USE DEF EnvelopeAfter, SecretOf, LabSecretMay
<1> DEFINE pass == StorePassphrase(c, found, written)
           clear == EffectiveSharePassphrase(c)
<1>1. clear \in Passphrases \cup {"unset"}
  BY DEF Sane, EffectiveSharePassphrase, Given, Passphrases
<1>2. /\ c.tpmStub => c.ceremony = "lab" /\ ~c.hardened
      /\ clear = LabSecret => (c.ceremony = "lab" /\ ~c.hardened) \/ (c.store # "aead" /\ c.pass = LabSecret)
  BY DEF ValidateHygiene, ValidateTpmSeal, ValidateLabPassphrase, EffectiveSharePassphrase, Given, LabSecret
<1>3. ~("refused" \in Passphrases) /\ ~("unset" \in Passphrases) /\ ~("none" \in Passphrases)
  BY DEF Passphrases, LabSecret
<1>4. CASE StoreBackend(c) = "closed"
  BY <1>4 DEF StorePassphrase, StoreBackend, LabSecret
<1>5. CASE StoreBackend(c) = "stub"
  <2>1. c.store # "aead"
    BY <1>5 DEF StoreBackend
  <2>2. pass = clear
    BY <1>5, <2>1 DEF StorePassphrase, Given
  <2>3. pass # "unset"
    BY <2>2, <1>5, <2>1 DEF StorePassphrase, Given
  <2> QED
    BY <1>1, <1>2, <1>5, <2>1, <2>2, <2>3 DEF StoreBackend
<1>6. CASE c.store = "aead" /\ ~c.tpmSeal
  <2>1. StoreBackend(c) = "aead"
    BY <1>6 DEF StoreBackend
  <2>2. pass = clear /\ pass # "unset"
    BY <1>6, <2>1 DEF StorePassphrase, Given
  <2> QED
    BY <1>1, <1>2, <1>6, <2>1, <2>2
<1>7. CASE c.store = "aead" /\ c.tpmSeal
  <2>1. StoreBackend(c) = "aead"
    BY <1>7 DEF StoreBackend
  <2>2. pass = ResolveAeadPassphrase(c, found, written)
    BY <1>7, <2>1 DEF StorePassphrase
  <2>3. CASE c.tpmStub /\ found # "none"
    <3>1. pass = found
      <4>1. found # "refused" /\ TpmSeals(c)
        BY <1>3, <2>3 DEF TpmSeals
      <4> QED
        BY <2>2, <2>3, <4>1 DEF ResolveAeadPassphrase
    <3> QED
      BY <3>1, <2>3, <2>1, <1>2, <1>7
  <2>4. CASE c.tpmStub /\ found = "none"
    <3>1. pass = clear /\ clear # "unset"
      <4>1. pass # "refused" /\ TpmSeals(c)
        BY <2>4 DEF TpmSeals
      <4>2. clear # "unset"
        BY <2>2, <2>4, <4>1 DEF ResolveAeadPassphrase
      <4> QED
        BY <2>2, <2>4, <4>1, <4>2, <1>1, <1>3 DEF ResolveAeadPassphrase
    <3> QED
      BY <3>1, <2>4, <2>1, <1>1, <1>2, <1>7 DEF TpmSeals
  <2>5. CASE ~c.tpmStub
    <3>1. pass = clear /\ clear # "unset"
      BY <2>2, <2>5, <1>1, <1>3 DEF ResolveAeadPassphrase, TpmSeals
    <3> QED
      BY <3>1, <2>5, <2>1, <1>1, <1>2, <1>7 DEF TpmSeals
  <2> QED
    BY <2>3, <2>4, <2>5
<1> QED
  BY <1>4, <1>5, <1>6, <1>7 DEF StoreBackend

-----------------------------------------------------------------------------
\* A vault nobody touches stays booted.
LEMMA BootedStays ==
    ASSUME NEW n, Booted(n), vault'[n] = vault[n], envelope'[n] = envelope[n], env'[n] = env[n]
    PROVE  Booted(n)'
BY DEF Booted, View

\* Before the first boot there is no runtime, no envelope and no file.
LEMMA MeshInit == Init => MeshInv
<1> SUFFICES ASSUME Init PROVE MeshInv
  OBVIOUS
<1>1. edits \in 0 .. MaxEdits /\ writeFaults \in 0 .. MaxWriteFaults
  BY MeshAdmissionAssumption DEF Init
<1>2. env = [n \in Node |-> env[n]] /\ \A n \in Node : EnvironmentOf(n, env[n])
  BY EnvironmentAssumption DEF Init, EnvironmentOf
<1>3. vault = [n \in Node |-> vault[n]] /\ (\A n \in Node : vault[n].up \in BOOLEAN) /\ up = {}
  BY DEF Init, Down, up
<1>4. envelope \in [Node -> [Dirs -> Passphrases \cup {"none"}]]
  BY DEF Init
<1>5. FilesFollowViews
  BY DEF Init, FilesFollowViews
<1> QED
  BY <1>1, <1>2, <1>3, <1>4, <1>5 DEF MeshInv

\* An edit sets a variable of a vault that is down to a possible value.
LEMMA SetEnvKeeps ==
    ASSUME MeshInv, NEW n \in Node, SetEnv(n)
    PROVE  MeshInv'
<1>1. PICK f \in DOMAIN Settings[n] : \E v \in Settings[n][f] : env' = [env EXCEPT ![n][f] = v]
  BY DEF SetEnv
<1>2. PICK v \in Settings[n][f] : env' = [env EXCEPT ![n][f] = v]
  BY <1>1
<1>3. f # "id" /\ Possible(f, v)
  BY EnvironmentAssumption
<1>4. env' = [m \in Node |-> IF m = n THEN [env[n] EXCEPT ![f] = v] ELSE env[m]]
  BY <1>2 DEF MeshInv
<1>5. \A m \in Node : EnvironmentOf(m, env'[m])
  <2>1. ASSUME NEW m \in Node, m # n PROVE EnvironmentOf(m, env'[m])
    BY <1>4, <2>1 DEF MeshInv
  <2>2. EnvironmentOf(n, env'[n])
    <3>1. env'[n] = [env[n] EXCEPT ![f] = v] /\ EnvironmentOf(n, env[n])
      BY <1>4 DEF MeshInv
    <3>2. DOMAIN env'[n] = DOMAIN env[n]
      BY <3>1
    <3>3. \A g \in DOMAIN env[n] : env'[n][g] = IF g = f THEN v ELSE env[n][g]
      BY <3>1
    <3> QED
      BY <1>3, <3>1, <3>2, <3>3 DEF EnvironmentOf
  <2> QED
    BY <2>1, <2>2
<1>6. edits' \in 0 .. MaxEdits
  BY MeshAdmissionAssumption DEF SetEnv, MeshInv
<1>7. UNCHANGED <<vault, envelope, shareFiles, writeFaults>>
  BY DEF SetEnv
<1>8. up' = up
  BY <1>7 DEF up
<1>9. \A m \in up' : Booted(m)'
  <2> SUFFICES ASSUME NEW m \in up' PROVE Booted(m)'
    OBVIOUS
  <2>1. m # n /\ m \in Node
    BY <1>8 DEF SetEnv, up
  <2>2. env'[m] = env[m] /\ Booted(m)
    BY <1>4, <1>8, <2>1 DEF MeshInv
  <2> QED
    BY <1>7, <2>2, BootedStays
<1>10. FilesFollowViews'
  BY <1>7 DEF MeshInv, FilesFollowViews
<1> QED
  BY <1>4, <1>5, <1>6, <1>7, <1>9, <1>10 DEF MeshInv

\* A boot writes at most the envelope of its own directory, and who it takes up
\* has passed the checks.
LEMMA BootKeeps ==
    ASSUME MeshInv, NEW n \in Node, NEW written \in BOOLEAN, Boot(n, written)
    PROVE  MeshInv'
<1> DEFINE c == Config(env[n])
           roster == SeatGenesis(c)
           found == envelope[n][c.dir]
           pass == StorePassphrase(c, found, written)
           clear == EffectiveSharePassphrase(c)
<1>1. Sane(n, c)
  BY ConfigIsSane DEF MeshInv
<1>2. found \in Passphrases \cup {"none"}
  BY <1>1 DEF MeshInv, Sane
<1>3. ValidateHygiene(c) /\ BuildReachesStore(c, roster)
  BY DEF Boot, FromEnv
<1>4. writeFaults' \in 0 .. MaxWriteFaults
  BY MeshAdmissionAssumption DEF Boot, MeshInv
<1>5. /\ envelope' \in [Node -> [Dirs -> Passphrases \cup {"none"}]]
      /\ \A m \in Node \ {n} : envelope'[m] = envelope[m]
  <2>1. clear # "unset" => clear \in Passphrases
    BY <1>1 DEF Sane, EffectiveSharePassphrase, Given, Passphrases
  <2>2. CASE envelope' = envelope
    BY <2>2 DEF MeshInv
  <2>3. CASE SealsEnvelope(n, c) /\ envelope' = [envelope EXCEPT ![n][c.dir] = clear]
    <3>1. clear \in Passphrases
      BY <2>1, <2>3 DEF SealsEnvelope
    <3> QED
      BY <2>3, <3>1 DEF MeshInv
  <2> QED
    BY <2>2, <2>3 DEF Boot
<1>6. \A m \in Node \ {n} : vault'[m] = vault[m]
  BY DEF Boot, MeshInv
<1>7. /\ vault' = [m \in Node |-> vault'[m]]
      /\ \A m \in Node : vault'[m].up \in BOOLEAN
  BY DEF Boot, MeshInv
<1>8. \A m \in up' \ {n} : Booted(m)'
  <2> SUFFICES ASSUME NEW m \in up', m # n PROVE Booted(m)'
    OBVIOUS
  <2>1. m \in Node \ {n} /\ vault'[m] = vault[m] /\ m \in up /\ env'[m] = env[m]
    BY <1>6 DEF up, Boot
  <2> QED
    BY <2>1, <1>5, BootedStays DEF MeshInv
<1>9. n \in up' => Booted(n)'
  <2> SUFFICES ASSUME n \in up' PROVE Booted(n)'
    OBVIOUS
  <2>1. /\ pass # "refused"
        /\ vault'[n] = [up |-> TRUE, config |-> c, roster |-> roster, pass |-> pass,
                        measurement |-> Measurement(c, Len(roster))]
    BY DEF Boot, MeshInv, up
  <2> DEFINE after == EnvelopeAfter(c, found, written)
  <2>2. /\ pass \in Passphrases \cup {"closed"}
        /\ LabSecretMay(c, pass)
        /\ StoreBackend(c) # "closed" => pass = SecretOf(c, after)
    <3>1. Sane(n, c) /\ ValidateHygiene(c) /\ found \in Passphrases \cup {"none"}
          /\ StorePassphrase(c, found, written) # "refused"
      BY <1>1, <1>2, <1>3, <2>1
    <3> HIDE DEF c, found
    <3> QED
      BY <3>1, PassphraseOpens
  <2>3. envelope'[n][c.dir] = after
    <3>2. c.dir \in Dirs /\ n \in Node
      BY <1>1 DEF Sane
    <3>3. envelope' = IF written /\ SealsEnvelope(n, c)
                      THEN [envelope EXCEPT ![n][c.dir] = clear] ELSE envelope
      BY DEF Boot
    <3> HIDE DEF c
    <3> QED
      BY <3>2, <3>3 DEF MeshInv, SealsEnvelope, EnvelopeAfter
  <2>4. View(n)'.secret = SecretOf(c, after)
    <3> HIDE DEF c, roster, pass, clear, after
    <3> QED
      BY <2>1, <2>3 DEF View, SecretOf
  <2>5. /\ vault'[n].config = c /\ vault'[n].roster = roster /\ vault'[n].pass = pass
        /\ vault'[n].measurement = Measurement(c, Len(roster))
    BY <2>1
  <2>6. /\ c.hardened = IsHardened(env'[n]) /\ c.ceremony = CeremonyOf(env'[n])
        /\ c.ceremony \in {"lab", "staging", "production"}
    BY DEF Config, Boot, FromEnv, Parses
  <2> HIDE DEF c, pass, clear, after
  <2> QED
    BY <1>1, <1>3, <2>2, <2>4, <2>5, <2>6 DEF Booted, IsHardened, CeremonyOf, Given
<1>10. UNCHANGED <<env, edits, shareFiles>>
  BY DEF Boot
<1>11. FilesFollowViews'
  BY <1>10 DEF MeshInv, FilesFollowViews
<1>12. /\ edits' \in 0 .. MaxEdits
       /\ env' = [m \in Node |-> env'[m]]
       /\ \A m \in Node : EnvironmentOf(m, env'[m])
  BY <1>10 DEF MeshInv
<1> QED
  BY <1>4, <1>5, <1>7, <1>8, <1>9, <1>11, <1>12 DEF MeshInv

\* A vault that ends leaves what it wrote.
LEMMA StopKeeps ==
    ASSUME MeshInv, NEW n \in Node, Stop(n)
    PROVE  MeshInv'
<1>1. UNCHANGED <<env, edits, envelope, shareFiles, writeFaults>>
  BY DEF Stop
<1>2. vault' = [m \in Node |-> IF m = n THEN Down ELSE vault[m]]
  BY DEF Stop, MeshInv
<1>3. /\ vault' = [m \in Node |-> vault'[m]]
      /\ \A m \in Node : vault'[m].up \in BOOLEAN
  BY <1>2 DEF MeshInv, Down
<1>4. \A m \in up' : m \in up /\ vault'[m] = vault[m]
  BY <1>2 DEF up, Down
<1>5. \A m \in up' : Booted(m)'
  BY <1>1, <1>4, BootedStays DEF MeshInv
<1>6. FilesFollowViews'
  BY <1>1 DEF MeshInv, FilesFollowViews
<1> QED
  BY <1>1, <1>3, <1>5, <1>6 DEF MeshInv

\* A new share file is the file of the view of its runtime.
LEMMA PutShareKeeps ==
    ASSUME MeshInv, NEW n \in Node, PutShare(n)
    PROVE  MeshInv'
<1> DEFINE new == [file |-> SealedUnder(n), view |-> View(n)]
<1>1. UNCHANGED <<env, edits, vault, envelope, writeFaults>> /\ n \in up
  BY DEF PutShare, up
<1>2. new.file = FileOf(new.view) /\ new.view.backend # "closed"
  <2>1. StoreBackend(cfg(n)) # "closed" /\ Booted(n)
    BY <1>1, SealingStores DEF PutShare, MeshInv
  <2>2. View(n).backend = StoreBackend(cfg(n))
    BY DEF View, cfg
  <2> QED
    BY <2>1, <2>2, SealedUnderView DEF cfg
<1>3. FilesFollowViews'
  <2> HIDE DEF new
  <2>1. PICK kept \in SUBSET shareFiles[n] : shareFiles' = [shareFiles EXCEPT ![n] = kept \cup {new}]
    BY DEF PutShare, new
  <2> QED
    BY <1>2, <2>1 DEF MeshInv, FilesFollowViews
<1>4. up' = up /\ \A m \in up' : Booted(m)'
  <2>1. up' = up
    BY <1>1 DEF up
  <2> QED
    BY <1>1, <2>1, BootedStays DEF MeshInv
<1> QED
  BY <1>1, <1>3, <1>4 DEF MeshInv

\* Requests and answers touch nothing else.
LEMMA QuietKeeps ==
    ASSUME MeshInv, UNCHANGED <<env, edits, vault, envelope, shareFiles, writeFaults>>
    PROVE  MeshInv'
<1>1. up' = up
  BY DEF up
<1>2. \A m \in up' : Booted(m)'
  BY <1>1, BootedStays DEF MeshInv
<1>3. FilesFollowViews'
  BY DEF MeshInv, FilesFollowViews
<1> QED
  BY <1>2, <1>3 DEF MeshInv

\* Every step of the mesh keeps the invariant.
LEMMA MeshStep ==
    ASSUME MeshInv, [Next]_vars
    PROVE  MeshInv'
<1>1. ASSUME NEW n \in Node, Step(n) PROVE MeshInv'
  <2>1. CASE SetEnv(n)
    BY <2>1, SetEnvKeeps
  <2>2. ASSUME NEW written \in BOOLEAN, Boot(n, written) PROVE MeshInv'
    BY <2>2, BootKeeps
  <2>3. CASE Stop(n)
    BY <2>3, StopKeeps
  <2>4. CASE PutShare(n)
    BY <2>4, PutShareKeeps
  <2>5. CASE Serve(n)
    BY <2>5, QuietKeeps DEF Serve
  <2> QED
    BY <1>1, <2>1, <2>2, <2>3, <2>4, <2>5 DEF Step
<1>2. CASE Answer
  BY <1>2, QuietKeeps DEF Answer
<1>3. CASE UNCHANGED vars
  BY <1>3, QuietKeeps DEF vars
<1> QED
  BY <1>1, <1>2, <1>3 DEF Next

\* In every reachable state of the mesh.
LEMMA MeshInvariance == Spec => []MeshInv
BY MeshInit, MeshStep, PTL DEF Spec

\* A sealed share opens after any number of restarts and edits, while directory,
\* store, passphrase and pin stand (put_share, get_share, resolve_aead_passphrase).
THEOREM SharesOpen == Spec => []SealedShareOpens
<1>1. MeshInv => SealedShareOpens
  <2> SUFFICES ASSUME MeshInv, NEW n \in up, NEW s \in shareFiles[n], s.view = View(n)
               PROVE  Opens(n, s)
    BY DEF SealedShareOpens
  <2>1. Booted(n) /\ s.file = FileOf(View(n)) /\ View(n).backend # "closed"
    BY DEF MeshInv, FilesFollowViews, up
  <2>2. StoreBackend(cfg(n)) # "closed"
    BY <2>1 DEF View, cfg
  <2> QED
    BY <2>1, <2>2, SealedUnderView, OpenStoresSeal DEF Opens, cfg
<1> QED
  BY <1>1, MeshInvariance, PTL

-----------------------------------------------------------------------------
(***************************************************************************)
(* The genesis roster.                                                     *)
(***************************************************************************)

\* This vault first, then its peers in the order of the seed list.
LEMMA CandidatesListed ==
    ASSUME NEW n, NEW c, Sane(n, c)
    PROVE  /\ Len(c.peers) \in Nat /\ DOMAIN c.peers = 1 .. Len(c.peers)
           /\ \A i \in 1 .. Len(c.peers) : c.peers[i] \in 1 .. PadBase - 1
           /\ SeatingCandidates(c) = [i \in 1 .. Len(c.peers) + 1 |->
                 IF i = 1 THEN [id |-> c.id, tier |-> c.tier]
                 ELSE [id |-> c.peers[i - 1], tier |-> PeerTier(c, c.peers[i - 1])]]
<1> DEFINE L == Len(c.peers)
           first == <<[id |-> c.id, tier |-> c.tier]>>
           others == [i \in DOMAIN c.peers |-> [id |-> c.peers[i], tier |-> PeerTier(c, c.peers[i])]]
           T == {[id |-> c.id, tier |-> c.tier]} \cup
                {[id |-> c.peers[i], tier |-> PeerTier(c, c.peers[i])] : i \in DOMAIN c.peers}
<1>1. L \in Nat /\ DOMAIN c.peers = 1 .. L /\ \A i \in 1 .. L : c.peers[i] \in 1 .. PadBase - 1
  BY LenProperties, ElementOfSeq DEF Sane
<1>2. first \in Seq(T) /\ Len(first) = 1
  OBVIOUS
<1>3. others \in Seq(T) /\ Len(others) = L
  BY <1>1
<1>4. /\ first \o others \in Seq(T) /\ Len(first \o others) = 1 + L
      /\ \A i \in 1 .. 1 + L : (first \o others)[i] =
            IF i <= 1 THEN first[i] ELSE others[i - 1]
  BY <1>2, <1>3, ConcatProperties
<1>5. DOMAIN (first \o others) = 1 .. L + 1
  BY <1>1, <1>4, LenProperties
<1>6. \A i \in 1 .. L + 1 : (first \o others)[i] =
          IF i = 1 THEN [id |-> c.id, tier |-> c.tier]
          ELSE [id |-> c.peers[i - 1], tier |-> PeerTier(c, c.peers[i - 1])]
  BY <1>1, <1>4
<1>7. first \o others = [i \in 1 .. L + 1 |-> (first \o others)[i]]
  BY <1>4, <1>5, LenProperties
<1> HIDE DEF first, others
<1> QED
  BY <1>1, <1>6, <1>7 DEF SeatingCandidates, first, others

\* Pads come after the candidates, under ids of their own.
LEMMA PadsListed ==
    ASSUME NEW n, NEW c, Sane(n, c)
    PROVE  LET s == SeatingCandidates(c)
               N == EffectiveGenesisN(c)
               size == IF N > Len(c.peers) + 1 THEN N ELSE Len(c.peers) + 1
           IN /\ N \in Nat
              /\ Padded(s, N) = [i \in 1 .. size |->
                    IF i <= Len(c.peers) + 1 THEN s[i]
                    ELSE [id |-> PadBase + i - 1, tier |-> "domestic"]]
<1> DEFINE s == SeatingCandidates(c)
           N == EffectiveGenesisN(c)
           M == Len(c.peers) + 1
           K == IF N > M THEN N - M ELSE 0
           size == IF N > M THEN N ELSE M
           pads == [k \in 1 .. K |-> [id |-> PadBase + M + k - 1, tier |-> "domestic"]]
           T == {s[i] : i \in 1 .. M} \cup {pads[k] : k \in 1 .. K}
<1>1. M \in Nat
  BY CandidatesListed
<1>2. N \in Nat
  BY CandidatesListed DEF EffectiveGenesisN, Sane
<1>3. K \in Nat /\ size \in Nat /\ size = M + K
  BY <1>1, <1>2
<1>4. s \in Seq(T) /\ Len(s) = M
  <2>1. s = [i \in 1 .. M |-> s[i]]
    BY CandidatesListed
  <2> HIDE DEF s, pads, K, M
  <2> QED
    BY <1>1, <2>1
<1>5. pads \in Seq(T) /\ Len(pads) = K
  <2>1. pads = [k \in 1 .. K |-> pads[k]]
    OBVIOUS
  <2> HIDE DEF s, pads, K, M
  <2> QED
    BY <1>3, <2>1
<1>6. /\ s \o pads \in Seq(T) /\ Len(s \o pads) = M + K
      /\ \A i \in 1 .. M + K : (s \o pads)[i] = IF i <= M THEN s[i] ELSE pads[i - M]
  <2> HIDE DEF s, pads, M, K, T
  <2> QED
    BY <1>4, <1>5, ConcatProperties
<1>7. s \o pads = [i \in 1 .. size |-> (s \o pads)[i]]
  <2> HIDE DEF s, pads, M, K, T, size
  <2> QED
    BY <1>3, <1>6, LenProperties
<1>8. \A i \in 1 .. size : (s \o pads)[i] = IF i <= M THEN s[i]
                              ELSE [id |-> PadBase + i - 1, tier |-> "domestic"]
  <2> SUFFICES ASSUME NEW i \in 1 .. size, ~(i <= M)
               PROVE  pads[i - M] = [id |-> PadBase + i - 1, tier |-> "domestic"]
    BY <1>3, <1>6
  <2>1. i - M \in 1 .. K /\ PadBase + M + (i - M) - 1 = PadBase + i - 1
    <3> HIDE DEF M, K, size
    <3> QED
      BY <1>1, <1>3 DEF PadBase
  <2> HIDE DEF s, M, K, size
  <2> QED
    BY <2>1
<1>9. Padded(s, N) = s \o pads
  <2>1. Len(s) = M
    BY <1>4
  <2> HIDE DEF s, N, M
  <2> QED
    BY <2>1 DEF Padded
<1> HIDE DEF s, N, M, pads, size
<1> QED
  BY <1>2, <1>7, <1>8, <1>9 DEF s, N, M, size

\* Every roster has a length.
LEMMA RosterHasLength ==
    ASSUME NEW n, NEW c, Sane(n, c)
    PROVE  Len(SeatGenesis(c)) \in Nat
<1> DEFINE N == EffectiveGenesisN(c)
           P == Padded(SeatingCandidates(c), N)
           unique == FirstListed(P)
           count == IF N < Cardinality(unique) THEN N ELSE Cardinality(unique)
           J == {j \in DOMAIN P : \A k \in 1 .. j - 1 : P[k].id # P[j].id}
<1>1. N \in Nat /\ \E size \in Nat : DOMAIN P = 1 .. size
  BY PadsListed, CandidatesListed
<1>2. IsFiniteSet(J)
  <2>1. PICK size \in Nat : DOMAIN P = 1 .. size
    BY <1>1
  <2>2. J \subseteq 1 .. size
    BY <2>1
  <2>3. IsFiniteSet(1 .. size)
    BY FS_Interval
  <2> HIDE DEF J
  <2> QED
    BY <2>2, <2>3, FS_Subset
<1>3. [j \in J |-> P[j]] \in Surjection(J, unique)
  <2> HIDE DEF P
  <2> QED
    BY DEF FirstListed, Surjection
<1>4. IsFiniteSet(unique)
  <2> HIDE DEF J, unique
  <2> QED
    BY <1>2, <1>3, FS_Surjection
<1>5. count \in Nat
  <2> HIDE DEF N, unique
  <2> QED
    BY <1>1, <1>4, FS_CardinalityType
<1>6. \E g : SeatGenesis(c) = [i \in 1 .. count |-> g[i].id]
  BY DEF SeatGenesis, SeatGenesisByTier
<1> HIDE DEF count
<1> QED
  BY <1>5, <1>6

-----------------------------------------------------------------------------
(***************************************************************************)
(* What is said about a request when it is answered.                       *)
(***************************************************************************)

\* A request for a treasury signature that is let through comes from the
\* settlement service, or with the static token in a lab ceremony.
LEMMA KfeAsks ==
    ASSUME NEW n, NEW x \in Callers, NEW r, NEW header, NEW claimed,
           AllowsRoute(Principal(cfg(n), x), RouteClass(r)),
           HandlerAccepts(n, r, Principal(cfg(n), x), header, claimed),
           RouteClass(r) = "kfe_settlement"
    PROVE  x.holder = Kfe \/ (cfg(n).auth = "static" /\ cfg(n).ceremony = "lab")
<1>1. r \in {"/v1/sign", "/v1/bitcoin/sign-psbt"}
  BY DEF RouteClass
<1>2. AuthorizeTreasurySign(cfg(n))
  BY <1>1 DEF HandlerAccepts
<1>3. CASE cfg(n).auth = "static"
  BY <1>2, <1>3 DEF AuthorizeTreasurySign
<1>4. CASE cfg(n).auth # "static"
  <2>1. Principal(cfg(n), x) = PrincipalFromCertSans(cfg(n), x)
    BY <1>4 DEF Principal
  <2>2. PrincipalFromCertSans(cfg(n), x).role = "kfe"
    <3>1. PrincipalFromCertSans(cfg(n), x).role \in {"kfe", "vault", "refused"}
      BY DEF PrincipalFromCertSans, Refused
    <3> QED
      BY <2>1, <3>1 DEF AllowsRoute
  <2>3. x.uri = "kfe"
    BY <2>2 DEF PrincipalFromCertSans, Refused
  <2> QED
    BY <2>3, CallerAssumption
<1> QED
  BY <1>3, <1>4

\* Behind mTLS a vault's certificate stands for the vault that holds it, if the
\* receiver knows that one.
LEMMA HolderIsNamed ==
    ASSUME NEW c, NEW x \in Callers, PrincipalFromCertSans(c, x).role = "vault",
           x.holder \in Known(c)
    PROVE  PrincipalFromCertSans(c, x).id = x.holder
<1>1. CASE x.uri = "vault"
  BY <1>1, CallerAssumption DEF PrincipalFromCertSans, Refused
<1>2. CASE x.uri # "vault"
  <2>1. x.uri = "server" /\ Cardinality(x.dns \cap Known(c)) = 1
    BY <1>2 DEF PrincipalFromCertSans, Refused
  <2>2. IsFiniteSet(x.dns \cap Known(c))
    BY CallerAssumption, FS_Intersection
  <2>3. PICK i : x.dns \cap Known(c) = {i}
    BY <2>1, <2>2, FS_Singleton
  <2>4. x.holder = i
    BY <2>1, <2>3, CallerAssumption
  <2> QED
    BY <2>1, <2>3, <2>4 DEF PrincipalFromCertSans
<1> QED
  BY <1>1, <1>2

\* A known vault that may ask counts as the holder of its certificate.
LEMMA SenderCounts ==
    ASSUME NEW n, NEW x \in Callers, NEW r \in {"/v1/dkg/round1", "/v1/day/vote"}, NEW header, NEW claimed,
           AllowsRoute(Principal(cfg(n), x), RouteClass(r)),
           HandlerAccepts(n, r, Principal(cfg(n), x), header, claimed),
           cfg(n).auth = "mtls", x.holder \in Known(cfg(n))
    PROVE  ActsAs(n, r, Principal(cfg(n), x), header, claimed) = x.holder
<1> DEFINE p == Principal(cfg(n), x)
<1>1. p = PrincipalFromCertSans(cfg(n), x)
  BY DEF Principal
<1>2. p.role = "vault"
  <2>1. p.role \in {"kfe", "vault", "refused"}
    BY <1>1 DEF PrincipalFromCertSans, Refused
  <2>2. RouteClass(r) = "vault_peer"
    BY DEF RouteClass
  <2> QED
    BY <2>1, <2>2 DEF AllowsRoute
<1>3. p.id = x.holder
  BY <1>1, <1>2, HolderIsNamed
<1>4. CASE r = "/v1/dkg/round1"
  BY <1>2, <1>3, <1>4 DEF HandlerAccepts, ActsAs
<1>5. CASE r = "/v1/day/vote"
  BY <1>2, <1>3, <1>5 DEF ActsAs, ResolveMeshCallerIdentity
<1> QED
  BY <1>4, <1>5

\* A seed list that names no vault twice, nor the vault itself, is counted once
\* for each vault that runs.
LEMMA OnlineAreUp ==
    ASSUME NEW n \in up, Sane(n, cfg(n)), IsFiniteSet(up),
           ~cfg(n).onlineStatic, cfg(n).peers # <<>>,
           ~(Cardinality(Known(cfg(n))) < 1 + Len(cfg(n).peers))
    PROVE  OnlineCount(n) \in Nat /\ OnlineCount(n) <= Cardinality(up)
<1> DEFINE c == cfg(n)
           L == Len(c.peers)
           f == [i \in 0 .. L |-> IF i = 0 THEN c.id ELSE c.peers[i]]
           Live == {i \in DOMAIN c.peers : /\ c.peers[i] \in up
                                           /\ c.auth = "static"
                                           /\ cfg(c.peers[i]).auth = "static"}
<1>1. L \in Nat /\ DOMAIN c.peers = 1 .. L /\ c.id = n
  BY LenProperties DEF Sane
<1>2. f \in Surjection(0 .. L, Known(c))
  BY <1>1 DEF Surjection, Known
<1>3. IsFiniteSet(0 .. L) /\ Cardinality(0 .. L) = L + 1
  BY <1>1, FS_Interval
<1>4. f \in Injection(0 .. L, Known(c))
  <2>1. IsFiniteSet(Known(c)) /\ Cardinality(Known(c)) <= L + 1
    BY <1>2, <1>3, FS_Surjection
  <2>2. Cardinality(Known(c)) \in Nat
    BY <2>1, FS_CardinalityType
  <2>3. Cardinality(Known(c)) = L + 1
    BY <1>1, <2>1, <2>2
  <2> QED
    BY <1>2, <1>3, <2>3, FS_SurjSameCardinalityImpliesInj
<1>5. IsFiniteSet(Live) /\ ~(0 \in Live) /\ Live \subseteq 1 .. L
  <2>1. Live \subseteq 1 .. L /\ Live \subseteq 0 .. L
    BY <1>1
  <2> QED
    BY <1>3, <2>1, FS_Subset
<1>6. IsFiniteSet(Live \cup {0}) /\ Cardinality(Live \cup {0}) = Cardinality(Live) + 1
  BY <1>5, FS_AddElement
<1> DEFINE g == [i \in Live \cup {0} |-> f[i]]
<1>7. g \in Injection(Live \cup {0}, up)
  <2>1. Live \cup {0} \subseteq 0 .. L
    BY <1>1, <1>5
  <2>2. \A i \in Live \cup {0} : f[i] \in up
    BY <1>1, <1>5, <2>1
  <2>3. \A i, j \in Live \cup {0} : f[i] = f[j] => i = j
    BY <1>4, <2>1 DEF Injection, IsInjective
  <2> HIDE DEF f, Live
  <2> QED
    BY <2>2, <2>3 DEF Injection, IsInjective
<1>8. Cardinality(Live \cup {0}) <= Cardinality(up)
  <2> HIDE DEF g, Live
  <2> QED
    BY <1>7, FS_Injection
<1>9. Probed(n) = 1 + Cardinality(Live)
  BY DEF Probed
<1>10. Cardinality(Live) \in Nat /\ Cardinality(up) \in Nat
  BY <1>5, FS_CardinalityType
<1>11. \/ OnlineCount(n) = Probed(n)
       \/ /\ OnlineCount(n) = c.onlineCount
          /\ c.onlineCount >= 0 /\ c.onlineCount < Probed(n)
  BY DEF OnlineCount
<1>12. Probed(n) \in Nat /\ Probed(n) <= Cardinality(up)
  <2> HIDE DEF Live
  <2> QED
    BY <1>6, <1>8, <1>9, <1>10
<1>13. c.onlineCount \in Nat \cup {-1}
  BY DEF Sane
<1> QED
  <2> HIDE DEF c
  <2> QED
    BY <1>10, <1>11, <1>12, <1>13

\* A request that is served is justified.
LEMMA ServeJustified ==
    ASSUME MeshInv, NEW n \in Node, Serve(n)
    PROVE  CallInv'
<1>1. PICK x \in Callers, r \in Route, header \in Name \cup {Kfe}, claimed \in Name \cup {Kfe} :
          /\ AllowsRoute(Principal(cfg(n), x), RouteClass(r))
          /\ HandlerAccepts(n, r, Principal(cfg(n), x), header, claimed)
          /\ last' = [node |-> n, route |-> r,
                      as |-> ActsAs(n, r, Principal(cfg(n), x), header, claimed),
                      actor |-> x.holder, live |-> Cardinality(up)]
  BY DEF Serve
<1>2. /\ last'.node = n /\ last'.route = r /\ last'.actor = x.holder /\ last'.live = Cardinality(up)
      /\ last'.as = ActsAs(n, r, Principal(cfg(n), x), header, claimed)
  BY <1>1
<1>3. UNCHANGED vault /\ n \in up /\ Booted(n)
  BY DEF Serve, MeshInv, up
<1>4. up' = up /\ cfg(n)' = cfg(n) /\ SigningT(n)' = SigningT(n)
  BY <1>3 DEF up, cfg, SigningT
<1>5. TreasuryByKfe'
  BY <1>1, <1>2, <1>4, KfeAsks DEF TreasuryByKfe
<1>6. CountsForSender'
  BY <1>1, <1>2, <1>4, SenderCounts DEF CountsForSender
<1>7. SignStopsBelowThreshold'
  <2> SUFFICES ASSUME r = "/v1/sign", ~cfg(n).onlineStatic, cfg(n).peers # <<>>,
                      ~(Cardinality(Known(cfg(n))) < 1 + Len(cfg(n).peers))
               PROVE  Cardinality(up) >= SigningT(n)
    BY <1>2, <1>4 DEF SignStopsBelowThreshold
  <2>1. OnlineCount(n) >= SigningT(n)
    BY <1>1 DEF HandlerAccepts
  <2>2. IsFiniteSet(up)
    <3>1. up \subseteq 1 .. PadBase - 1
      BY MeshAdmissionAssumption DEF up
    <3>2. IsFiniteSet(1 .. PadBase - 1)
      <4>1. 1 \in Int /\ PadBase - 1 \in Int
        BY DEF PadBase
      <4> QED
        BY <4>1, FS_Interval
    <3> QED
      BY <3>1, <3>2, FS_Subset
  <2>3. OnlineCount(n) \in Nat /\ OnlineCount(n) <= Cardinality(up)
    BY <1>3, <2>2, OnlineAreUp DEF Booted, cfg
  <2>4. SigningT(n) \in Int /\ Cardinality(up) \in Nat
    <3>1. Len(vault[n].roster) \in Nat
      BY <1>3, RosterHasLength DEF Booted
    <3>2. Cardinality(up) \in Nat
      BY <2>2, FS_CardinalityType
    <3> QED
      BY <3>1, <3>2 DEF SigningT, QuorumTwoThirds
  <2> QED
    BY <2>1, <2>3, <2>4
<1> QED
  BY <1>2, <1>3, <1>4, <1>5, <1>6, <1>7 DEF CallInv, CallsJustified

\* Every step leaves the last request justified, or clears it.
LEMMA CallStep ==
    ASSUME MeshInv, CallInv, [Next]_vars
    PROVE  CallInv'
<1>1. ASSUME last = NoCall, NEW n \in Node, Step(n), ~Serve(n) PROVE CallInv'
  <2>1. last' = NoCall
    BY <1>1 DEF Step, SetEnv, Boot, Stop, PutShare
  <2> QED
    BY <2>1 DEF CallInv, CallsJustified, TreasuryByKfe, CountsForSender, SignStopsBelowThreshold
<1>2. ASSUME NEW n \in Node, Serve(n) PROVE CallInv'
  BY <1>2, ServeJustified
<1>3. CASE Answer
  <2>1. last' = NoCall
    BY <1>3 DEF Answer
  <2> QED
    BY <2>1 DEF CallInv, CallsJustified, TreasuryByKfe, CountsForSender, SignStopsBelowThreshold
<1>4. CASE UNCHANGED vars
  <2>1. UNCHANGED <<last, vault>>
    BY <1>4 DEF vars
  <2>2. up' = up /\ (\A n : cfg(n)' = cfg(n) /\ SigningT(n)' = SigningT(n))
    BY <2>1 DEF up, cfg, SigningT
  <2> QED
    BY <2>1, <2>2 DEF CallInv, CallsJustified, TreasuryByKfe, CountsForSender, SignStopsBelowThreshold
<1> QED
  BY <1>1, <1>2, <1>3, <1>4 DEF Next

\* In every reachable state of the mesh.
LEMMA CallInvariance == Spec => []CallInv
<1>1. Init => CallInv
  BY DEF Init, CallInv, CallsJustified, TreasuryByKfe, CountsForSender, SignStopsBelowThreshold
<1> QED
  BY <1>1, CallStep, MeshInvariance, PTL DEF Spec

\* A request that was served came from who it counts for, from someone who may
\* ask, and from a mesh that can answer, for any mesh and any certificates the
\* CA issues (principal_from_cert_sans, authorize_treasury_sign, online_count).
THEOREM CallsAreJustified == Spec => []CallsJustified
<1>1. CallInv => CallsJustified
  BY DEF CallInv
<1> QED
  BY <1>1, CallInvariance, PTL

\* What the lab allows stays in the lab, for every combination of the variables
\* and every history of edits, boots and failed writes (validate_hygiene, build,
\* resolve_aead_passphrase).
THEOREM LabIsKept == Spec => []LabStaysInLab
<1>1. MeshInv /\ CallInv => TypeOK
  <2> SUFFICES ASSUME MeshInv, CallInv PROVE TypeOK
    OBVIOUS
  <2>1. ASSUME NEW n \in up
        PROVE  /\ n \in Range(vault[n].roster) /\ Len(vault[n].roster) >= 2
               /\ vault[n].pass \in Passphrases \cup {"closed"}
    <3>1. Booted(n)
      BY DEF MeshInv
    <3>2. cfg(n).id = n /\ cfg(n).id \in Range(vault[n].roster)
      BY <3>1 DEF Booted, Sane, BuildReachesStore, cfg
    <3>3. Len(vault[n].roster) >= 2 /\ vault[n].pass \in Passphrases \cup {"closed"}
      BY <3>1 DEF Booted, BuildReachesStore
    <3> QED
      BY <3>2, <3>3
  <2> QED
    BY <2>1 DEF TypeOK, MeshInv, CallInv
<1>2. MeshInv => OutsideLabIsClosed
  <2> SUFFICES ASSUME MeshInv, NEW n \in up
               PROVE  LET c == cfg(n) IN
                      /\ c.ceremony # "lab" =>
                             c.auth = "mtls" /\ c.dkg = "wire" /\ c.attest # "sim" /\ c.root # "default"
                      /\ c.ceremony = "production" =>
                             ~c.stub /\ StoreBackend(c) # "stub" /\ c.transport = "tor" /\ ~c.publish
                      /\ c.hardened => c.attest # "sim"
    BY DEF OutsideLabIsClosed
  <2>1. ValidateHygiene(cfg(n))
    BY DEF MeshInv, Booted, cfg
  <2>2. cfg(n).ceremony # "lab" =>
            cfg(n).auth = "mtls" /\ cfg(n).dkg = "wire" /\ cfg(n).attest # "sim" /\ cfg(n).root # "default"
    BY <2>1 DEF ValidateHygiene, ValidateCeremony, ValidateLabRoot
  <2>3. cfg(n).ceremony = "production" =>
            ~cfg(n).stub /\ cfg(n).transport = "tor" /\ ~cfg(n).publish
    BY <2>1 DEF ValidateHygiene, ValidateTransport
  <2>4. cfg(n).ceremony = "production" => StoreBackend(cfg(n)) # "stub"
    BY DEF StoreBackend
  <2>5. cfg(n).hardened => cfg(n).attest # "sim"
    BY <2>1 DEF ValidateHygiene, ValidateAttestationPolicy
  <2> QED
    BY <2>2, <2>3, <2>4, <2>5
<1>3. MeshInv => AllInterfacesAreGuarded
  <2> SUFFICES ASSUME MeshInv, NEW n \in up, cfg(n).listen = "all"
               PROVE  /\ cfg(n).ceremony # "production"
                      /\ cfg(n).publish =>
                             /\ env[n].kero \notin {"staging", "production"} /\ ~env[n].refuseSim
                             /\ cfg(n).ceremony = "lab" \/ env[n].ceremony = "staging"
    BY DEF AllInterfacesAreGuarded
  <2>1. /\ ValidateHygiene(cfg(n)) /\ cfg(n).ceremony \in {"lab", "staging", "production"}
        /\ cfg(n).hardened = IsHardened(env[n]) /\ cfg(n).ceremony = CeremonyOf(env[n])
    BY DEF MeshInv, Booted, cfg
  <2>2. /\ cfg(n).ceremony # "production"
        /\ cfg(n).hardened => ~cfg(n).publish
    BY <2>1 DEF ValidateHygiene, ValidateListenBind
  <2> QED
    BY <2>1, <2>2 DEF IsHardened, CeremonyOf, Given
<1>4. MeshInv => LabSecretStaysInLab
  BY DEF MeshInv, Booted, LabSecretMay, LabSecretStaysInLab, cfg
<1> QED
  BY <1>1, <1>2, <1>3, <1>4, MeshInvariance, CallInvariance, PTL DEF LabStaysInLab

-----------------------------------------------------------------------------
(***************************************************************************)
(* Two vaults seat one roster: when their candidates are the same set, no  *)
(* id has two tiers in it, so the order of the lists does not matter.      *)
(***************************************************************************)

\* A set of naturals has a least member.
LEMMA LeastNat ==
    ASSUME NEW S \in SUBSET Nat, S # {}
    PROVE  \E x \in S : \A y \in S : x <= y
<1>1. PICK x \in S : \A y \in S : ~ (<<y, x>> \in OpToRel(<, Nat))
  BY WFMin, NatLessThanWellFounded, Zenon
<1>2. \A y \in S : ~ (y < x)
  BY <1>1 DEF OpToRel
<1> QED
  BY <1>2

\* Of a list in which an id stands for one candidate, everything is listed first.
LEMMA ConsistentList ==
    ASSUME NEW P, NEW size \in Nat, DOMAIN P = 1 .. size,
           \A i, j \in 1 .. size : P[i].id = P[j].id => P[i] = P[j]
    PROVE  FirstListed(P) = {P[i] : i \in 1 .. size}
<1>1. ASSUME NEW i \in 1 .. size
      PROVE  \E j \in 1 .. size : P[j] = P[i] /\ \A k \in 1 .. j - 1 : P[k].id # P[j].id
  <2> DEFINE Same == {j \in 1 .. size : P[j].id = P[i].id}
  <2>1. PICK j \in Same : \A k \in Same : j <= k
    <3>1. Same \in SUBSET Nat /\ i \in Same
      OBVIOUS
    <3> HIDE DEF Same
    <3> QED
      BY <3>1, LeastNat
  <2>2. j \in 1 .. size /\ P[j] = P[i]
    BY <2>1
  <2>3. ASSUME NEW k \in 1 .. j - 1 PROVE P[k].id # P[j].id
    <3>1. k \in 1 .. size /\ k < j
      BY <2>2
    <3> QED
      BY <2>1, <2>2, <3>1
  <2> QED
    BY <2>2, <2>3
<1> DEFINE Firsts == {j \in 1 .. size : \A k \in 1 .. j - 1 : P[k].id # P[j].id}
<1>2. FirstListed(P) = {P[i] : i \in Firsts}
  BY DEF FirstListed
<1>3. ASSUME NEW i \in 1 .. size PROVE \E j \in Firsts : P[j] = P[i]
  BY <1>1
<1>4. Firsts \subseteq 1 .. size
  OBVIOUS
<1> HIDE DEF Firsts
<1>5. {P[i] : i \in 1 .. size} \subseteq {P[i] : i \in Firsts}
  BY <1>3
<1>6. {P[i] : i \in Firsts} \subseteq {P[i] : i \in 1 .. size}
  BY <1>4
<1> QED
  BY <1>2, <1>5, <1>6

\* The candidates of a vault: itself, and each peer with the tier it counts for.
LEMMA CandidateIs ==
    ASSUME NEW n, NEW c, Sane(n, c)
    PROVE  \A x : x \in {SeatingCandidates(c)[i] : i \in DOMAIN SeatingCandidates(c)} <=>
               \/ x = [id |-> c.id, tier |-> c.tier]
               \/ \E p \in Range(c.peers) : x = [id |-> p, tier |-> PeerTier(c, p)]
<1> DEFINE s == SeatingCandidates(c)
           M == Len(c.peers) + 1
<1>1. /\ M \in Nat /\ DOMAIN c.peers = 1 .. M - 1 /\ DOMAIN s = 1 .. M
      /\ \A i \in 1 .. M : s[i] = IF i = 1 THEN [id |-> c.id, tier |-> c.tier]
                                  ELSE [id |-> c.peers[i - 1], tier |-> PeerTier(c, c.peers[i - 1])]
  BY CandidatesListed
<1> HIDE DEF s, M
<1>2. s[1] = [id |-> c.id, tier |-> c.tier] /\ 1 \in 1 .. M
  <2>1. M >= 1
    BY CandidatesListed DEF M
  <2> QED
    BY <1>1, <2>1
<1>3. ASSUME NEW i \in DOMAIN c.peers
      PROVE  i + 1 \in DOMAIN s /\ s[i + 1] = [id |-> c.peers[i], tier |-> PeerTier(c, c.peers[i])]
  <2>1. i + 1 \in 1 .. M /\ i + 1 # 1 /\ (i + 1) - 1 = i
    BY <1>1
  <2> QED
    BY <1>1, <2>1
<1>4. ASSUME NEW i \in DOMAIN s, i # 1
      PROVE  i - 1 \in DOMAIN c.peers /\ s[i] = [id |-> c.peers[i - 1], tier |-> PeerTier(c, c.peers[i - 1])]
  <2>1. i - 1 \in 1 .. M - 1
    BY <1>1, <1>4
  <2> QED
    BY <1>1, <1>4, <2>1
<1>5. ASSUME NEW x, x \in {s[i] : i \in DOMAIN s}
      PROVE  \/ x = [id |-> c.id, tier |-> c.tier]
             \/ \E p \in Range(c.peers) : x = [id |-> p, tier |-> PeerTier(c, p)]
  BY <1>2, <1>4, <1>5 DEF Range
<1>6. [id |-> c.id, tier |-> c.tier] \in {s[i] : i \in DOMAIN s}
  BY <1>1, <1>2
<1>7. ASSUME NEW p \in Range(c.peers)
      PROVE  [id |-> p, tier |-> PeerTier(c, p)] \in {s[i] : i \in DOMAIN s}
  BY <1>3 DEF Range
<1> QED
  BY <1>5, <1>6, <1>7 DEF s

\* If two vaults have the same candidates, no id has two tiers among them.
LEMMA OneTierEach ==
    ASSUME NEW n, NEW a, Sane(n, a), NEW m, NEW b, Sane(m, b), n # m, SameView(a, b),
           NEW x \in {SeatingCandidates(a)[i] : i \in DOMAIN SeatingCandidates(a)},
           NEW y \in {SeatingCandidates(a)[i] : i \in DOMAIN SeatingCandidates(a)},
           x.id = y.id
    PROVE  x = y
<1> DEFINE A == {SeatingCandidates(a)[i] : i \in DOMAIN SeatingCandidates(a)}
           B == {SeatingCandidates(b)[i] : i \in DOMAIN SeatingCandidates(b)}
<1>1. A = B /\ x \in B /\ y \in B
  BY DEF SameView
<1>2. a.id = n /\ b.id = m
  BY DEF Sane
<1>3. CASE x.id # n
  <2>1. ASSUME NEW z \in A, z.id # n PROVE z = [id |-> z.id, tier |-> PeerTier(a, z.id)]
    <3>1. PICK p \in Range(a.peers) : z = [id |-> p, tier |-> PeerTier(a, p)]
      BY <1>2, <2>1, CandidateIs
    <3> QED
      BY <3>1
  <2> HIDE DEF A, B
  <2>2. x \in A /\ y \in A
    BY DEF A
  <2> QED
    BY <1>3, <2>1, <2>2
<1>4. CASE x.id = n
  <2>1. ASSUME NEW z \in B, z.id # m PROVE z = [id |-> z.id, tier |-> PeerTier(b, z.id)]
    <3>1. PICK p \in Range(b.peers) : z = [id |-> p, tier |-> PeerTier(b, p)]
      BY <1>2, <2>1, CandidateIs
    <3> QED
      BY <3>1
  <2> HIDE DEF A, B
  <2> QED
    BY <1>1, <1>4, <2>1
<1> QED
  BY <1>3, <1>4

\* Vault ids are below those of the pads.
LEMMA BelowPads ==
    ASSUME NEW n, NEW a, Sane(n, a), n \in 1 .. PadBase - 1
    PROVE  a.id < PadBase
BY DEF Sane, PadBase

\* The pads are numbered from PadBase on.
LEMMA PadIds ==
    ASSUME NEW k \in Nat, k >= 1
    PROVE  PadBase + k - 1 >= PadBase
BY DEF PadBase

\* What is listed with the pads is listed first.
LEMMA PaddedConsistent ==
    ASSUME NEW n, NEW a, Sane(n, a), n \in 1 .. PadBase - 1,
           NEW m, NEW b, Sane(m, b), n # m, SameView(a, b)
    PROVE  LET N == EffectiveGenesisN(a)
               M == Len(a.peers) + 1
           IN FirstListed(Padded(SeatingCandidates(a), N)) =
                {SeatingCandidates(a)[i] : i \in DOMAIN SeatingCandidates(a)}
                \cup {[id |-> PadBase + i - 1, tier |-> "domestic"] :
                          i \in M + 1 .. (IF N > M THEN N ELSE M)}
<1> DEFINE N == EffectiveGenesisN(a)
           M == Len(a.peers) + 1
           size == IF N > M THEN N ELSE M
           s == SeatingCandidates(a)
           P == Padded(s, N)
           A == {s[i] : i \in DOMAIN s}
           pad(i) == [id |-> PadBase + i - 1, tier |-> "domestic"]
<1>1. N \in Nat /\ P = [i \in 1 .. size |-> IF i <= M THEN s[i] ELSE pad(i)]
  BY PadsListed
<1>2. M \in Nat /\ DOMAIN s = 1 .. M
  BY CandidatesListed
<1>3. size \in Nat /\ M <= size
  BY <1>1, <1>2
<1>4. \A x \in A : x.id < PadBase
  <2> SUFFICES ASSUME NEW x \in A PROVE x.id < PadBase
    OBVIOUS
  <2>1. x = [id |-> a.id, tier |-> a.tier] \/ \E p \in Range(a.peers) : x = [id |-> p, tier |-> PeerTier(a, p)]
    BY CandidateIs
  <2>2. \A p \in Range(a.peers) : p < PadBase
    <3>1. \A i \in DOMAIN a.peers : a.peers[i] \in 1 .. PadBase - 1
      BY CandidatesListed
    <3> QED
      BY <3>1 DEF Range, PadBase
  <2>3. a.id < PadBase
    BY BelowPads
  <2> QED
    BY <2>1, <2>2, <2>3
<1>5. \A x, y \in A : x.id = y.id => x = y
  BY OneTierEach
<1>6. /\ \A i \in 1 .. M : i \in 1 .. size /\ P[i] \in A /\ P[i] = s[i]
      /\ \A i \in M + 1 .. size : i \in 1 .. size /\ P[i] = pad(i)
      /\ \A i \in 1 .. size : i \in 1 .. M \/ i \in M + 1 .. size
  <2> HIDE DEF s, M, size, P, N
  <2> QED
    BY <1>1, <1>2, <1>3 DEF A
<1>7. \A i, j \in 1 .. size : P[i].id = P[j].id => P[i] = P[j]
  <2> SUFFICES ASSUME NEW i \in 1 .. size, NEW j \in 1 .. size, P[i].id = P[j].id
               PROVE  P[i] = P[j]
    OBVIOUS
  <2> HIDE DEF s, M, size, P, N, A
  <2>0. \A k \in M + 1 .. size : P[k] = pad(k) /\ k \in Int /\ P[k].id = PadBase + k - 1 /\ P[k].id >= PadBase
    <3> SUFFICES ASSUME NEW k \in M + 1 .. size
                 PROVE  P[k] = pad(k) /\ k \in Int /\ P[k].id = PadBase + k - 1 /\ P[k].id >= PadBase
      OBVIOUS
    <3>1. k \in Nat /\ k >= 1
      BY <1>2, <1>3
    <3>2. PadBase + k - 1 >= PadBase
      BY <3>1, PadIds
    <3>3. P[k] = pad(k)
      BY <1>6
    <3>4. pad(k).id = PadBase + k - 1
      OBVIOUS
    <3> QED
      BY <3>1, <3>2, <3>3, <3>4
  <2>1. CASE i \in 1 .. M /\ j \in 1 .. M
    BY <2>1, <1>5, <1>6
  <2>2. CASE i \in M + 1 .. size /\ j \in M + 1 .. size
    <3>1. /\ P[i].id = PadBase + i - 1 /\ P[j].id = PadBase + j - 1 /\ i \in Int /\ j \in Int
          /\ P[i] = pad(i) /\ P[j] = pad(j)
      BY <2>0, <2>2
    <3>2. \A x, y \in Int : PadBase + x - 1 = PadBase + y - 1 => x = y
      BY DEF PadBase
    <3>3. PadBase + i - 1 = PadBase + j - 1
      BY <3>1
    <3>4. i = j
      BY <3>1, <3>2, <3>3
    <3> QED
      BY <3>1, <3>4
  <2>3. CASE i \in 1 .. M /\ j \in M + 1 .. size
    <3>1. P[i].id < PadBase /\ P[j].id = PadBase + j - 1 /\ j \in Int /\ P[j].id >= PadBase
      BY <2>0, <2>3, <1>4, <1>6
    <3> QED
      BY <3>1 DEF PadBase
  <2>4. CASE i \in M + 1 .. size /\ j \in 1 .. M
    <3>1. P[j].id < PadBase /\ P[i].id = PadBase + i - 1 /\ i \in Int /\ P[i].id >= PadBase
      BY <2>0, <2>4, <1>4, <1>6
    <3> QED
      BY <3>1 DEF PadBase
  <2> QED
    BY <1>6, <2>1, <2>2, <2>3, <2>4
<1>8. FirstListed(P) = {P[i] : i \in 1 .. size}
  <2>1. DOMAIN P = 1 .. size
    BY <1>1
  <2> HIDE DEF P, size
  <2> QED
    BY <1>3, <1>7, <2>1, ConsistentList
<1>9. {P[i] : i \in 1 .. size} = A \cup {pad(i) : i \in M + 1 .. size}
  <2> HIDE DEF s, M, size, P, N
  <2> QED
    BY <1>2, <1>6 DEF A
<1> HIDE DEF N, M, size, s, P
<1> QED
  BY <1>8, <1>9 DEF N, M, size, s, P

\* Two running vaults with one view of the mesh seat the same roster, whatever
\* the order of their seed lists and whichever of them is the local one
\* (seating_candidates, peer_tier, seat_genesis).
THEOREM RostersAreOne == Spec => []RostersAgree
<1>1. MeshInv => RostersAgree
  <2> SUFFICES ASSUME MeshInv, NEW n \in up, NEW m \in up, n < m, SameView(cfg(n), cfg(m))
               PROVE  vault[n].roster = vault[m].roster
    BY DEF RostersAgree
  <2> DEFINE a == cfg(n)
             b == cfg(m)
             N == EffectiveGenesisN(a)
             A == {SeatingCandidates(a)[i] : i \in DOMAIN SeatingCandidates(a)}
             B == {SeatingCandidates(b)[i] : i \in DOMAIN SeatingCandidates(b)}
  <2>1. Sane(n, a) /\ Sane(m, b) /\ n # m /\ n \in 1 .. PadBase - 1 /\ m \in 1 .. PadBase - 1
    <3>1. n \in 1 .. PadBase - 1 /\ m \in 1 .. PadBase - 1
      BY MeshAdmissionAssumption DEF up
    <3> QED
      <4>1. Booted(n) /\ Booted(m)
        BY DEF MeshInv
      <4>2. Sane(n, a) /\ Sane(m, b)
        BY <4>1 DEF Booted, cfg
      <4> HIDE DEF a, b
      <4> QED
        BY <3>1, <4>2
  <2>2. SameView(b, a) /\ EffectiveGenesisN(b) = N /\ Len(b.peers) = Len(a.peers) /\ A = B
    BY DEF SameView
  <2>3. vault[n].roster = SeatGenesis(a) /\ vault[m].roster = SeatGenesis(b)
    BY DEF MeshInv, Booted, cfg
  <2>4. FirstListed(Padded(SeatingCandidates(a), N)) = FirstListed(Padded(SeatingCandidates(b), N))
    <3> HIDE DEF a, b
    <3> DEFINE M == Len(a.peers) + 1
               pads == {[id |-> PadBase + i - 1, tier |-> "domestic"] :
                            i \in M + 1 .. (IF N > M THEN N ELSE M)}
    <3>0. SameView(a, b) /\ SameView(b, a)
      BY <2>2 DEF SameView
    <3>1. FirstListed(Padded(SeatingCandidates(a), N)) = A \cup pads
      BY <2>1, <3>0, PaddedConsistent
    <3>2. FirstListed(Padded(SeatingCandidates(b), N)) = B \cup pads
      <4>1. LET K == EffectiveGenesisN(b)
                Mb == Len(b.peers) + 1
            IN FirstListed(Padded(SeatingCandidates(b), K)) =
                 B \cup {[id |-> PadBase + i - 1, tier |-> "domestic"] :
                             i \in Mb + 1 .. (IF K > Mb THEN K ELSE Mb)}
        BY <2>1, <3>0, PaddedConsistent
      <4> QED
        BY <4>1, <2>2
    <3> HIDE DEF N, A, B, pads
    <3> QED
      BY <2>2, <3>1, <3>2
  <2> HIDE DEF a, b, N
  <2> QED
    BY <2>2, <2>3, <2>4 DEF SeatGenesis, SeatGenesisByTier, N
<1> QED
  BY <1>1, MeshInvariance, PTL
-----------------------------------------------------------------------------
(***************************************************************************)
(* vault-identityd.  While requests follow one another, one process at     *)
(* most is at work; the name identity-<id>.tmp is the file it has open,    *)
(* and it renames it over nothing.                                         *)
(***************************************************************************)

Writing(p) == at[p] \in {"open", "write", "rename"}

\* The types of the directory, the files and the processes.
StoreInv ==
    /\ keys \in Nat /\ clock \in Nat
    /\ {overlapped, overwrote, drift} \subseteq BOOLEAN
    /\ \E k \in Nat : DOMAIN content = 1 .. k
    /\ content \in [DOMAIN content -> 0 .. keys]
    /\ names \in [DOMAIN names -> DOMAIN content]
    /\ \A x, y \in DOMAIN names : names[x] = names[y] => x = y
    /\ at \in [Process -> {"idle", "read", "archive", "open", "write", "rename"}]
    /\ mine = [p \in Process |-> mine[p]] /\ fd = [p \in Process |-> fd[p]]
    /\ \A p \in Process : Writing(p) => mine[p] \in 1 .. keys
    /\ \A p \in Process : at[p] \in {"write", "rename"} => fd[p] \in DOMAIN content
    /\ told \subseteq 1 .. keys
    /\ memory \in told \cup {NoKey}

\* What holds of the store while no two requests have overlapped.
OrderInv ==
    /\ \A p, q \in Process : at[p] # "idle" /\ at[q] # "idle" => p = q
    /\ Has(Enc) => Entry(Enc) # Blank
    /\ \A p \in Process : Writing(p) => ~Has(Enc)
    /\ \A p \in Process : at[p] \in {"write", "rename"} => Has(Tmp) /\ names[Tmp] = fd[p]
    /\ \A p \in Process : at[p] = "rename" => content[fd[p]] = mine[p]
    /\ memory # NoKey /\ ~drift => Has(Enc) /\ Entry(Enc) = memory

\* The told keys are in the store under a name that no write takes away.
Stored == \A k \in told : \E name \in DOMAIN names \ {Tmp} : Entry(name) = k

IdentityInv ==
    /\ StoreInv
    /\ overlapped \/ OrderInv
    /\ overlapped \/ overwrote \/ Stored

\* A name of the directory that is set.
LEMMA NameSetInto ==
    ASSUME NEW f, NEW x, NEW S, f \in [DOMAIN f -> S], NEW v \in S
    PROVE  With(f, x, v) \in [DOMAIN With(f, x, v) -> S]
  BY DEF With

\* A name that is removed from the directory.
LEMMA NameRemoved ==
    ASSUME NEW f, NEW x
    PROVE  /\ DOMAIN Without(f, x) = DOMAIN f \ {x}
           /\ \A y \in DOMAIN f \ {x} : Without(f, x)[y] = f[y]
  BY DEF Without

\* The three kinds of names differ.
LEMMA NamesDiffer ==
    /\ Enc # Tmp
    /\ \A secs : Archive(secs) # Enc /\ Archive(secs) # Tmp
<1>1. Enc[1] = "enc" /\ Tmp[1] = "tmp" /\ \A secs : Archive(secs)[1] = "old"
  BY DEF Enc, Tmp, Archive
<1> QED
  BY <1>1

\* The empty store.
LEMMA IdentityInitInv == IdentityInit => IdentityInv
<1> SUFFICES ASSUME IdentityInit PROVE IdentityInv
  OBVIOUS
<1>1. DOMAIN content = {} /\ DOMAIN names = {} /\ {} = 1 .. 0
  BY DEF IdentityInit
<1>2. StoreInv
  <2>1. \E k \in Nat : DOMAIN content = 1 .. k
    BY <1>1
  <2>2. content \in [DOMAIN content -> 0 .. keys] /\ names \in [DOMAIN names -> DOMAIN content]
    BY <1>1 DEF IdentityInit
  <2> QED
    BY <1>1, <2>1, <2>2 DEF IdentityInit, StoreInv, Writing
<1>3. OrderInv
  BY <1>1, NamesDiffer DEF IdentityInit, OrderInv, Writing, Has
<1>4. Stored
  BY DEF IdentityInit, Stored
<1> QED
  BY <1>2, <1>3, <1>4 DEF IdentityInv

\* A request that begins alone finds every process idle.
LEMMA BeginsAlone ==
    ASSUME StoreInv, overlapped \/ OrderInv, NEW p \in Process, Begin(p)
    PROVE  /\ overlapped' \in BOOLEAN
           /\ ~overlapped' => ~overlapped /\ OrderInv /\ \A q \in Process : at[q] = "idle"
  BY DEF Begin, StoreInv

\* A fresh key is generated while the current name is free.
LEMMA GenerateKeeps ==
    ASSUME StoreInv, NEW p \in Process, Generate(p)
    PROVE  /\ keys' \in Nat /\ clock' \in Nat /\ 0 .. keys \subseteq 0 .. keys' /\ 1 .. keys \subseteq 1 .. keys'
           /\ at' \in [Process -> {"idle", "read", "archive", "open", "write", "rename"}]
           /\ mine' = [q \in Process |-> mine'[q]] /\ mine'[p] \in 1 .. keys'
           /\ \A q \in Process : Writing(q)' => mine'[q] \in 1 .. keys'
           /\ \A q \in Process : at'[q] \in {"write", "rename"} => at[q] \in {"write", "rename"} /\ q # p
           /\ at'[p] = "open" /\ \A q \in Process : q # p => at'[q] = at[q] /\ mine'[q] = mine[q]
<1>1. keys' = keys + 1 /\ clock' = clock /\ keys \in Nat /\ clock \in Nat
  BY DEF Generate, StoreInv
<1>2. at' = [at EXCEPT ![p] = "open"] /\ mine' = [mine EXCEPT ![p] = keys + 1]
  BY DEF Generate
<1>3. at'[p] = "open" /\ mine'[p] = keys + 1 /\ \A q \in Process : q # p => at'[q] = at[q] /\ mine'[q] = mine[q]
  BY <1>2 DEF StoreInv
<1>4. at' \in [Process -> {"idle", "read", "archive", "open", "write", "rename"}]
  BY <1>2 DEF StoreInv
<1>5. mine' = [q \in Process |-> mine'[q]]
  BY <1>2 DEF StoreInv
<1>6. 0 .. keys \subseteq 0 .. keys' /\ 1 .. keys \subseteq 1 .. keys' /\ keys + 1 \in 1 .. keys' /\ keys' \in Nat
  BY <1>1
<1>7. \A q \in Process : Writing(q)' => mine'[q] \in 1 .. keys'
  BY <1>3, <1>6 DEF Writing, StoreInv
<1> QED
  BY <1>1, <1>3, <1>4, <1>5, <1>6, <1>7

\* load_or_generate_identity keeps the invariant.
LEMMA LoadKeeps ==
    ASSUME IdentityInv, NEW p \in Process, LoadOrGenerate(p)
    PROVE  IdentityInv'
<1>0. StoreInv /\ (overlapped \/ OrderInv) /\ (overlapped \/ overwrote \/ Stored) /\ Begin(p)
  BY DEF IdentityInv, LoadOrGenerate
<1>1. /\ overlapped' \in BOOLEAN
      /\ ~overlapped' => ~overlapped /\ OrderInv /\ \A q \in Process : at[q] = "idle"
  BY <1>0, BeginsAlone
<1>2. /\ names' = names /\ content' = content /\ fd' = fd
      /\ overwrote' = overwrote /\ drift' = drift
  BY DEF LoadOrGenerate, files
<1>3. CASE memory # NoKey /\ p = "serve"
  <2>1. told' = told \cup {memory} /\ at' = at /\ mine' = mine /\ memory' = memory /\ keys' = keys /\ clock' = clock
    BY <1>3 DEF LoadOrGenerate, bounds
  <2>2. told' = told
    BY <1>0, <1>3, <2>1 DEF StoreInv
  <2>3. StoreInv'
    BY <1>0, <1>1, <1>2, <2>1, <2>2 DEF StoreInv, Writing
  <2>4. ~overlapped' => OrderInv'
    BY <1>1, <1>2, <2>1 DEF OrderInv, Writing, Has, Entry
  <2>5. Stored => Stored'
    BY <1>2, <2>2 DEF Stored, Entry
  <2> QED
    BY <1>0, <1>1, <1>2, <2>3, <2>4, <2>5 DEF IdentityInv
<1>4. CASE Has(Enc) /\ at' = [at EXCEPT ![p] = "read"] /\ UNCHANGED <<mine, memory, bounds, told>>
  <2>1. told' = told /\ mine' = mine /\ memory' = memory /\ keys' = keys /\ clock' = clock
    BY <1>4 DEF bounds
  <2>2. /\ at' \in [Process -> {"idle", "read", "archive", "open", "write", "rename"}]
        /\ at'[p] = "read" /\ \A q \in Process : q # p => at'[q] = at[q]
    BY <1>0, <1>4 DEF StoreInv
  <2>3. StoreInv'
    BY <1>0, <1>1, <1>2, <2>1, <2>2 DEF StoreInv, Writing
  <2>4. ~overlapped' => OrderInv'
    BY <1>1, <1>2, <2>1, <2>2 DEF OrderInv, Writing, Has, Entry
  <2>5. Stored => Stored'
    BY <1>2, <2>1 DEF Stored, Entry
  <2> QED
    BY <1>0, <1>1, <1>2, <2>3, <2>4, <2>5 DEF IdentityInv
<1>5. CASE ~Has(Enc) /\ Generate(p) /\ UNCHANGED told
  <2>1. /\ keys' \in Nat /\ clock' \in Nat /\ 0 .. keys \subseteq 0 .. keys' /\ 1 .. keys \subseteq 1 .. keys'
        /\ at' \in [Process -> {"idle", "read", "archive", "open", "write", "rename"}]
        /\ mine' = [q \in Process |-> mine'[q]] /\ mine'[p] \in 1 .. keys'
        /\ \A q \in Process : Writing(q)' => mine'[q] \in 1 .. keys'
        /\ \A q \in Process : at'[q] \in {"write", "rename"} => at[q] \in {"write", "rename"} /\ q # p
        /\ at'[p] = "open" /\ \A q \in Process : q # p => at'[q] = at[q] /\ mine'[q] = mine[q]
    BY <1>0, <1>5, GenerateKeeps
  <2>2. memory' = memory /\ told' = told
    BY <1>5 DEF Generate
  <2>3. StoreInv'
    <3>1. content' \in [DOMAIN content' -> 0 .. keys'] /\ told' \subseteq 1 .. keys'
      BY <1>0, <1>2, <2>1, <2>2 DEF StoreInv
    <3> QED
      BY <1>0, <1>1, <1>2, <2>1, <2>2, <3>1 DEF StoreInv
  <2>4. ~overlapped' => OrderInv'
    BY <1>1, <1>2, <1>5, <2>1, <2>2 DEF OrderInv, Writing, Has, Entry
  <2>5. Stored => Stored'
    BY <1>2, <2>2 DEF Stored, Entry
  <2> QED
    BY <1>0, <1>1, <1>2, <2>3, <2>4, <2>5 DEF IdentityInv
<1> QED
  BY <1>3, <1>4, <1>5 DEF LoadOrGenerate

\* Reading the current file reports a key that is stored.
LEMMA ReadKeeps ==
    ASSUME IdentityInv, NEW p \in Process, Read(p)
    PROVE  IdentityInv'
<1> DEFINE key == IF Has(Enc) THEN FromBytes(Entry(Enc)) ELSE NoKey
<1>0. StoreInv /\ (overlapped \/ OrderInv) /\ (overlapped \/ overwrote \/ Stored)
  BY DEF IdentityInv
<1>1. /\ names' = names /\ content' = content /\ fd' = fd /\ mine' = mine /\ keys' = keys /\ clock' = clock
      /\ overwrote' = overwrote /\ overlapped' = overlapped
      /\ at' = [at EXCEPT ![p] = "idle"]
  BY DEF Read, files, bounds
<1>2. /\ at' \in [Process -> {"idle", "read", "archive", "open", "write", "rename"}]
      /\ at'[p] = "idle" /\ \A q \in Process : q # p => at'[q] = at[q]
  BY <1>0, <1>1 DEF StoreInv
<1>3. CASE key = NoKey
  <2>1. memory' = memory /\ told' = told /\ drift' = drift
    BY <1>3 DEF Read
  <2>2. StoreInv'
    BY <1>0, <1>1, <1>2, <2>1 DEF StoreInv, Writing
  <2>3. ~overlapped' => OrderInv'
    BY <1>0, <1>1, <1>2, <2>1 DEF OrderInv, Writing, Has, Entry
  <2>4. Stored => Stored'
    BY <1>1, <2>1 DEF Stored, Entry
  <2> QED
    BY <1>0, <1>1, <2>2, <2>3, <2>4 DEF IdentityInv
<1>4. CASE key # NoKey
  <2>1. /\ told' = told \cup {key} /\ memory' = IF p = "serve" THEN key ELSE memory
        /\ drift' = (drift /\ p # "serve")
    BY <1>4 DEF Read
  <2>2. Has(Enc) /\ key = Entry(Enc) /\ key \in 1 .. keys
    <3>1. Has(Enc) /\ key = Entry(Enc) /\ Entry(Enc) # 0
      BY <1>4 DEF FromBytes, Blank
    <3>2. Entry(Enc) \in 0 .. keys /\ keys \in Nat
      BY <1>0, <3>1 DEF StoreInv, Has, Entry
    <3> QED
      BY <3>1, <3>2
  <2> HIDE DEF key
  <2>3. StoreInv'
    BY <1>0, <1>1, <1>2, <2>1, <2>2 DEF StoreInv, Writing
  <2>4. ~overlapped' => OrderInv'
    BY <1>0, <1>1, <1>2, <2>1, <2>2 DEF OrderInv, Writing, Has, Entry
  <2>5. Stored => Stored'
    BY <1>1, <2>1, <2>2, NamesDiffer DEF Stored, Entry, Has
  <2> QED
    BY <1>0, <1>1, <2>3, <2>4, <2>5 DEF IdentityInv
<1> QED
  BY <1>3, <1>4

\* rotate_identity keeps the invariant.
LEMMA RotateKeeps ==
    ASSUME IdentityInv, NEW p \in Process, Rotate(p)
    PROVE  IdentityInv'
<1>0. StoreInv /\ (overlapped \/ OrderInv) /\ (overlapped \/ overwrote \/ Stored) /\ Begin(p)
  BY DEF IdentityInv, Rotate
<1>1. /\ overlapped' \in BOOLEAN
      /\ ~overlapped' => ~overlapped /\ OrderInv /\ \A q \in Process : at[q] = "idle"
  BY <1>0, BeginsAlone
<1>2. /\ names' = names /\ content' = content /\ fd' = fd /\ told' = told
      /\ overwrote' = overwrote /\ drift' = drift
  BY DEF Rotate, files
<1>3. Stored => Stored'
  BY <1>2 DEF Stored, Entry
<1>4. CASE Has(Enc)
  <2>1. at' = [at EXCEPT ![p] = "archive"] /\ mine' = mine /\ memory' = memory /\ keys' = keys /\ clock' = clock
    BY <1>4 DEF Rotate, bounds
  <2>2. /\ at' \in [Process -> {"idle", "read", "archive", "open", "write", "rename"}]
        /\ at'[p] = "archive" /\ \A q \in Process : q # p => at'[q] = at[q]
    BY <1>0, <2>1 DEF StoreInv
  <2>3. StoreInv'
    BY <1>0, <1>1, <1>2, <2>1, <2>2 DEF StoreInv, Writing
  <2>4. ~overlapped' => OrderInv'
    BY <1>1, <1>2, <2>1, <2>2 DEF OrderInv, Writing, Has, Entry
  <2> QED
    BY <1>0, <1>1, <1>2, <1>3, <2>3, <2>4 DEF IdentityInv
<1>5. CASE ~Has(Enc)
  <2>1. Generate(p)
    BY <1>5 DEF Rotate
  <2>2. /\ keys' \in Nat /\ clock' \in Nat /\ 0 .. keys \subseteq 0 .. keys' /\ 1 .. keys \subseteq 1 .. keys'
        /\ at' \in [Process -> {"idle", "read", "archive", "open", "write", "rename"}]
        /\ mine' = [q \in Process |-> mine'[q]] /\ mine'[p] \in 1 .. keys'
        /\ \A q \in Process : Writing(q)' => mine'[q] \in 1 .. keys'
        /\ \A q \in Process : at'[q] \in {"write", "rename"} => at[q] \in {"write", "rename"} /\ q # p
        /\ at'[p] = "open" /\ \A q \in Process : q # p => at'[q] = at[q] /\ mine'[q] = mine[q]
    BY <1>0, <2>1, GenerateKeeps
  <2>3. memory' = memory
    BY <2>1 DEF Generate
  <2>4. StoreInv'
    <3>1. content' \in [DOMAIN content' -> 0 .. keys'] /\ told' \subseteq 1 .. keys'
      BY <1>0, <1>2, <2>2 DEF StoreInv
    <3> QED
      BY <1>0, <1>1, <1>2, <2>2, <2>3, <3>1 DEF StoreInv
  <2>5. ~overlapped' => OrderInv'
    BY <1>1, <1>2, <1>5, <2>2, <2>3 DEF OrderInv, Writing, Has, Entry
  <2> QED
    BY <1>0, <1>1, <1>2, <1>3, <2>4, <2>5 DEF IdentityInv
<1> QED
  BY <1>4, <1>5

\* The current file goes to the archive under its second.
LEMMA ArchiveKeeps ==
    ASSUME IdentityInv, NEW p \in Process, ArchiveStep(p)
    PROVE  IdentityInv'
<1>0. StoreInv /\ (overlapped \/ OrderInv) /\ (overlapped \/ overwrote \/ Stored) /\ at[p] = "archive"
  BY DEF IdentityInv, ArchiveStep
<1>1. content' = content /\ fd' = fd /\ told' = told /\ overlapped' = overlapped
  BY DEF ArchiveStep
<1>2. CASE ~Has(Enc)
  <2>1. /\ names' = names /\ memory' = memory /\ mine' = mine /\ keys' = keys /\ clock' = clock
        /\ overwrote' = overwrote /\ drift' = drift /\ at' = [at EXCEPT ![p] = "idle"]
    BY <1>2 DEF ArchiveStep, bounds
  <2>2. /\ at' \in [Process -> {"idle", "read", "archive", "open", "write", "rename"}]
        /\ at'[p] = "idle" /\ \A q \in Process : q # p => at'[q] = at[q]
    BY <1>0, <2>1 DEF StoreInv
  <2>3. StoreInv'
    BY <1>0, <1>1, <2>1, <2>2 DEF StoreInv, Writing
  <2>4. ~overlapped' => OrderInv'
    BY <1>0, <1>1, <2>1, <2>2 DEF OrderInv, Writing, Has, Entry
  <2>5. Stored => Stored'
    BY <1>1, <2>1 DEF Stored, Entry
  <2> QED
    BY <1>0, <1>1, <2>1, <2>3, <2>4, <2>5 DEF IdentityInv
<1>3. CASE Has(Enc)
  <2>1. /\ Generate(p) /\ names' = ArchiveOld /\ drift' = TRUE
        /\ overwrote' = (overwrote \/ Has(Archive(clock)))
    BY <1>3 DEF ArchiveStep
  <2>2. /\ keys' \in Nat /\ clock' \in Nat /\ 0 .. keys \subseteq 0 .. keys' /\ 1 .. keys \subseteq 1 .. keys'
        /\ at' \in [Process -> {"idle", "read", "archive", "open", "write", "rename"}]
        /\ mine' = [q \in Process |-> mine'[q]] /\ mine'[p] \in 1 .. keys'
        /\ \A q \in Process : Writing(q)' => mine'[q] \in 1 .. keys'
        /\ \A q \in Process : at'[q] \in {"write", "rename"} => at[q] \in {"write", "rename"} /\ q # p
        /\ at'[p] = "open" /\ \A q \in Process : q # p => at'[q] = at[q] /\ mine'[q] = mine[q]
    BY <1>0, <2>1, GenerateKeeps
  <2>3. memory' = memory
    BY <2>1 DEF Generate
  <2>4. /\ DOMAIN names' = (DOMAIN names \ {Enc}) \cup {Archive(clock)}
        /\ names'[Archive(clock)] = names[Enc]
        /\ \A y \in DOMAIN names \ {Enc} : y # Archive(clock) => names'[y] = names[y]
        /\ names' \in [DOMAIN names' -> DOMAIN content]
    <3> DEFINE W == Without(names, Enc)
    <3>1. DOMAIN W = DOMAIN names \ {Enc} /\ \A y \in DOMAIN names \ {Enc} : W[y] = names[y]
      BY NameRemoved
    <3>2. W \in [DOMAIN W -> DOMAIN content] /\ names[Enc] \in DOMAIN content
      BY <1>0, <1>3, <3>1 DEF StoreInv, Without, Has
    <3>3. names' = With(W, Archive(clock), names[Enc])
      BY <2>1 DEF ArchiveOld
    <3> HIDE DEF W
    <3>4. DOMAIN names' = DOMAIN W \cup {Archive(clock)}
      BY <3>3 DEF With
    <3>6. names' \in [DOMAIN names' -> DOMAIN content]
      BY <3>2, <3>3, NameSetInto
    <3>5. /\ names'[Archive(clock)] = names[Enc]
          /\ \A y \in DOMAIN W : y # Archive(clock) => names'[y] = W[y]
      BY <3>3 DEF With
    <3>7. DOMAIN names' = (DOMAIN names \ {Enc}) \cup {Archive(clock)}
      BY <3>1, <3>4
    <3>8. \A y \in DOMAIN names \ {Enc} : y # Archive(clock) => names'[y] = names[y]
      BY <3>1, <3>5
    <3> QED
      BY <3>5, <3>6, <3>7, <3>8
  <2>5. Enc \notin DOMAIN names' /\ Archive(clock) # Tmp /\ Archive(clock) # Enc /\ Enc # Tmp
    BY <2>4, NamesDiffer
  <2>6. StoreInv'
    <3>1. content' \in [DOMAIN content' -> 0 .. keys'] /\ told' \subseteq 1 .. keys'
      BY <1>0, <1>1, <2>2 DEF StoreInv
    <3>2. \A x, y \in DOMAIN names' : names'[x] = names'[y] => x = y
      BY <1>0, <1>3, <2>4 DEF StoreInv, Has
    <3>3. overwrote' \in BOOLEAN
      <4>1. overwrote' = (overwrote \/ Has(Archive(clock)))
        BY <2>1
      <4> QED
        BY <4>1, Zenon
    <3> QED
      BY <1>0, <1>1, <2>1, <2>2, <2>3, <2>4, <3>1, <3>2, <3>3 DEF StoreInv
  <2>7. ~overlapped' => OrderInv'
    <3> SUFFICES ASSUME ~overlapped PROVE OrderInv'
      BY <1>1
    <3>1. OrderInv /\ \A q \in Process : q # p => at[q] = "idle" /\ at'[q] = "idle"
      BY <1>0, <2>2 DEF OrderInv
    <3> QED
      BY <1>1, <2>1, <2>2, <2>5, <3>1 DEF OrderInv, Writing, Has
  <2>8. ~overwrote' /\ Stored => Stored'
    <3> SUFFICES ASSUME ~overwrote', Stored, NEW k \in told
                 PROVE  \E name \in DOMAIN names' \ {Tmp} : content'[names'[name]] = k
      BY <1>1 DEF Stored, Entry
    <3>1. Archive(clock) \notin DOMAIN names
      BY <2>1 DEF Has
    <3>2. PICK name \in DOMAIN names \ {Tmp} : content[names[name]] = k
      BY DEF Stored, Entry
    <3>3. CASE name = Enc
      BY <1>1, <2>4, <2>5, <3>2, <3>3
    <3>4. CASE name # Enc
      BY <1>1, <2>4, <3>1, <3>2, <3>4
    <3> QED
      BY <3>3, <3>4
  <2>9. overwrote => overwrote'
    BY <2>1
  <2> QED
    BY <1>0, <1>1, <2>6, <2>7, <2>8, <2>9 DEF IdentityInv
<1> QED
  BY <1>2, <1>3

\* The step of atomic_write after each of its three.
LEMMA AfterEach ==
    After("open") = "write" /\ After("write") = "rename" /\ After("rename") = "done"
  BY DEF After

\* The first two steps of atomic_write move one process on and report nothing.
LEMMA AdvanceOn ==
    ASSUME StoreInv, NEW p \in Process, Advance(p), NEW next \in {"write", "rename"},
           After(at[p]) = next
    PROVE  /\ at' \in [Process -> {"idle", "read", "archive", "open", "write", "rename"}]
           /\ at'[p] = next /\ \A q \in Process : q # p => at'[q] = at[q]
           /\ told' = told /\ memory' = memory /\ drift' = drift /\ mine' = mine
           /\ keys' = keys /\ clock' = clock /\ overwrote' = overwrote /\ overlapped' = overlapped
<1>1. next # "done" /\ next \in {"idle", "read", "archive", "open", "write", "rename"}
  OBVIOUS
<1>2. at' = [at EXCEPT ![p] = next] /\ UNCHANGED <<told, memory, drift>>
  BY <1>1 DEF Advance
<1>3. /\ at' \in [Process -> {"idle", "read", "archive", "open", "write", "rename"}]
      /\ at'[p] = next /\ \A q \in Process : q # p => at'[q] = at[q]
  BY <1>1, <1>2 DEF StoreInv
<1> QED
  BY <1>2, <1>3 DEF Advance, bounds

\* The temporary file is opened: the one of that name, emptied, or a new one.
LEMMA OpenKeeps ==
    ASSUME IdentityInv, NEW p \in Process, OpenTmp(p)
    PROVE  IdentityInv'
<1> DEFINE file == IF Has(Tmp) THEN names[Tmp] ELSE 1 + Cardinality(DOMAIN content)
<1>0. StoreInv /\ (overlapped \/ OrderInv) /\ (overlapped \/ overwrote \/ Stored) /\ at[p] = "open"
  BY DEF IdentityInv, OpenTmp
<1>1. /\ at' \in [Process -> {"idle", "read", "archive", "open", "write", "rename"}]
      /\ at'[p] = "write" /\ \A q \in Process : q # p => at'[q] = at[q]
      /\ told' = told /\ memory' = memory /\ drift' = drift /\ mine' = mine
      /\ keys' = keys /\ clock' = clock /\ overwrote' = overwrote /\ overlapped' = overlapped
  BY <1>0, AdvanceOn, AfterEach DEF OpenTmp
<1>2. /\ names' = With(names, Tmp, file) /\ content' = With(content, file, Blank)
      /\ fd' = [fd EXCEPT ![p] = file]
  BY DEF OpenTmp
<1>3. PICK k \in Nat : DOMAIN content = 1 .. k
  BY <1>0 DEF StoreInv
<1>4. Cardinality(DOMAIN content) = k
  BY <1>3, FS_Interval
<1>5. /\ \E j \in Nat : DOMAIN content \cup {file} = 1 .. j
      /\ \A name \in DOMAIN names \ {Tmp} : names[name] # file
  <2>1. CASE Has(Tmp)
    <3>1. file = names[Tmp] /\ Tmp \in DOMAIN names /\ names[Tmp] \in DOMAIN content
      BY <1>0, <2>1 DEF Has, StoreInv
    <3>2. DOMAIN content \cup {file} = DOMAIN content
      BY <3>1
    <3> HIDE DEF file
    <3> QED
      BY <1>0, <1>3, <3>1, <3>2 DEF StoreInv
  <2>2. CASE ~Has(Tmp)
    <3>1. file = k + 1
      BY <1>4, <2>2
    <3> HIDE DEF file
    <3>2. DOMAIN content \cup {file} = 1 .. k + 1 /\ k + 1 \in Nat /\ file \notin DOMAIN content
      BY <1>3, <3>1
    <3> QED
      BY <1>0, <3>2 DEF StoreInv
  <2> QED
    BY <2>1, <2>2
<1> HIDE DEF file
<1>6. /\ DOMAIN names' = DOMAIN names \cup {Tmp} /\ names'[Tmp] = file
      /\ \A name \in DOMAIN names \ {Tmp} : names'[name] = names[name]
  BY <1>2 DEF With
<1>7. /\ DOMAIN content' = DOMAIN content \cup {file} /\ content'[file] = 0
      /\ \A f \in DOMAIN content \ {file} : content'[f] = content[f]
  BY <1>2 DEF With, Blank
<1>8. fd'[p] = file /\ fd' = [q \in Process |-> fd'[q]] /\ \A q \in Process : q # p => fd'[q] = fd[q]
  BY <1>0, <1>2 DEF StoreInv
<1>9. \A name \in DOMAIN names \ {Tmp} : Entry(name)' = Entry(name)
  <2> SUFFICES ASSUME NEW name \in DOMAIN names \ {Tmp} PROVE content'[names'[name]] = content[names[name]]
    BY DEF Entry
  <2>1. names[name] \in DOMAIN content \ {file} /\ names'[name] = names[name]
    BY <1>0, <1>5, <1>6 DEF StoreInv
  <2> QED
    BY <1>7, <2>1
<1>10. StoreInv'
  <2>1. content' \in [DOMAIN content' -> 0 .. keys']
    <3>1. content' = [f \in DOMAIN content' |-> content'[f]]
      BY <1>2 DEF With
    <3>2. 0 \in 0 .. keys /\ content \in [DOMAIN content -> 0 .. keys]
      BY <1>0 DEF StoreInv
    <3>3. \A f \in DOMAIN content' : content'[f] \in 0 .. keys
      BY <1>7, <3>2
    <3> QED
      BY <1>1, <3>1, <3>3
  <2>2. names' \in [DOMAIN names' -> DOMAIN content']
    <3>1. names' = [x \in DOMAIN names' |-> names'[x]]
      BY <1>2 DEF With
    <3>2. \A x \in DOMAIN names' : names'[x] \in DOMAIN content'
      BY <1>0, <1>6, <1>7 DEF StoreInv
    <3> QED
      BY <3>1, <3>2
  <2>3. \A x, y \in DOMAIN names' : names'[x] = names'[y] => x = y
    BY <1>0, <1>5, <1>6 DEF StoreInv
  <2>4. \E j \in Nat : DOMAIN content' = 1 .. j
    BY <1>5, <1>7
  <2>5. \A q \in Process : at'[q] \in {"write", "rename"} => fd'[q] \in DOMAIN content'
    BY <1>0, <1>1, <1>7, <1>8 DEF StoreInv
  <2>6. \A q \in Process : Writing(q)' => mine'[q] \in 1 .. keys'
    BY <1>0, <1>1 DEF StoreInv, Writing
  <2> QED
    BY <1>0, <1>1, <1>8, <2>1, <2>2, <2>3, <2>4, <2>5, <2>6 DEF StoreInv
<1>11. ~overlapped' => OrderInv'
  <2> SUFFICES ASSUME ~overlapped PROVE OrderInv'
    BY <1>1
  <2>1. OrderInv /\ \A q \in Process : q # p => at[q] = "idle" /\ at'[q] = "idle"
    BY <1>0, <1>1 DEF OrderInv
  <2>2. ~Has(Enc) /\ ~Has(Enc)'
    BY <1>0, <1>6, <2>1, NamesDiffer DEF OrderInv, Writing, Has
  <2>3. Has(Tmp)' /\ names'[Tmp] = fd'[p]
    BY <1>6, <1>8 DEF Has
  <2> QED
    BY <1>1, <2>1, <2>2, <2>3 DEF OrderInv, Writing
<1>12. Stored => Stored'
  <2> SUFFICES ASSUME Stored, NEW x \in told
               PROVE  \E name \in DOMAIN names' \ {Tmp} : Entry(name)' = x
    BY <1>1 DEF Stored
  <2>1. PICK name \in DOMAIN names \ {Tmp} : Entry(name) = x
    BY DEF Stored
  <2> QED
    BY <1>6, <1>9, <2>1
<1> QED
  BY <1>0, <1>1, <1>10, <1>11, <1>12 DEF IdentityInv

\* The temporary file is written: no other name has it while no two requests
\* have overlapped.
LEMMA WriteKeeps ==
    ASSUME IdentityInv, NEW p \in Process, WriteTmp(p)
    PROVE  IdentityInv'
<1>0. StoreInv /\ (overlapped \/ OrderInv) /\ (overlapped \/ overwrote \/ Stored) /\ at[p] = "write"
  BY DEF IdentityInv, WriteTmp
<1>1. /\ at' \in [Process -> {"idle", "read", "archive", "open", "write", "rename"}]
      /\ at'[p] = "rename" /\ \A q \in Process : q # p => at'[q] = at[q]
      /\ told' = told /\ memory' = memory /\ drift' = drift /\ mine' = mine
      /\ keys' = keys /\ clock' = clock /\ overwrote' = overwrote /\ overlapped' = overlapped
  BY <1>0, AdvanceOn, AfterEach DEF WriteTmp
<1>2. names' = names /\ fd' = fd /\ content' = [content EXCEPT ![fd[p]] = mine[p]]
  BY DEF WriteTmp
<1>3. fd[p] \in DOMAIN content /\ mine[p] \in 1 .. keys /\ keys \in Nat
  BY <1>0 DEF StoreInv, Writing
<1>4. /\ DOMAIN content' = DOMAIN content /\ content'[fd[p]] = mine[p]
      /\ \A f \in DOMAIN content : f # fd[p] => content'[f] = content[f]
      /\ content' \in [DOMAIN content -> 0 .. keys]
  BY <1>0, <1>2, <1>3 DEF StoreInv
<1>5. StoreInv'
  BY <1>0, <1>1, <1>2, <1>4 DEF StoreInv, Writing
<1>6. ~overlapped => OrderInv /\ fd[p] = names[Tmp] /\ Has(Tmp) /\ ~Has(Enc)
  BY <1>0 DEF OrderInv, Writing
<1>7. ~overlapped' => OrderInv'
  <2> SUFFICES ASSUME ~overlapped PROVE OrderInv'
    BY <1>1
  <2>1. OrderInv /\ \A q \in Process : q # p => at[q] = "idle" /\ at'[q] = "idle"
    BY <1>0, <1>1 DEF OrderInv
  <2>2. ~Has(Enc)' /\ Has(Tmp)' /\ names'[Tmp] = fd'[p] /\ content'[fd'[p]] = mine'[p]
    BY <1>1, <1>2, <1>4, <1>6 DEF Has
  <2>3. memory' = NoKey \/ drift'
    BY <1>1, <1>6, <2>1 DEF OrderInv
  <2> QED
    BY <1>1, <2>1, <2>2, <2>3 DEF OrderInv, Writing
<1>8. ~overlapped /\ Stored => Stored'
  <2> SUFFICES ASSUME ~overlapped, Stored, NEW x \in told
               PROVE  \E name \in DOMAIN names' \ {Tmp} : content'[names'[name]] = x
    BY <1>1 DEF Stored, Entry
  <2>1. PICK name \in DOMAIN names \ {Tmp} : content[names[name]] = x
    BY DEF Stored, Entry
  <2>2. names[name] \in DOMAIN content /\ names[name] # fd[p]
    BY <1>0, <1>6, <2>1 DEF StoreInv, Has
  <2> QED
    BY <1>2, <1>4, <2>1, <2>2
<1> QED
  BY <1>0, <1>1, <1>5, <1>7, <1>8 DEF IdentityInv

\* The temporary file takes the current name; the key in it is reported.
LEMMA RenameKeeps ==
    ASSUME IdentityInv, NEW p \in Process, RenameTmp(p)
    PROVE  IdentityInv'
<1>0. StoreInv /\ (overlapped \/ OrderInv) /\ (overlapped \/ overwrote \/ Stored) /\ at[p] = "rename"
  BY DEF IdentityInv, RenameTmp
<1>1. content' = content /\ fd' = fd
  BY DEF RenameTmp
<1>2. CASE ~Has(Tmp)
  <2>1. /\ names' = names /\ memory' = memory /\ mine' = mine /\ keys' = keys /\ clock' = clock
        /\ told' = told /\ overwrote' = overwrote /\ overlapped' = overlapped /\ drift' = drift
        /\ at' = [at EXCEPT ![p] = "idle"]
    BY <1>2 DEF RenameTmp, bounds, history
  <2>2. /\ at' \in [Process -> {"idle", "read", "archive", "open", "write", "rename"}]
        /\ at'[p] = "idle" /\ \A q \in Process : q # p => at'[q] = at[q]
    BY <1>0, <2>1 DEF StoreInv
  <2>3. StoreInv'
    BY <1>0, <1>1, <2>1, <2>2 DEF StoreInv, Writing
  <2>4. ~overlapped' => OrderInv'
    BY <1>0, <1>1, <2>1, <2>2 DEF OrderInv, Writing, Has, Entry
  <2>5. Stored => Stored'
    BY <1>1, <2>1 DEF Stored, Entry
  <2> QED
    BY <1>0, <2>1, <2>3, <2>4, <2>5 DEF IdentityInv
<1>3. CASE Has(Tmp)
  <2>1. /\ names' = With(Without(names, Tmp), Enc, names[Tmp]) /\ Advance(p)
    BY <1>3 DEF RenameTmp
  <2>2. /\ at' = [at EXCEPT ![p] = "idle"] /\ Report(p)
        /\ mine' = mine /\ keys' = keys /\ clock' = clock /\ overwrote' = overwrote /\ overlapped' = overlapped
    BY <1>0, <2>1, AfterEach DEF Advance, bounds
  <2>3. /\ at' \in [Process -> {"idle", "read", "archive", "open", "write", "rename"}]
        /\ at'[p] = "idle" /\ \A q \in Process : q # p => at'[q] = at[q]
    BY <1>0, <2>2 DEF StoreInv
  <2>4. /\ told' = told \cup {mine[p]} /\ mine[p] \in 1 .. keys /\ 1 .. keys \subseteq Nat
        /\ memory' = IF p = "serve" THEN mine[p] ELSE memory
        /\ drift' = (drift /\ p # "serve")
    BY <1>0, <2>2 DEF Report, StoreInv, Writing
  <2>5. /\ DOMAIN names' = (DOMAIN names \ {Tmp}) \cup {Enc}
        /\ names'[Enc] = names[Tmp] /\ Tmp \notin DOMAIN names'
        /\ \A y \in DOMAIN names \ {Tmp} : y # Enc => names'[y] = names[y]
    <3>1. DOMAIN Without(names, Tmp) = DOMAIN names \ {Tmp}
          /\ \A y \in DOMAIN names \ {Tmp} : Without(names, Tmp)[y] = names[y]
      BY NameRemoved
    <3>2. DOMAIN names' = DOMAIN Without(names, Tmp) \cup {Enc} /\ names'[Enc] = names[Tmp]
          /\ \A y \in DOMAIN Without(names, Tmp) : y # Enc => names'[y] = Without(names, Tmp)[y]
      BY <2>1 DEF With
    <3> QED
      BY <3>1, <3>2, NamesDiffer
  <2>6. StoreInv'
    <3>1. names' \in [DOMAIN names' -> DOMAIN content']
      <4>1. names' = [x \in DOMAIN names' |-> names'[x]]
        BY <2>1 DEF With
      <4>2. \A x \in DOMAIN names' : names'[x] \in DOMAIN content'
        BY <1>0, <1>1, <1>3, <2>5 DEF StoreInv, Has
      <4> QED
        BY <4>1, <4>2
    <3>2. \A x, y \in DOMAIN names' : names'[x] = names'[y] => x = y
      BY <1>0, <1>3, <2>5 DEF StoreInv, Has
    <3>3. told' \subseteq 1 .. keys' /\ memory' \in told' \cup {NoKey}
      BY <1>0, <2>2, <2>4 DEF StoreInv
    <3>4. drift' \in BOOLEAN
      BY <1>0, <2>4 DEF StoreInv
    <3>5. \A q \in Process : Writing(q)' => mine'[q] \in 1 .. keys'
      BY <1>0, <2>2, <2>3 DEF StoreInv, Writing
    <3> QED
      BY <1>0, <1>1, <2>2, <2>3, <3>1, <3>2, <3>3, <3>4, <3>5 DEF StoreInv
  <2>7. ~overlapped => OrderInv /\ names'[Enc] = fd[p] /\ content'[names'[Enc]] = mine[p] /\ ~Has(Enc)
    BY <1>0, <1>1, <2>5 DEF OrderInv, Writing
  <2>8. ~overlapped' => OrderInv'
    <3> SUFFICES ASSUME ~overlapped PROVE OrderInv'
      BY <2>2
    <3>1. OrderInv /\ \A q \in Process : at'[q] = "idle"
      BY <1>0, <2>3 DEF OrderInv
    <3>2. Has(Enc)' /\ Entry(Enc)' = mine[p] /\ mine[p] # Blank
      BY <2>4, <2>5, <2>7 DEF Has, Entry, Blank
    <3>3. memory' # NoKey /\ ~drift' => memory' = mine[p]
      BY <2>4, <2>7 DEF OrderInv
    <3> QED
      BY <3>1, <3>2, <3>3 DEF OrderInv, Writing
  <2>9. ~overlapped /\ Stored => Stored'
    <3> SUFFICES ASSUME ~overlapped, Stored, NEW x \in told'
                 PROVE  \E name \in DOMAIN names' \ {Tmp} : content'[names'[name]] = x
      BY DEF Stored, Entry
    <3>1. CASE x = mine[p]
      BY <2>5, <2>7, <3>1, NamesDiffer
    <3>2. CASE x \in told
      <4>1. PICK name \in DOMAIN names \ {Tmp} : content[names[name]] = x
        BY <3>2 DEF Stored, Entry
      <4>2. name # Enc
        BY <2>7, <4>1 DEF Has
      <4> QED
        BY <1>1, <2>5, <4>1, <4>2
    <3> QED
      BY <2>4, <3>1, <3>2
  <2> QED
    BY <1>0, <2>2, <2>6, <2>8, <2>9 DEF IdentityInv
<1> QED
  BY <1>2, <1>3

\* A process that fails or dies leaves the directory as it is.
LEMMA FaultKeeps ==
    ASSUME IdentityInv, NEW p \in Process, NEW dies \in BOOLEAN, Fault(p, dies)
    PROVE  IdentityInv'
<1>0. StoreInv /\ (overlapped \/ OrderInv) /\ (overlapped \/ overwrote \/ Stored)
  BY DEF IdentityInv
<1>1. /\ names' = names /\ content' = content /\ mine' = mine /\ fd' = fd /\ keys' = keys /\ clock' = clock
      /\ told' = told /\ overwrote' = overwrote /\ overlapped' = overlapped
      /\ at' = [at EXCEPT ![p] = "idle"]
  BY DEF Fault, files
<1>2. /\ at' \in [Process -> {"idle", "read", "archive", "open", "write", "rename"}]
      /\ at'[p] = "idle" /\ \A q \in Process : q # p => at'[q] = at[q]
  BY <1>0, <1>1 DEF StoreInv
<1>3. memory' = NoKey \/ (memory' = memory /\ drift' = drift)
  <2>1. /\ memory' = IF dies /\ p = "serve" THEN NoKey ELSE memory
        /\ drift' = (drift /\ ~(dies /\ p = "serve"))
    BY DEF Fault
  <2>2. CASE dies /\ p = "serve"
    BY <2>1, <2>2
  <2>3. CASE ~(dies /\ p = "serve")
    <3>1. memory' = memory
      BY <2>1, <2>3
    <3>2. drift' = drift
      <4>1. drift \in BOOLEAN
        BY <1>0 DEF StoreInv
      <4> QED
        BY <2>1, <2>3, <4>1
    <3> QED
      BY <3>1, <3>2
  <2> QED
    BY <2>2, <2>3
<1>4. drift' \in BOOLEAN
  <2>1. drift' = (drift /\ ~(dies /\ p = "serve"))
    BY DEF Fault
  <2> QED
    BY <2>1, Zenon
<1>5. StoreInv'
  BY <1>0, <1>1, <1>2, <1>3, <1>4 DEF StoreInv, Writing
<1>6. ~overlapped' => OrderInv'
  BY <1>0, <1>1, <1>2, <1>3 DEF OrderInv, Writing, Has, Entry
<1>7. Stored => Stored'
  BY <1>1 DEF Stored, Entry
<1> QED
  BY <1>0, <1>1, <1>5, <1>6, <1>7 DEF IdentityInv

\* Every step of the store keeps the invariant; signing reports what was told.
LEMMA IdentityStep == IdentityInv /\ [IdentityNext]_identityVars => IdentityInv'
<1> SUFFICES ASSUME IdentityInv, [IdentityNext]_identityVars PROVE IdentityInv'
  OBVIOUS
<1>1. ASSUME NEW p \in Process,
             \/ LoadOrGenerate(p) \/ Rotate(p) \/ Read(p) \/ ArchiveStep(p)
             \/ OpenTmp(p) \/ WriteTmp(p) \/ RenameTmp(p)
             \/ \E dies \in BOOLEAN : Fault(p, dies)
      PROVE  IdentityInv'
  BY <1>1, LoadKeeps, RotateKeeps, ReadKeeps, ArchiveKeeps, OpenKeeps, WriteKeeps, RenameKeeps, FaultKeeps
<1>2. ASSUME names' = names, content' = content, memory' = memory, at' = at, mine' = mine, fd' = fd,
             keys' = keys, clock' \in Nat, told' = told, overwrote' = overwrote,
             overlapped' = overlapped, drift' = drift
      PROVE  IdentityInv'
  BY <1>2 DEF IdentityInv, StoreInv, OrderInv, Stored, Writing, Has, Entry
<1>3. StoreInv
  BY DEF IdentityInv
<1>4. CASE \E size \in Sizes, nonce \in Nonces, stamp \in 0 .. MaxClock + 2 :
              \E op \in {"identity", "audit", "treasury"} : Sign(size, op, nonce, stamp)
  <2>1. /\ told' = told \cup {memory} /\ memory # NoKey
        /\ UNCHANGED <<files, memory, at, mine, fd, bounds, overwrote, overlapped, drift>>
    BY <1>4 DEF Sign
  <2>2. told' = told /\ clock' \in Nat
    BY <1>3, <2>1 DEF StoreInv, bounds
  <2> QED
    BY <1>2, <2>1, <2>2 DEF files, bounds
<1>5. CASE Second
  <2>1. clock' \in Nat
    BY <1>3, <1>5 DEF Second, StoreInv
  <2> QED
    BY <1>2, <1>5, <2>1 DEF Second, files, history
<1>6. CASE UNCHANGED identityVars
  <2>1. clock' \in Nat
    BY <1>3, <1>6 DEF identityVars, bounds, StoreInv
  <2> QED
    BY <1>2, <1>6, <2>1 DEF identityVars, files, bounds, history
<1> QED
  BY <1>1, <1>4, <1>5, <1>6 DEF IdentityNext

\* No death of the daemon or of a command between two steps of a write loses a
\* key, leaves a file that does not load, or a daemon that signs with another
\* key than its file has, while requests follow one another.
THEOREM NoKeyIsLost == ProcessSpec => []IdentitySafe
<1>1. ProcessInit => IdentityInv
  BY IdentityInitInv DEF ProcessInit
<1>2. IdentityInv /\ [ProcessNext]_processVars => IdentityInv'
  BY IdentityStep DEF ProcessNext, Signer, Identityd, Lab, processVars
<1>3. IdentityInv => IdentitySafe
  <2> SUFFICES ASSUME IdentityInv PROVE IdentitySafe
    OBVIOUS
  <2>0. StoreInv /\ (overlapped \/ OrderInv) /\ (overlapped \/ overwrote \/ Stored)
    BY DEF IdentityInv
  <2>1. IdentityTypeOK
    BY <2>0 DEF StoreInv, IdentityTypeOK, Writing
  <2>2. KeysKept
    BY <2>0 DEF KeysKept, Stored
  <2>3. FileLoads
    <3> SUFFICES ASSUME ~overlapped, Has(Enc) PROVE FromBytes(Entry(Enc)) # NoKey
      BY DEF FileLoads
    <3>1. Entry(Enc) # Blank /\ Entry(Enc) \in 0 .. keys /\ keys \in Nat
      BY <2>0 DEF OrderInv, StoreInv, Has, Entry
    <3>2. Entry(Enc) \in Nat
      BY <3>1
    <3> QED
      BY <3>1, <3>2, IdentityAssumption DEF FromBytes
  <2>4. SignsWithFile
    BY <2>0 DEF SignsWithFile, OrderInv
  <2> QED
    BY <2>1, <2>2, <2>3, <2>4 DEF IdentitySafe
<1> QED
  BY <1>1, <1>2, <1>3, PTL DEF ProcessSpec

-----------------------------------------------------------------------------
(***************************************************************************)
(* vault-signer.  A batch is taken up to its first refusal, so that the    *)
(* commitments taken are those before the last one and the last one; when  *)
(* that one came the session still awaited commitments, and it has one     *)
(* signer more now.                                                        *)
(***************************************************************************)

\* What a session is, and how many signers it has (ExactSigners).
SoundSession(s) ==
    /\ s = [min |-> s.min, state |-> s.state, comms |-> s.comms, shares |-> s.shares]
    /\ s.min \in Nat
    /\ s.state \in {"awaiting_commitments", "awaiting_signature_shares", "complete"}
    /\ s.comms \in Batches \cup {<<>>}
    /\ DOMAIN s.shares \subseteq Identifier
    /\ IF s.state = "awaiting_commitments"
       THEN s.comms = <<>> \/ Count(s.comms) < s.min
       ELSE Count(s.comms) = (IF s.min = 0 THEN 1 ELSE s.min)

\* Without a failed write, the file and the running daemon have the last key.
KeysFollow ==
    /\ {signerKey, installed} \subseteq Key \cup {None}
    /\ keyFile \in Key \cup {None, Torn}
    /\ keyFault \in BOOLEAN
    /\ ~keyFault => keyFile = installed
    /\ ~keyFault /\ signerUp => signerKey = installed

SessionsSound ==
    /\ made \in Nat /\ DOMAIN sessions \subseteq 1 .. made
    /\ sessions = [n \in DOMAIN sessions |-> sessions[n]]
    /\ Count(sessions) <= MaxSessions
    /\ \A n \in DOMAIN sessions : SoundSession(sessions[n])

SignerInv == SessionsSound /\ KeysFollow

\* A finite set of numbers has a greatest one.
LEMMA GreatestOf ==
    ASSUME NEW S \in SUBSET Nat, IsFiniteSet(S), S # {}
    PROVE  \E m \in S : \A x \in S : x <= m
<1> DEFINE below(i) == {j \in S : j < i}
           room == {Cardinality(S) - Cardinality(below(i)) : i \in S}
<1>1. \A i \in S : /\ IsFiniteSet(below(i)) /\ Cardinality(below(i)) \in Nat
                   /\ Cardinality(below(i)) <= Cardinality(S) /\ Cardinality(S) \in Nat
  <2> SUFFICES ASSUME NEW i \in S
               PROVE  /\ IsFiniteSet(below(i)) /\ Cardinality(below(i)) \in Nat
                      /\ Cardinality(below(i)) <= Cardinality(S) /\ Cardinality(S) \in Nat
    OBVIOUS
  <2>1. below(i) \in SUBSET S
    OBVIOUS
  <2> HIDE DEF below
  <2>2. IsFiniteSet(below(i)) /\ Cardinality(below(i)) <= Cardinality(S)
    BY <2>1, FS_Subset
  <2> QED
    BY <2>2, FS_CardinalityType
<1>2. PICK m \in S : \A i \in S : Cardinality(S) - Cardinality(below(m)) <= Cardinality(S) - Cardinality(below(i))
  <2>1. room \in SUBSET Nat /\ room # {}
    <3> HIDE DEF below
    <3>1. \A i \in S : Cardinality(S) - Cardinality(below(i)) \in Nat
      BY <1>1
    <3> QED
      BY <3>1
  <2>2. PICK r \in room : \A q \in room : r <= q
    <3> HIDE DEF room
    <3> QED
      BY <2>1, LeastNat
  <2> HIDE DEF below
  <2> QED
    BY <2>2
<1>3. ASSUME NEW x \in S, ~(x <= m) PROVE FALSE
  <2>0. m \in S /\ x \in Nat /\ m \in Nat /\ m < x
    <3>1. m \in S /\ x \in Nat /\ m \in Nat
      BY <1>2
    <3> QED
      BY <1>3, <3>1
  <2>1. below(m) \cup {m} \in SUBSET below(x) /\ m \notin below(m)
    <3>1. \A j \in S : j < m => j < x
      BY <2>0
    <3>2. ~(m < m)
      BY <2>0
    <3>3. m \notin below(m) /\ below(m) \subseteq below(x) /\ m \in below(x)
      BY <2>0, <3>1, <3>2
    <3> HIDE DEF below
    <3> QED
      BY <3>3
  <2> HIDE DEF below, room
  <2>2. Cardinality(below(m) \cup {m}) = Cardinality(below(m)) + 1
    BY <1>1, <2>1, FS_AddElement
  <2>3. Cardinality(below(m) \cup {m}) <= Cardinality(below(x))
    BY <1>1, <2>1, FS_Subset
  <2> QED
    BY <1>1, <1>2, <2>2, <2>3
<1> QED
  BY <1>3

\* A batch and the commitments of a session are for finitely many signers.
LEMMA BatchIsFinite ==
    ASSUME NEW b \in Batches \cup {<<>>}
    PROVE  /\ DOMAIN b \subseteq Identifier /\ Identifier \subseteq Nat
           /\ IsFiniteSet(DOMAIN b) /\ Count(b) \in Nat
           /\ b = [i \in DOMAIN b |-> b[i]] /\ \A i \in DOMAIN b : b[i] \in Nonce
<1>1. DOMAIN b \in SUBSET Identifier /\ b = [i \in DOMAIN b |-> b[i]] /\ \A i \in DOMAIN b : b[i] \in Nonce
  <2>1. CASE b = <<>>
    <3>1. DOMAIN b = {} /\ b = [i \in DOMAIN b |-> b[i]]
      BY <2>1
    <3> QED
      BY <3>1
  <2>2. CASE b \in Batches
    <3>1. PICK B \in SUBSET Identifier : b \in [B -> Nonce]
      BY <2>2 DEF Batches
    <3> QED
      BY <3>1
  <2> QED
    BY <2>1, <2>2
<1>2. IsFiniteSet(Identifier) /\ Identifier \subseteq Nat
  BY SignerAssumption
<1>3. IsFiniteSet(DOMAIN b)
  BY <1>1, <1>2, FS_Subset
<1>4. Cardinality(DOMAIN b) \in Nat
  BY <1>3, FS_CardinalityType
<1> QED
  BY <1>1, <1>2, <1>3, <1>4 DEF Count

\* What is left of a session after commitments were added to it.
LEMMA AddedIs ==
    ASSUME NEW s, SoundSession(s), NEW batch \in Batches, NEW B \in SUBSET DOMAIN batch, B # {}
    PROVE  LET t == AddCommitments(s, batch, B) IN
           /\ t = [min |-> t.min, state |-> t.state, comms |-> t.comms, shares |-> t.shares]
           /\ t.min = s.min /\ t.shares = s.shares
           /\ t.comms \in Batches /\ DOMAIN t.comms = DOMAIN s.comms \cup B
           /\ \A i \in DOMAIN s.comms : i \notin B => t.comms[i] = s.comms[i]
           /\ t.state = IF Count(t.comms) >= s.min THEN "awaiting_signature_shares" ELSE s.state
<1> DEFINE new == [j \in DOMAIN s.comms \cup B |-> IF j \in B THEN batch[j] ELSE s.comms[j]]
           st == IF Cardinality(DOMAIN new) >= s.min THEN "awaiting_signature_shares" ELSE s.state
           t == AddCommitments(s, batch, B)
<1>1. s = [min |-> s.min, state |-> s.state, comms |-> s.comms, shares |-> s.shares] /\ s.comms \in Batches \cup {<<>>}
  BY DEF SoundSession
<1>2. t = [s EXCEPT !.comms = new, !.state = st]
  BY DEF AddCommitments
<1>3. new \in Batches
  <2>1. DOMAIN s.comms \subseteq Identifier /\ \A i \in DOMAIN s.comms : s.comms[i] \in Nonce
    BY <1>1, BatchIsFinite
  <2>2. DOMAIN batch \subseteq Identifier /\ \A i \in DOMAIN batch : batch[i] \in Nonce
    BY BatchIsFinite
  <2>3. DOMAIN s.comms \cup B \in (SUBSET Identifier) \ {{}}
    <3> DEFINE D == DOMAIN s.comms \cup B
    <3>1. D \subseteq Identifier /\ D # {}
      BY <2>1, <2>2
    <3> QED
      BY <3>1
  <2>4. new \in [DOMAIN s.comms \cup B -> Nonce]
    <3>1. \A j \in DOMAIN s.comms \cup B : (IF j \in B THEN batch[j] ELSE s.comms[j]) \in Nonce
      BY <2>1, <2>2
    <3> QED
      BY <3>1
  <2> QED
    BY <2>3, <2>4 DEF Batches
<1>4. DOMAIN new = DOMAIN s.comms \cup B /\ \A i \in DOMAIN s.comms : i \notin B => new[i] = s.comms[i]
  OBVIOUS
<1>5. st = IF Count(new) >= s.min THEN "awaiting_signature_shares" ELSE s.state
  BY DEF Count
<1> HIDE DEF new, st, t
<1>6. t = [min |-> s.min, state |-> st, comms |-> new, shares |-> s.shares]
  BY <1>1, <1>2
<1> QED
  BY <1>3, <1>4, <1>5, <1>6 DEF t

\* A commitment that is taken is new, and so are those before it.
LEMMA TakenAreNew ==
    ASSUME NEW s, SoundSession(s), NEW batch \in Batches, NEW i \in Taken(s, batch)
    PROVE  /\ i \in DOMAIN batch /\ i \notin DOMAIN s.comms
           /\ \A j \in DOMAIN batch : j <= i => j \in Taken(s, batch)
           /\ s.state = "awaiting_commitments"
           /\ Before(batch, i) # {} => Cardinality(DOMAIN s.comms \cup Before(batch, i)) < s.min
<1> DEFINE B == Before(batch, i)
           t == AddCommitments(s, batch, B)
<1>1. DOMAIN batch \subseteq Nat /\ i \in DOMAIN batch
  BY BatchIsFinite DEF Taken
<1>2. i <= i
  BY <1>1
<1>3. CanCommit(t, i)
  BY <1>1, <1>2 DEF Taken
<1>4. \A j \in DOMAIN batch : j <= i => j \in Taken(s, batch)
  <2> SUFFICES ASSUME NEW j \in DOMAIN batch, j <= i, NEW k \in DOMAIN batch, k <= j
               PROVE  CanCommit(AddCommitments(s, batch, Before(batch, k)), k)
    BY DEF Taken
  <2>1. k <= i
    BY <1>1
  <2> QED
    BY <2>1 DEF Taken
<1>5. B \in SUBSET DOMAIN batch
  BY DEF Before
<1>6. CASE B = {}
  <2>1. t = s
    BY <1>6 DEF AddCommitments
  <2>2. CanCommit(s, i)
    BY <1>3, <2>1
  <2> QED
    BY <1>1, <1>4, <1>6, <2>2 DEF CanCommit
<1>7. CASE B # {}
  <2> HIDE DEF t, B
  <2>1. /\ DOMAIN t.comms = DOMAIN s.comms \cup B
        /\ t.comms \in Batches
        /\ t.state = IF Count(t.comms) >= s.min THEN "awaiting_signature_shares" ELSE s.state
    BY <1>5, <1>7, AddedIs DEF t
  <2>2. t.state = "awaiting_commitments" /\ i \notin DOMAIN t.comms
    BY <1>3 DEF CanCommit
  <2>3. s.state = "awaiting_commitments" /\ ~(Count(t.comms) >= s.min)
    BY <2>1, <2>2
  <2>4. Count(t.comms) \in Nat /\ s.min \in Nat
    BY <2>1, BatchIsFinite DEF SoundSession
  <2>5. Cardinality(DOMAIN s.comms \cup B) < s.min
    BY <2>1, <2>3, <2>4 DEF Count
  <2> QED
    BY <1>1, <1>4, <2>1, <2>2, <2>3, <2>5 DEF B
<1> QED
  BY <1>6, <1>7

\* A batch leaves a sound session, and every commitment it had.
LEMMA SubmitKeeps ==
    ASSUME NEW s, SoundSession(s), NEW batch \in Batches
    PROVE  /\ SoundSession(Submit(s, batch))
           /\ s.state # "awaiting_commitments" => Submit(s, batch) = s
           /\ \A i \in DOMAIN s.comms :
                 /\ i \in DOMAIN Submit(s, batch).comms
                 /\ Submit(s, batch).comms[i] = s.comms[i]
<1> DEFINE T == Taken(s, batch)
           t == Submit(s, batch)
<1>1. T \in SUBSET DOMAIN batch /\ t = AddCommitments(s, batch, T)
  BY DEF Taken, Submit
<1>2. CASE T = {}
  <2>1. t = s
    BY <1>1, <1>2 DEF AddCommitments
  <2> QED
    BY <2>1
<1>3. CASE T # {}
  <2>0. DOMAIN batch \subseteq Nat /\ IsFiniteSet(DOMAIN batch)
    BY BatchIsFinite
  <2>1. PICK m \in T : \A x \in T : x <= m
    <3>1. T \in SUBSET Nat /\ IsFiniteSet(T)
      BY <1>1, <2>0, FS_Subset
    <3> QED
      BY <1>3, <3>1, GreatestOf
  <2> DEFINE B == Before(batch, m)
             C == DOMAIN s.comms
  <2>2. /\ m \in DOMAIN batch /\ m \notin C /\ s.state = "awaiting_commitments"
        /\ B # {} => Cardinality(C \cup B) < s.min
        /\ \A j \in DOMAIN batch : j <= m => j \in T
    BY TakenAreNew
  <2>3. T = B \cup {m} /\ m \notin B
    <3>1. m \notin B
      BY <2>0, <2>2 DEF Before
    <3>2. B \cup {m} \subseteq T
      BY <2>0, <2>1, <2>2 DEF Before
    <3>3. T \subseteq B \cup {m}
      <4> SUFFICES ASSUME NEW x \in T, x # m PROVE x \in B
        OBVIOUS
      <4>1. x \in DOMAIN batch /\ x <= m /\ x \in Nat /\ m \in Nat
        BY <1>1, <2>0, <2>1
      <4>2. x < m
        BY <4>1
      <4> QED
        BY <4>1, <4>2 DEF Before
    <3> QED
      BY <3>1, <3>2, <3>3
  <2>4. \A i \in T : i \notin C
    BY TakenAreNew
  <2> HIDE DEF T, t
  <2>5. /\ t = [min |-> t.min, state |-> t.state, comms |-> t.comms, shares |-> t.shares]
        /\ t.min = s.min /\ t.shares = s.shares
        /\ t.comms \in Batches /\ DOMAIN t.comms = C \cup T
        /\ \A i \in C : i \notin T => t.comms[i] = s.comms[i]
        /\ t.state = IF Count(t.comms) >= s.min THEN "awaiting_signature_shares" ELSE s.state
    BY <1>1, <1>3, AddedIs
  <2>6. s.comms \in Batches \cup {<<>>} /\ s.min \in Nat /\ DOMAIN s.shares \subseteq Identifier
    BY DEF SoundSession
  <2> HIDE DEF C, B
  <2>7. IsFiniteSet(C \cup B) /\ IsFiniteSet(C) /\ Cardinality(C \cup B) \in Nat
    <3>1. IsFiniteSet(C)
      BY <2>6, BatchIsFinite DEF C
    <3>2. IsFiniteSet(B)
      <4>1. B \in SUBSET DOMAIN batch
        BY <1>1, <2>3
      <4> QED
        BY <2>0, <4>1, FS_Subset
    <3>3. IsFiniteSet(C \cup B)
      BY <3>1, <3>2, FS_Union
    <3> QED
      BY <3>1, <3>3, FS_CardinalityType
  <2>8. Count(t.comms) = Cardinality(C \cup B) + 1
    <3>1. DOMAIN t.comms = (C \cup B) \cup {m} /\ m \notin C \cup B
      BY <2>2, <2>3, <2>5
    <3>2. Cardinality((C \cup B) \cup {m}) = Cardinality(C \cup B) + 1
      BY <2>7, <3>1, FS_AddElement
    <3> QED
      BY <3>1, <3>2 DEF Count
  <2>9. Cardinality(C \cup B) = 0 \/ Cardinality(C \cup B) < s.min
    <3>1. CASE B # {}
      BY <2>2, <3>1
    <3>2. CASE B = {}
      <4>1. C \cup B = C
        BY <3>2
      <4>2. s.comms = <<>> \/ Cardinality(C) < s.min
        BY <2>2 DEF SoundSession, Count, C
      <4>3. s.comms = <<>> => C = {}
        BY DEF C
      <4> QED
        BY <4>1, <4>2, <4>3, FS_EmptySet
    <3> QED
      BY <3>1, <3>2
  <2>10. SoundSession(t)
    <3>1. t.state \in {"awaiting_commitments", "awaiting_signature_shares", "complete"}
      BY <2>2, <2>5
    <3>2. IF t.state = "awaiting_commitments"
          THEN t.comms = <<>> \/ Count(t.comms) < t.min
          ELSE Count(t.comms) = (IF t.min = 0 THEN 1 ELSE t.min)
      <4>1. CASE Count(t.comms) >= s.min
        BY <2>5, <2>6, <2>7, <2>8, <2>9, <4>1
      <4>2. CASE ~(Count(t.comms) >= s.min)
        BY <2>2, <2>5, <2>6, <2>7, <2>8, <4>2
      <4> QED
        BY <4>1, <4>2
    <3> QED
      BY <2>5, <2>6, <3>1, <3>2 DEF SoundSession
  <2>11. \A i \in C : i \in DOMAIN t.comms /\ t.comms[i] = s.comms[i]
    BY <2>4, <2>5
  <2> QED
    BY <2>2, <2>10, <2>11 DEF t, C
<1> QED
  BY <1>2, <1>3

\* A share is added to a session that awaits shares, and to no other.
LEMMA ShareKeeps ==
    ASSUME NEW s, SoundSession(s), CanShare(s), NEW i \in Identifier, NEW sh
    PROVE  SoundSession(AddSignatureShare(s, i, sh)) /\ AddSignatureShare(s, i, sh).comms = s.comms
<1> DEFINE new == Put(s.shares, i, sh)
           st == IF Cardinality(DOMAIN new) >= s.min THEN "complete" ELSE s.state
<1>1. s = [min |-> s.min, state |-> s.state, comms |-> s.comms, shares |-> s.shares]
  BY DEF SoundSession
<1>2. AddSignatureShare(s, i, sh) = [s EXCEPT !.shares = new, !.state = st]
  BY DEF AddSignatureShare
<1>3. DOMAIN new \subseteq Identifier
  BY DEF Put, SoundSession
<1>4. st \in {"awaiting_signature_shares", "complete"}
  BY DEF CanShare
<1> HIDE DEF new, st
<1>5. AddSignatureShare(s, i, sh) = [min |-> s.min, state |-> st, comms |-> s.comms, shares |-> new]
  BY <1>1, <1>2
<1>6. st # "awaiting_commitments" /\ s.state # "awaiting_commitments"
  BY <1>4 DEF CanShare
<1> QED
  BY <1>3, <1>4, <1>5, <1>6 DEF SoundSession

\* A request or restart that leaves the sessions alone, or drops them.
LEMMA SessionsQuiet ==
    ASSUME SessionsSound, made' = made, sessions' = sessions \/ sessions' = <<>>
    PROVE  SessionsSound'
<1>1. CASE sessions' = sessions
  BY <1>1 DEF SessionsSound, Count
<1>2. CASE sessions' = <<>>
  <2>1. DOMAIN sessions' = {} /\ sessions' = [n \in DOMAIN sessions' |-> sessions'[n]]
    BY <1>2
  <2>2. Count(sessions)' = 0
    BY <2>1, FS_EmptySet DEF Count
  <2>3. 0 <= MaxSessions
    BY SignerAssumption
  <2> QED
    BY <2>1, <2>2, <2>3 DEF SessionsSound
<1> QED
  BY <1>1, <1>2

\* A session is created in a free slot.
LEMMA CreateKeeps ==
    ASSUME SessionsSound, NEW min \in MinSigners, CreateSession(min)
    PROVE  /\ SessionsSound'
           /\ \A n \in DOMAIN sessions \cap DOMAIN sessions' : sessions'[n] = sessions[n]
<1>1. /\ sessions' = Put(sessions, made + 1, SigningSession(min)) /\ made' = made + 1
      /\ Count(sessions) < MaxSessions
  BY DEF CreateSession, HasSlot
<1>2. made \in Nat /\ DOMAIN sessions \subseteq 1 .. made
  BY DEF SessionsSound
<1>3. /\ DOMAIN sessions' = DOMAIN sessions \cup {made + 1} /\ made + 1 \notin DOMAIN sessions
      /\ sessions' = [n \in DOMAIN sessions' |-> sessions'[n]]
      /\ sessions'[made + 1] = SigningSession(min)
      /\ \A n \in DOMAIN sessions : n # made + 1 => sessions'[n] = sessions[n]
  <2>1. made + 1 \notin DOMAIN sessions
    BY <1>2
  <2> QED
    BY <1>1, <2>1 DEF Put
<1>4. \A n \in DOMAIN sessions : sessions'[n] = sessions[n]
  BY <1>3
<1>5. DOMAIN sessions' \subseteq 1 .. made' /\ made' \in Nat
  BY <1>1, <1>2, <1>3
<1>6. Count(sessions)' <= MaxSessions
  <2>1. IsFiniteSet(DOMAIN sessions)
    <3>1. IsFiniteSet(1 .. made)
      BY <1>2, FS_Interval
    <3> QED
      BY <1>2, <3>1, FS_Subset
  <2>2. Cardinality(DOMAIN sessions') = Cardinality(DOMAIN sessions) + 1 /\ Cardinality(DOMAIN sessions) \in Nat
    BY <1>3, <2>1, FS_AddElement, FS_CardinalityType
  <2>3. MaxSessions \in Nat
    BY SignerAssumption
  <2> QED
    BY <1>1, <2>2, <2>3 DEF Count
<1>7. SoundSession(SigningSession(min))
  <2>1. min \in Nat
    BY SignerAssumption
  <2>2. DOMAIN <<>> = {}
    OBVIOUS
  <2> QED
    BY <2>1, <2>2 DEF SoundSession, SigningSession
<1>8. \A n \in DOMAIN sessions' : SoundSession(sessions'[n])
  BY <1>3, <1>4, <1>7 DEF SessionsSound
<1> QED
  BY <1>3, <1>4, <1>5, <1>6, <1>8 DEF SessionsSound

\* A session is replaced by what one of its requests leaves.
LEMMA ReplaceKeeps ==
    ASSUME SessionsSound, NEW n \in DOMAIN sessions, NEW t, SoundSession(t),
           sessions' = [sessions EXCEPT ![n] = t], made' = made
    PROVE  /\ SessionsSound'
           /\ DOMAIN sessions' = DOMAIN sessions /\ sessions'[n] = t
           /\ \A x \in DOMAIN sessions : x # n => sessions'[x] = sessions[x]
<1>1. /\ DOMAIN sessions' = DOMAIN sessions /\ sessions'[n] = t
      /\ sessions' = [x \in DOMAIN sessions' |-> sessions'[x]]
      /\ \A x \in DOMAIN sessions : x # n => sessions'[x] = sessions[x]
  BY DEF SessionsSound
<1>2. \A x \in DOMAIN sessions' : SoundSession(sessions'[x])
  BY <1>1 DEF SessionsSound
<1>3. Count(sessions)' = Count(sessions)
  BY <1>1 DEF Count
<1> QED
  BY <1>1, <1>2, <1>3 DEF SessionsSound

\* What a step does to a session that it neither creates nor drops.
Kept(s, t) ==
    /\ \A i \in DOMAIN s.comms : i \in DOMAIN t.comms /\ t.comms[i] = s.comms[i]
    /\ s.state = "complete" => t = s

\* Every step of the signer keeps its sessions sound, and every session that
\* lives on keeps what was recorded in it.
LEMMA SessionStep ==
    ASSUME SessionsSound, [SignerNext]_signerVars
    PROVE  /\ SessionsSound'
           /\ \A n \in DOMAIN sessions \cap DOMAIN sessions' : Kept(sessions[n], sessions'[n])
<1> DEFINE Goal == /\ SessionsSound'
                   /\ \A n \in DOMAIN sessions \cap DOMAIN sessions' : Kept(sessions[n], sessions'[n])
<1>1. ASSUME made' = made, sessions' = sessions \/ sessions' = <<>> PROVE Goal
  <2>1. SessionsSound'
    BY <1>1, SessionsQuiet
  <2>2. DOMAIN <<>> = {}
    OBVIOUS
  <2> QED
    BY <1>1, <2>1, <2>2 DEF Kept
<1>2. ASSUME NEW k \in Key, InstallKeyPackages(k) PROVE Goal
  BY <1>1, <1>2 DEF InstallKeyPackages
<1>3. ASSUME NEW min \in MinSigners, CreateSession(min) PROVE Goal
  BY <1>3, CreateKeeps DEF Kept
<1>4. ASSUME NEW n \in DOMAIN sessions, NEW batch \in Batches, SubmitCommitments(n, batch) PROVE Goal
  <2> DEFINE t == Submit(sessions[n], batch)
  <2>1. SoundSession(sessions[n])
    BY DEF SessionsSound
  <2>2. SoundSession(t) /\ Kept(sessions[n], t)
    BY <2>1, SubmitKeeps DEF Kept
  <2>3. sessions' = [sessions EXCEPT ![n] = t] /\ made' = made
    BY <1>4 DEF SubmitCommitments
  <2> HIDE DEF t
  <2>4. /\ SessionsSound'
        /\ DOMAIN sessions' = DOMAIN sessions /\ sessions'[n] = t
        /\ \A x \in DOMAIN sessions : x # n => sessions'[x] = sessions[x]
    BY <2>2, <2>3, ReplaceKeeps
  <2> QED
    BY <2>2, <2>4 DEF Kept
<1>5. ASSUME NEW n \in DOMAIN sessions, NEW i \in Identifier, NEW k \in Key,
             NEW over \in {None, sessions[n].comms}, SubmitSignatureShare(n, i, k, over)
      PROVE  Goal
  <2> DEFINE t == AddSignatureShare(sessions[n], i, [key |-> k, over |-> over])
  <2>1. SoundSession(sessions[n]) /\ CanShare(sessions[n])
    BY <1>5 DEF SessionsSound, SubmitSignatureShare
  <2>2. SoundSession(t) /\ Kept(sessions[n], t)
    BY <2>1, ShareKeeps DEF Kept, CanShare
  <2>3. sessions' = [sessions EXCEPT ![n] = t] /\ made' = made
    BY <1>5 DEF SubmitSignatureShare
  <2> HIDE DEF t
  <2>4. /\ SessionsSound'
        /\ DOMAIN sessions' = DOMAIN sessions /\ sessions'[n] = t
        /\ \A x \in DOMAIN sessions : x # n => sessions'[x] = sessions[x]
    BY <2>2, <2>3, ReplaceKeeps
  <2> QED
    BY <2>2, <2>4 DEF Kept
<1>6. ASSUME \/ SignerCrash \/ SignerStart \/ UNCHANGED signerVars
             \/ \E k \in Key : InstallCutShort(k)
      PROVE  Goal
  <2>1. made' = made /\ (sessions' = sessions \/ sessions' = <<>>)
    BY <1>6 DEF SignerCrash, SignerStart, InstallCutShort, signerVars
  <2> HIDE DEF Goal
  <2> QED
    BY <1>1, <2>1
<1> HIDE DEF Goal
<1>7. Goal
  BY <1>2, <1>3, <1>4, <1>5, <1>6 DEF SignerNext
<1> QED
  BY <1>7 DEF Goal

\* Every step of the signer keeps the key of the file and of the memory.
LEMMA KeyStep == KeysFollow /\ [SignerNext]_signerVars => KeysFollow'
<1> SUFFICES ASSUME KeysFollow, [SignerNext]_signerVars PROVE KeysFollow'
  OBVIOUS
<1>1. ASSUME NEW k \in Key, InstallKeyPackages(k) PROVE KeysFollow'
  <2>1. signerKey' = k /\ installed' = k /\ SaveToDisk(k)
    BY <1>1 DEF InstallKeyPackages
  <2>2. CASE keyFile' = k /\ keyFault' = keyFault
    BY <2>1, <2>2 DEF KeysFollow
  <2>3. CASE keyFile' \in {keyFile, Torn} /\ keyFault' = TRUE
    BY <2>1, <2>3 DEF KeysFollow
  <2> QED
    BY <2>1, <2>2, <2>3 DEF SaveToDisk
<1>2. ASSUME signerKey' = signerKey, keyFile' = keyFile, signerUp' = signerUp, installed' = installed,
             keyFault' = keyFault
      PROVE  KeysFollow'
  BY <1>2 DEF KeysFollow
<1>3. ASSUME NEW min \in MinSigners, CreateSession(min) PROVE KeysFollow'
  BY <1>2, <1>3 DEF CreateSession
<1>4. ASSUME NEW n \in DOMAIN sessions, NEW batch \in Batches, SubmitCommitments(n, batch) PROVE KeysFollow'
  BY <1>2, <1>4 DEF SubmitCommitments
<1>5. ASSUME NEW n \in DOMAIN sessions, NEW i \in Identifier, NEW k \in Key,
             NEW over \in {None, sessions[n].comms}, SubmitSignatureShare(n, i, k, over)
      PROVE  KeysFollow'
  BY <1>2, <1>5 DEF SubmitSignatureShare
<1>6. CASE SignerCrash
  BY <1>6 DEF SignerCrash, KeysFollow
<1>7. CASE SignerStart
  <2>1. signerKey' = LoadFromDisk /\ keyFile' = keyFile /\ installed' = installed /\ keyFault' = keyFault
    BY <1>7 DEF SignerStart
  <2>2. LoadFromDisk \in Key \cup {None} /\ (~keyFault => LoadFromDisk = installed)
    <3>1. CASE keyFile # Torn
      BY <3>1 DEF LoadFromDisk, KeysFollow
    <3>2. CASE keyFile = Torn
      <4>1. LoadFromDisk = None
        BY <3>2 DEF LoadFromDisk
      <4>2. ~keyFault => installed = None
        BY <3>2, SignerAssumption DEF KeysFollow, Torn
      <4> QED
        BY <4>1, <4>2
    <3> QED
      BY <3>1, <3>2
  <2> QED
    BY <2>1, <2>2 DEF KeysFollow
<1>8. CASE UNCHANGED signerVars
  BY <1>2, <1>8 DEF signerVars
<1>9. ASSUME NEW k \in Key, InstallCutShort(k) PROVE KeysFollow'
  BY <1>9 DEF InstallCutShort, KeysFollow
<1> QED
  BY <1>1, <1>3, <1>4, <1>5, <1>6, <1>7, <1>8, <1>9 DEF SignerNext

\* No step of another process touches the signer, and every step of its own
\* keeps its sessions and its key as they should be.
LEMMA SignerInvariance == ProcessSpec => []SignerInv
<1>1. ProcessInit => SignerInv
  <2> SUFFICES ASSUME SignerInit PROVE SignerInv
    BY DEF ProcessInit
  <2>1. DOMAIN sessions = {} /\ sessions = [n \in DOMAIN sessions |-> sessions[n]]
    BY DEF SignerInit
  <2>2. Count(sessions) = 0 /\ 0 <= MaxSessions
    BY <2>1, FS_EmptySet, SignerAssumption DEF Count
  <2>3. SessionsSound
    BY <2>1, <2>2 DEF SessionsSound, SignerInit
  <2>4. KeysFollow
    BY DEF SignerInit, KeysFollow
  <2> QED
    BY <2>3, <2>4 DEF SignerInv
<1>2. SignerInv /\ [ProcessNext]_processVars => SignerInv'
  <2> SUFFICES ASSUME SignerInv, [ProcessNext]_processVars PROVE SignerInv'
    OBVIOUS
  <2>1. [SignerNext]_signerVars
    BY DEF ProcessNext, Signer, Identityd, Lab, processVars
  <2> QED
    BY <2>1, SessionStep, KeyStep DEF SignerInv
<1> QED
  BY <1>1, <1>2, PTL DEF ProcessSpec

\* The signer's sessions hold exactly their signers and its key is the one it
\* acknowledged, however requests are repeated, cut off or fall into a restart
\* (SubmitCommitments, add_commitments, save_to_disk, load_from_disk).
THEOREM SessionsAreExact == ProcessSpec => []SignerSafe
<1>1. SignerInv => SignerSafe
  <2> SUFFICES ASSUME SignerInv PROVE SignerSafe
    OBVIOUS
  <2>1. \A n \in DOMAIN sessions : SoundSession(sessions[n])
    BY DEF SignerInv, SessionsSound
  <2>2. SignerTypeOK
    BY <2>1 DEF SignerInv, SessionsSound, SoundSession, KeysFollow, SignerTypeOK
  <2>3. ExactSigners
    BY <2>1 DEF SoundSession, ExactSigners
  <2>4. KeyLostHasCause
    BY DEF SignerInv, KeysFollow, KeyLostHasCause
  <2> QED
    BY <2>2, <2>3, <2>4 DEF SignerSafe
<1> QED
  BY <1>1, SignerInvariance, PTL

\* No step of the signer replaces a commitment it recorded, and a client that
\* asks again for the signature of a complete session gets the same answer
\* until another key is installed or the daemon goes down.
THEOREM AnswersStand == ProcessSpec => SessionsStand
<1>1. SignerInv /\ [ProcessNext]_processVars =>
          [\A n \in DOMAIN sessions \cap DOMAIN sessions' :
              \A i \in DOMAIN sessions[n].comms :
                  i \in DOMAIN sessions'[n].comms /\ sessions'[n].comms[i] = sessions[n].comms[i]]_signerVars
  <2> SUFFICES ASSUME SessionsSound, [SignerNext]_signerVars,
                      NEW n \in DOMAIN sessions \cap DOMAIN sessions',
                      NEW i \in DOMAIN sessions[n].comms
               PROVE  i \in DOMAIN sessions'[n].comms /\ sessions'[n].comms[i] = sessions[n].comms[i]
    BY DEF SignerInv, ProcessNext, Signer, Identityd, Lab, processVars
  <2>1. Kept(sessions[n], sessions'[n])
    BY SessionStep
  <2> QED
    BY <2>1 DEF Kept
<1>2. SignerInv /\ [ProcessNext]_processVars =>
          [\A n \in DOMAIN sessions \cap DOMAIN sessions' :
              sessions[n].state = "complete" /\ signerKey' = signerKey =>
                  GetSignature(sessions'[n], signerKey) = GetSignature(sessions[n], signerKey)]_signerVars
  <2> SUFFICES ASSUME SessionsSound, [SignerNext]_signerVars,
                      NEW n \in DOMAIN sessions \cap DOMAIN sessions',
                      sessions[n].state = "complete"
               PROVE  GetSignature(sessions'[n], signerKey) = GetSignature(sessions[n], signerKey)
    BY DEF SignerInv, ProcessNext, Signer, Identityd, Lab, processVars
  <2>1. Kept(sessions[n], sessions'[n])
    BY SessionStep
  <2>2. sessions'[n] = sessions[n]
    BY <2>1 DEF Kept
  <2> QED
    BY <2>2
<1> QED
  BY <1>1, <1>2, SignerInvariance, PTL DEF ProcessSpec, SessionsStand, CommitmentsStand, AnswerRepeats

-----------------------------------------------------------------------------
(***************************************************************************)
(* The lab quorum.  A session id that was begun belongs to one request     *)
(* until it is consumed, and that request counted a quorum online when it  *)
(* began.                                                                  *)
(***************************************************************************)

Active(r) == run[r].pc # "idle"

LabSessionsInv ==
    /\ shares \in [1 .. LabN -> 0 .. Prime - 1]
    /\ online \in 0 .. LabN
    /\ DOMAIN lab \subseteq LabSession /\ consumed \subseteq DOMAIN lab
    /\ lab = [s \in DOMAIN lab |-> lab[s]]
    /\ \A s \in DOMAIN lab :
          /\ lab[s] = [msg |-> lab[s].msg, bound |-> lab[s].bound, partials |-> lab[s].partials]
          /\ lab[s].bound \subseteq used
          /\ NonceCommitment(s, lab[s].msg, 1) \in used
    /\ LocalNonceFresh

LabRequestsInv ==
    /\ run = [r \in Request |-> run[r]]
    /\ \A r \in Request : Active(r) =>
          LET c == run[r] IN
          /\ c = [pc |-> c.pc, session |-> c.session, msg |-> c.msg, online |-> c.online]
          /\ c.pc \in {"collect", "combine"}
          /\ c.session \in DOMAIN lab \ consumed
          /\ c.msg = lab[c.session].msg
          /\ c.online \in LabT .. LabN
          /\ c.pc = "combine" => lab[c.session].partials >= LabT
    /\ \A r, q \in Request : Active(r) /\ Active(q) /\ run[r].session = run[q].session => r = q
    /\ \A s \in DOMAIN lab \ consumed : \E r \in Request : Active(r) /\ run[r].session = s

LabSignedInv ==
    /\ \A g \in signed : g.asked = g.msg /\ g.session \in consumed
    /\ \A g, h \in signed : g.session = h.session => g = h

LabInv == LabSessionsInv /\ LabRequestsInv /\ LabSignedInv

\* A request begins a session under an id and a nonce that are new.
LEMMA BeginKeeps ==
    ASSUME LabInv, NEW r \in Request, NEW s \in LabSession, NEW m, BeginSession(r, s, m)
    PROVE  LabInv'
<1> DEFINE mark == NonceCommitment(s, m, 1)
           rec == [msg |-> m, bound |-> {mark}, partials |-> 0]
           c == [pc |-> "collect", session |-> s, msg |-> m, online |-> online]
<1>1. /\ run[r].pc = "idle" /\ online >= LabT
      /\ s \notin consumed /\ s \notin DOMAIN lab /\ mark \notin used
      /\ used' = used \cup {mark}
      /\ lab' = [x \in DOMAIN lab \cup {s} |-> IF x = s THEN rec ELSE lab[x]]
      /\ run' = [run EXCEPT ![r] = c]
      /\ shares' = shares /\ consumed' = consumed /\ online' = online /\ signed' = signed
  BY DEF BeginSession, FreshId, FreshNonce
<1>2. mark = NonceCommitment(s, m, 1)
  OBVIOUS
<1>3. rec = [msg |-> rec.msg, bound |-> rec.bound, partials |-> rec.partials] /\ rec.msg = m /\ rec.bound = {mark}
  OBVIOUS
<1>4. /\ c = [pc |-> c.pc, session |-> c.session, msg |-> c.msg, online |-> c.online]
      /\ c.pc = "collect" /\ c.session = s /\ c.msg = m /\ c.online = online
  OBVIOUS
<1> HIDE DEF mark, rec, c
<1>5. /\ DOMAIN lab' = DOMAIN lab \cup {s} /\ lab'[s] = rec
      /\ \A x \in DOMAIN lab : lab'[x] = lab[x]
      /\ lab' = [x \in DOMAIN lab' |-> lab'[x]]
  BY <1>1
<1>6. /\ run'[r] = c /\ \A q \in Request : q # r => run'[q] = run[q]
      /\ run' = [q \in Request |-> run'[q]]
  BY <1>1 DEF LabInv, LabRequestsInv
<1>7. \A x, y, i : NonceCommitment(x, y, i)' = NonceCommitment(x, y, i)
  BY <1>1 DEF NonceCommitment
<1>8. \A x \in DOMAIN lab : NonceCommitment(x, lab[x].msg, 1) \in used
  BY DEF LabInv, LabSessionsInv
<1>9. LocalNonceFresh'
  <2> SUFFICES ASSUME NEW x \in DOMAIN lab', NEW y \in DOMAIN lab', x # y
               PROVE  NonceCommitment(x, lab[x].msg, 1)' # NonceCommitment(y, lab[y].msg, 1)'
    BY DEF LocalNonceFresh
  <2> QED
    BY <1>1, <1>2, <1>3, <1>5, <1>7, <1>8 DEF LabInv, LabSessionsInv, LocalNonceFresh
<1>10. LabSessionsInv'
  <2>1. \A x \in DOMAIN lab' :
           /\ lab'[x] = [msg |-> lab'[x].msg, bound |-> lab'[x].bound, partials |-> lab'[x].partials]
           /\ lab'[x].bound \subseteq used'
           /\ NonceCommitment(x, lab[x].msg, 1)' \in used'
    BY <1>1, <1>2, <1>3, <1>5, <1>7 DEF LabInv, LabSessionsInv
  <2> QED
    BY <1>1, <1>5, <1>9, <2>1 DEF LabInv, LabSessionsInv
<1>11. LabRequestsInv'
  <2>0. online \in LabT .. LabN
    BY <1>1, LabAssumption DEF LabInv, LabSessionsInv
  <2>1. \A q \in Request : q # r /\ Active(q) => run[q].session \in DOMAIN lab /\ run[q].session # s
    BY <1>1 DEF LabInv, LabRequestsInv
  <2>2. \A q \in Request : q # r => (Active(q)' <=> Active(q))
    BY <1>6 DEF Active
  <2>3. Active(r)' /\ ~Active(r)
    BY <1>1, <1>4, <1>6 DEF Active
  <2>4. \A q \in Request : Active(q)' =>
           /\ run'[q] = [pc |-> run'[q].pc, session |-> run'[q].session, msg |-> run'[q].msg, online |-> run'[q].online]
           /\ run'[q].pc \in {"collect", "combine"}
           /\ run'[q].session \in DOMAIN lab' \ consumed'
           /\ run'[q].msg = lab'[run'[q].session].msg
           /\ run'[q].online \in LabT .. LabN
           /\ run'[q].pc = "combine" => lab'[run'[q].session].partials >= LabT
    <3> SUFFICES ASSUME NEW q \in Request, Active(q)'
                 PROVE
           /\ run'[q] = [pc |-> run'[q].pc, session |-> run'[q].session, msg |-> run'[q].msg, online |-> run'[q].online]
           /\ run'[q].pc \in {"collect", "combine"}
           /\ run'[q].session \in DOMAIN lab' \ consumed'
           /\ run'[q].msg = lab'[run'[q].session].msg
           /\ run'[q].online \in LabT .. LabN
           /\ run'[q].pc = "combine" => lab'[run'[q].session].partials >= LabT
      OBVIOUS
    <3>1. CASE q = r
      BY <1>1, <1>3, <1>4, <1>5, <1>6, <2>0, <3>1
    <3>2. CASE q # r
      BY <1>1, <1>5, <1>6, <2>2, <3>2 DEF LabInv, LabRequestsInv
    <3> QED
      BY <3>1, <3>2
  <2>5. \A p, q \in Request : Active(p)' /\ Active(q)' /\ run'[p].session = run'[q].session => p = q
    BY <1>4, <1>6, <2>1, <2>2 DEF LabInv, LabRequestsInv
  <2>6. \A x \in DOMAIN lab' \ consumed' : \E q \in Request : Active(q)' /\ run'[q].session = x
    <3> SUFFICES ASSUME NEW x \in DOMAIN lab' \ consumed' PROVE \E q \in Request : Active(q)' /\ run'[q].session = x
      OBVIOUS
    <3>1. CASE x = s
      BY <1>4, <1>6, <2>3, <3>1
    <3>2. CASE x # s
      <4>1. PICK q \in Request : Active(q) /\ run[q].session = x
        BY <1>1, <1>5, <3>2 DEF LabInv, LabRequestsInv
      <4>2. q # r
        BY <2>3, <4>1
      <4> QED
        BY <1>6, <2>2, <4>1, <4>2
    <3> QED
      BY <3>1, <3>2
  <2> QED
    BY <1>6, <2>4, <2>5, <2>6 DEF LabRequestsInv
<1>12. LabSignedInv'
  BY <1>1 DEF LabInv, LabSignedInv
<1> QED
  BY <1>10, <1>11, <1>12 DEF LabInv

\* The partials of a session are collected under the count it began with.
LEMMA CollectKeeps ==
    ASSUME LabInv, NEW r \in Request, CollectPartials(r)
    PROVE  LabInv'
<1> DEFINE c == run[r]
           n == IF c.online < LabN THEN c.online ELSE LabN
           commits == {NonceCommitment(c.session, lab[c.session].msg, i) : i \in 1 .. n}
<1>1. /\ c.pc = "collect" /\ used' = used \cup commits
      /\ lab' = [lab EXCEPT ![c.session].bound = @ \cup commits, ![c.session].partials = n]
      /\ run' = [run EXCEPT ![r].pc = "combine"]
      /\ shares' = shares /\ consumed' = consumed /\ online' = online /\ signed' = signed
  BY DEF CollectPartials
<1>2. /\ Active(r) /\ c.session \in DOMAIN lab \ consumed /\ c.online \in LabT .. LabN
      /\ c = [pc |-> c.pc, session |-> c.session, msg |-> c.msg, online |-> c.online]
  BY <1>1 DEF LabInv, LabRequestsInv, Active
<1>3. n >= LabT
  BY <1>2, LabAssumption
<1>4. lab[c.session] = [msg |-> lab[c.session].msg, bound |-> lab[c.session].bound, partials |-> lab[c.session].partials]
  BY <1>2 DEF LabInv, LabSessionsInv
<1> HIDE DEF commits, n, c
<1>5. /\ DOMAIN lab' = DOMAIN lab
      /\ lab'[c.session] = [msg |-> lab[c.session].msg, bound |-> lab[c.session].bound \cup commits, partials |-> n]
      /\ \A x \in DOMAIN lab : x # c.session => lab'[x] = lab[x]
      /\ lab' = [x \in DOMAIN lab' |-> lab'[x]]
  BY <1>1, <1>2, <1>4 DEF LabInv, LabSessionsInv
<1>6. \A x \in DOMAIN lab : lab'[x].msg = lab[x].msg
  BY <1>5
<1>7. /\ run'[r] = [pc |-> "combine", session |-> c.session, msg |-> c.msg, online |-> c.online]
      /\ \A q \in Request : q # r => run'[q] = run[q]
      /\ run' = [q \in Request |-> run'[q]]
  <2>1. run = [q \in Request |-> run[q]]
    BY DEF LabInv, LabRequestsInv
  <2>2. run' = [run EXCEPT ![r] = [run[r] EXCEPT !.pc = "combine"]]
    BY <1>1
  <2>3. [run[r] EXCEPT !.pc = "combine"] = [pc |-> "combine", session |-> c.session, msg |-> c.msg, online |-> c.online]
    BY <1>2 DEF c
  <2> QED
    BY <2>1, <2>2, <2>3
<1>8. \A x, y, i : NonceCommitment(x, y, i)' = NonceCommitment(x, y, i)
  BY <1>1 DEF NonceCommitment
<1>9. LocalNonceFresh'
  BY <1>5, <1>6, <1>8 DEF LabInv, LabSessionsInv, LocalNonceFresh
<1>10. LabSessionsInv'
  <2>1. \A x \in DOMAIN lab' :
           /\ lab'[x] = [msg |-> lab'[x].msg, bound |-> lab'[x].bound, partials |-> lab'[x].partials]
           /\ lab'[x].bound \subseteq used'
           /\ NonceCommitment(x, lab[x].msg, 1)' \in used'
    <3> SUFFICES ASSUME NEW x \in DOMAIN lab
                 PROVE  /\ lab'[x] = [msg |-> lab'[x].msg, bound |-> lab'[x].bound, partials |-> lab'[x].partials]
                        /\ lab'[x].bound \subseteq used'
                        /\ NonceCommitment(x, lab[x].msg, 1)' \in used'
      BY <1>5
    <3>1. lab[x].bound \subseteq used /\ NonceCommitment(x, lab[x].msg, 1) \in used /\ used \subseteq used'
      BY <1>1 DEF LabInv, LabSessionsInv
    <3>2. NonceCommitment(x, lab[x].msg, 1)' = NonceCommitment(x, lab[x].msg, 1)
      BY <1>6, <1>8
    <3>3. CASE x = c.session
      BY <1>1, <1>5, <3>1, <3>2, <3>3
    <3>4. CASE x # c.session
      BY <1>5, <3>1, <3>2, <3>4 DEF LabInv, LabSessionsInv
    <3> QED
      BY <3>3, <3>4
  <2> QED
    BY <1>1, <1>5, <1>9, <2>1 DEF LabInv, LabSessionsInv
<1>11. LabRequestsInv'
  <2>1. \A q \in Request : /\ Active(q)' <=> Active(q)
                           /\ run'[q].session = run[q].session
                           /\ q # r /\ Active(q) => run[q].session # c.session
    <3>1. \A q \in Request : q # r /\ Active(q) => run[q].session # c.session
      BY <1>2 DEF LabInv, LabRequestsInv, c
    <3>2. Active(r)' /\ run'[r].session = run[r].session
      BY <1>7 DEF Active, c
    <3> QED
      BY <1>2, <1>7, <3>1, <3>2 DEF Active
  <2>2. ASSUME NEW q \in Request, Active(q)'
        PROVE  /\ run'[q] = [pc |-> run'[q].pc, session |-> run'[q].session, msg |-> run'[q].msg, online |-> run'[q].online]
               /\ run'[q].pc \in {"collect", "combine"}
               /\ run'[q].session \in DOMAIN lab' \ consumed'
               /\ run'[q].msg = lab'[run'[q].session].msg
               /\ run'[q].online \in LabT .. LabN
               /\ run'[q].pc = "combine" => lab'[run'[q].session].partials >= LabT
    <3>1. CASE q = r
      <4>1. c.msg = lab[c.session].msg
        BY <1>2 DEF LabInv, LabRequestsInv, c
      <4> QED
        BY <1>1, <1>2, <1>3, <1>5, <1>7, <3>1, <4>1
    <3>2. CASE q # r
      <4>1. Active(q) /\ run'[q] = run[q] /\ run[q].session # c.session
        BY <1>7, <2>1, <2>2, <3>2
      <4> QED
        BY <1>1, <1>5, <4>1 DEF LabInv, LabRequestsInv
    <3> QED
      BY <3>1, <3>2
  <2>3. \A p, q \in Request : Active(p)' /\ Active(q)' /\ run'[p].session = run'[q].session => p = q
    BY <2>1 DEF LabInv, LabRequestsInv
  <2>4. \A x \in DOMAIN lab' \ consumed' : \E q \in Request : Active(q)' /\ run'[q].session = x
    BY <1>1, <1>5, <2>1 DEF LabInv, LabRequestsInv
  <2> QED
    BY <1>7, <2>2, <2>3, <2>4 DEF LabRequestsInv
<1>12. LabSignedInv'
  BY <1>1 DEF LabInv, LabSignedInv
<1> QED
  BY <1>10, <1>11, <1>12 DEF LabInv

\* A request that combines can: its session is consumed and signed once.
LEMMA CombineKeeps ==
    ASSUME LabInv, NEW r \in Request, Combine(r)
    PROVE  LabInv'
<1> DEFINE c == run[r]
           g == [session |-> c.session, asked |-> c.msg, msg |-> lab[c.session].msg]
<1>1. /\ c.pc = "combine" /\ run' = [run EXCEPT ![r] = NoRequest]
      /\ shares' = shares /\ used' = used /\ online' = online
  BY DEF Combine
<1>2. /\ Active(r) /\ c.session \in DOMAIN lab \ consumed /\ c.online \in LabT .. LabN
      /\ c.msg = lab[c.session].msg /\ lab[c.session].partials >= LabT
  BY <1>1 DEF LabInv, LabRequestsInv, Active
<1>3. CanCombine(c)
  <2>1. c.online >= LabT
    BY <1>2, LabAssumption
  <2> QED
    BY <1>2, <2>1 DEF CanCombine
<1>4. /\ consumed' = consumed \cup {c.session}
      /\ lab' = [lab EXCEPT ![c.session].partials = 0]
      /\ signed' = signed \cup {g}
  BY <1>3 DEF Combine
<1>5. lab[c.session] = [msg |-> lab[c.session].msg, bound |-> lab[c.session].bound, partials |-> lab[c.session].partials]
  BY <1>2 DEF LabInv, LabSessionsInv
<1>6. g.session = c.session /\ g.asked = c.msg /\ g.msg = lab[c.session].msg
  OBVIOUS
<1> HIDE DEF c, g
<1>7. /\ DOMAIN lab' = DOMAIN lab
      /\ lab'[c.session] = [msg |-> lab[c.session].msg, bound |-> lab[c.session].bound, partials |-> 0]
      /\ \A x \in DOMAIN lab : x # c.session => lab'[x] = lab[x]
      /\ lab' = [x \in DOMAIN lab' |-> lab'[x]]
  BY <1>2, <1>4, <1>5 DEF LabInv, LabSessionsInv
<1>8. \A x \in DOMAIN lab : lab'[x].msg = lab[x].msg /\ lab'[x].bound = lab[x].bound
  BY <1>7
<1>9. /\ run'[r] = NoRequest /\ \A q \in Request : q # r => run'[q] = run[q]
      /\ run' = [q \in Request |-> run'[q]]
  BY <1>1 DEF LabInv, LabRequestsInv
<1>10. \A x, y, i : NonceCommitment(x, y, i)' = NonceCommitment(x, y, i)
  BY <1>1 DEF NonceCommitment
<1>11. LabSessionsInv'
  <2>1. LocalNonceFresh'
    BY <1>7, <1>8, <1>10 DEF LabInv, LabSessionsInv, LocalNonceFresh
  <2>2. \A x \in DOMAIN lab' :
           /\ lab'[x] = [msg |-> lab'[x].msg, bound |-> lab'[x].bound, partials |-> lab'[x].partials]
           /\ lab'[x].bound \subseteq used'
           /\ NonceCommitment(x, lab[x].msg, 1)' \in used'
    BY <1>1, <1>7, <1>8, <1>10 DEF LabInv, LabSessionsInv
  <2>3. consumed' \subseteq DOMAIN lab'
    BY <1>2, <1>4, <1>7 DEF LabInv, LabSessionsInv
  <2> QED
    BY <1>1, <1>7, <2>1, <2>2, <2>3 DEF LabInv, LabSessionsInv
<1>12. LabRequestsInv'
  <2>1. ~Active(r)' /\ \A q \in Request : q # r => (Active(q)' <=> Active(q))
    BY <1>9 DEF Active, NoRequest
  <2>2. \A q \in Request : q # r /\ Active(q) => run[q].session # c.session
    BY <1>2 DEF LabInv, LabRequestsInv, c
  <2>3. ASSUME NEW q \in Request, Active(q)'
        PROVE  /\ run'[q] = [pc |-> run'[q].pc, session |-> run'[q].session, msg |-> run'[q].msg, online |-> run'[q].online]
               /\ run'[q].pc \in {"collect", "combine"}
               /\ run'[q].session \in DOMAIN lab' \ consumed'
               /\ run'[q].msg = lab'[run'[q].session].msg
               /\ run'[q].online \in LabT .. LabN
               /\ run'[q].pc = "combine" => lab'[run'[q].session].partials >= LabT
    <3>1. q # r /\ Active(q) /\ run'[q] = run[q] /\ run[q].session # c.session
      BY <1>9, <2>1, <2>2, <2>3
    <3> QED
      BY <1>4, <1>7, <3>1 DEF LabInv, LabRequestsInv
  <2>4. \A p, q \in Request : Active(p)' /\ Active(q)' /\ run'[p].session = run'[q].session => p = q
    BY <1>9, <2>1 DEF LabInv, LabRequestsInv
  <2>5. \A x \in DOMAIN lab' \ consumed' : \E q \in Request : Active(q)' /\ run'[q].session = x
    <3> SUFFICES ASSUME NEW x \in DOMAIN lab \ consumed, x # c.session
                 PROVE  \E q \in Request : Active(q)' /\ run'[q].session = x
      BY <1>4, <1>7
    <3>1. PICK q \in Request : Active(q) /\ run[q].session = x
      BY DEF LabInv, LabRequestsInv
    <3>2. q # r
      BY <3>1 DEF c
    <3> QED
      BY <1>9, <2>1, <3>1, <3>2
  <2> QED
    BY <1>9, <2>3, <2>4, <2>5 DEF LabRequestsInv
<1>13. LabSignedInv'
  BY <1>2, <1>4, <1>6 DEF LabInv, LabSignedInv
<1> QED
  BY <1>11, <1>12, <1>13 DEF LabInv

\* Every step of the lab quorum keeps the invariant, the shares and the secret.
LEMMA LabStep == LabInv /\ [LabNext]_labVars => LabInv' /\ shares' = shares /\ secret' = secret
<1> SUFFICES ASSUME LabInv, [LabNext]_labVars PROVE LabInv' /\ shares' = shares /\ secret' = secret
  OBVIOUS
<1>1. ASSUME NEW n \in 0 .. LabN, SetOnline(n) PROVE LabInv' /\ shares' = shares /\ secret' = secret
  BY <1>1 DEF SetOnline, LabInv, LabSessionsInv, LabRequestsInv, LabSignedInv, LocalNonceFresh, NonceCommitment, Active
<1>2. ASSUME NEW r \in Request, NEW s \in LabSession, NEW m \in Message, BeginSession(r, s, m)
      PROVE  LabInv' /\ shares' = shares /\ secret' = secret
  BY <1>2, BeginKeeps DEF BeginSession
<1>3. ASSUME NEW r \in Request, CollectPartials(r) PROVE LabInv' /\ shares' = shares /\ secret' = secret
  BY <1>3, CollectKeeps DEF CollectPartials
<1>4. ASSUME NEW r \in Request, Combine(r) PROVE LabInv' /\ shares' = shares /\ secret' = secret
  BY <1>4, CombineKeeps DEF Combine
<1>5. CASE UNCHANGED labVars
  BY <1>5 DEF labVars, LabInv, LabSessionsInv, LabRequestsInv, LabSignedInv, LocalNonceFresh, NonceCommitment, Active
<1> QED
  BY <1>1, <1>2, <1>3, <1>4, <1>5 DEF LabNext

\* When the shares that were dealt are in the field and interpolate to the
\* secret, every request that began ends with the signature of its own message
\* under a fresh nonce, whatever requests run at the same time and whatever
\* happens to the online count (run_lab_quorum_sign).  The arithmetic of the
\* dealing itself is a fact about the initial states, for TLC.
THEOREM LabQuorumSigns == ProcessSpec /\ LabTypeOK /\ QuorumReconstructs => []LabSafe
<1> DEFINE Inv == LabInv /\ QuorumReconstructs
<1>1. ProcessInit /\ LabTypeOK /\ QuorumReconstructs => Inv
  <2> SUFFICES ASSUME ProcessInit, LabTypeOK PROVE LabInv
    OBVIOUS
  <2>1. /\ lab = <<>> /\ used = {} /\ consumed = {} /\ online = LabN
        /\ run = [r \in Request |-> NoRequest] /\ signed = {}
    BY DEF ProcessInit, LabInit
  <2>2. DOMAIN lab = {} /\ lab = [s \in DOMAIN lab |-> lab[s]]
    BY <2>1
  <2>3. LabSessionsInv
    BY <2>1, <2>2, LabAssumption DEF LabSessionsInv, LabTypeOK, LocalNonceFresh
  <2>4. LabRequestsInv
    BY <2>1, <2>2 DEF LabRequestsInv, Active, NoRequest
  <2> QED
    BY <2>1, <2>3, <2>4 DEF LabInv, LabSignedInv
<1>2. Inv /\ [ProcessNext]_processVars => Inv'
  <2> SUFFICES ASSUME LabInv, QuorumReconstructs, [ProcessNext]_processVars
               PROVE  LabInv' /\ QuorumReconstructs'
    OBVIOUS
  <2>1. [LabNext]_labVars
    BY DEF ProcessNext, Signer, Identityd, Lab, processVars
  <2>2. LabInv' /\ shares' = shares /\ secret' = secret
    BY <2>1, LabStep
  <2> QED
    BY <2>2 DEF QuorumReconstructs
<1>3. Inv => LabSafe
  <2> SUFFICES ASSUME LabInv, QuorumReconstructs PROVE LabSafe
    OBVIOUS
  <2>1. LabTypeOK /\ LocalNonceFresh
    BY DEF LabInv, LabSessionsInv, LabTypeOK
  <2>2. BegunIsSigned
    BY DEF LabInv, LabRequestsInv, Active, BegunIsSigned
  <2>3. AnswersItsRequest
    BY DEF LabInv, LabSignedInv, AnswersItsRequest
  <2> QED
    BY <2>1, <2>2, <2>3 DEF LabSafe
<1> QED
  BY <1>1, <1>2, <1>3, PTL DEF ProcessSpec
=============================================================================
