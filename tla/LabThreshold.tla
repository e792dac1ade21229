---------------------------- MODULE LabThreshold ----------------------------
(***************************************************************************)
(* The lab Shamir quorum: key generation and interpolation in a prime      *)
(* field, and the signing sessions of ThresholdVaultState as concurrent    *)
(* /v1/sign requests drive them.  run_lab_quorum_sign reads the online     *)
(* count once and then takes the state's lock three times.                 *)
(***************************************************************************)
EXTENDS Naturals, FiniteSets, SequencesExt

CONSTANTS
    Prime,      \* LAB_PRIME
    LabN, LabT, \* size of the active set, threshold
    LabSession, \* session ids, numbers
    Message,    \* message hashes, numbers
    Request,    \* concurrent requests
    NoInverse

ASSUME LabAssumption ==
    /\ {Prime, LabN, LabT} \subseteq Nat
    /\ LabT \in 1 .. LabN /\ 1 < LabN /\ LabN < Prime

VARIABLES
    shares,     \* lab_all_shares: index -> value; the local share is the first
    secret,     \* history: the sum of the constant terms, never assembled
    lab,        \* sessions: id -> [msg, bound, partials]
    used,       \* used_nonce_commitments
    consumed,   \* consumed_sessions
    online,     \* OnlineStatusPort::online_count
    run,        \* the requests in flight
    signed      \* history: [session, asked, msg] of every signature returned

labVars == <<shares, secret, lab, used, consumed, online, run, signed>>

-----------------------------------------------------------------------------
(***************************************************************************)
(* The field.                                                              *)
(***************************************************************************)

FieldAdd(a, b) == (a + b) % Prime

FieldMul(a, b) == (a * b) % Prime

FieldSub(a, b) ==
    LET x == a % Prime  y == b % Prime IN IF x >= y THEN x - y ELSE Prime - (y - x)

\* Square and multiply.
ModPow(base, exp) ==
    LET pow[e \in 0 .. exp] ==
            IF e = 0 THEN 1
            ELSE LET half == pow[e \div 2]
                     square == FieldMul(half, half) IN
                 IF e % 2 = 1 THEN FieldMul(square, base % Prime) ELSE square IN
    pow[exp]

\* Fermat; the inverse of zero is an error.
ModInv(a) == IF a % Prime = 0 THEN NoInverse ELSE ModPow(a % Prime, Prime - 2)

EvalPoly(coeffs, x) ==
    FoldLeft(LAMBDA acc, c : [y |-> FieldAdd(acc.y, FieldMul(c, acc.pow)), pow |-> FieldMul(acc.pow, x)],
             [y |-> 0, pow |-> 1], coeffs).y

\* Lagrange at zero; points is a sequence of <<x, y>>.
InterpolateSecret(points) ==
    LET others(i) == [j \in 1 .. Len(points) |-> IF j = i THEN NoInverse ELSE points[j][1]]
        product(i, f(_)) ==
            FoldLeft(LAMBDA acc, x : IF x = NoInverse THEN acc ELSE FieldMul(acc, f(x)), 1, others(i))
        num(i) == product(i, LAMBDA x : FieldSub(0, x))
        den(i) == product(i, LAMBDA x : FieldSub(points[i][1], x))
        inv == [i \in 1 .. Len(points) |-> ModInv(den(i))] IN
    IF Len(points) = 0 \/ \E i \in DOMAIN inv : inv[i] = NoInverse
    THEN NoInverse
    ELSE FoldLeftDomain(LAMBDA acc, i : FieldAdd(acc, FieldMul(points[i][2], FieldMul(num(i), inv[i]))),
                        0, points)

\* Share j is the sum of every node's polynomial at j.
RunDkg(polynomials) ==
    [j \in 1 .. LabN |-> FoldLeft(LAMBDA acc, poly : FieldAdd(acc, EvalPoly(poly, j)), 0, polynomials)]

\* lab_random_u64 is a hash onto 1 .. Prime - 1: collisions are possible.
DeriveNonce(s, m, v) == ((s + m + v) % (Prime - 1)) + 1

NonceCommitment(s, m, i) == <<i, DeriveNonce(s, m, shares[i])>>

-----------------------------------------------------------------------------
NoRequest == [pc |-> "idle"]

\* The coefficients every node may draw.
Polynomials == [1 .. LabN -> [1 .. LabT -> 1 .. Prime - 1]]

LabInit(drawn) ==
    /\ \E polynomials \in drawn :
          /\ shares = RunDkg(polynomials)
          /\ secret = FoldLeft(LAMBDA acc, poly : FieldAdd(acc, poly[1]), 0, polynomials)
    /\ lab = <<>>
    /\ used = {}
    /\ consumed = {}
    /\ online = LabN
    /\ run = [r \in Request |-> NoRequest]
    /\ signed = {}

\* The harness moves the count: partition and fail-stop.
SetOnline(n) ==
    /\ online' = n
    /\ UNCHANGED <<shares, secret, lab, used, consumed, run, signed>>

\* Mutant: only a consumed id counts as used.
FreshIdConsumed(s) == s \notin consumed

FreshId(s) == s \notin consumed /\ s \notin DOMAIN lab

FreshNonce(s, m) == NonceCommitment(s, m, 1) \notin used

BeginSession(r, s, m) ==
    /\ run[r].pc = "idle"
    /\ online >= LabT
    /\ FreshId(s)
    /\ FreshNonce(s, m)
    /\ used' = used \cup {NonceCommitment(s, m, 1)}
    /\ lab' = [x \in DOMAIN lab \cup {s} |->
                  IF x = s THEN [msg |-> m, bound |-> {NonceCommitment(s, m, 1)}, partials |-> 0]
                           ELSE lab[x]]
    /\ run' = [run EXCEPT ![r] = [pc |-> "collect", session |-> s, msg |-> m, online |-> online]]
    /\ UNCHANGED <<shares, secret, consumed, online, signed>>

\* The first partials, one for each node counted online.
CollectPartials(r) ==
    LET c == run[r]
        n == IF c.online < LabN THEN c.online ELSE LabN
        commits == {NonceCommitment(c.session, lab[c.session].msg, i) : i \in 1 .. n} IN
    /\ c.pc = "collect"
    /\ used' = used \cup commits
    /\ lab' = [lab EXCEPT ![c.session].bound = @ \cup commits, ![c.session].partials = n]
    /\ run' = [run EXCEPT ![r].pc = "combine"]
    /\ UNCHANGED <<shares, secret, consumed, online, signed>>

CanCombine(c) == c.online >= LabT /\ c.session \notin consumed /\ lab[c.session].partials >= LabT

\* The first LabT partials are interpolated; the session is spent.
Combine(r) ==
    LET c == run[r] IN
    /\ c.pc = "combine"
    /\ IF CanCombine(c)
       THEN /\ consumed' = consumed \cup {c.session}
            /\ lab' = [lab EXCEPT ![c.session].partials = 0]
            /\ signed' = signed \cup {[session |-> c.session, asked |-> c.msg, msg |-> lab[c.session].msg]}
       ELSE UNCHANGED <<consumed, lab, signed>>
    /\ run' = [run EXCEPT ![r] = NoRequest]
    /\ UNCHANGED <<shares, secret, used, online>>

LabNext ==
    \/ \E n \in 0 .. LabN : SetOnline(n)
    \/ \E r \in Request :
          \/ \E s \in LabSession, m \in Message : BeginSession(r, s, m)
          \/ CollectPartials(r)
          \/ Combine(r)

-----------------------------------------------------------------------------
LabTypeOK ==
    /\ shares \in [1 .. LabN -> 0 .. Prime - 1]
    /\ DOMAIN lab \subseteq LabSession
    /\ consumed \subseteq DOMAIN lab
    /\ \A s \in DOMAIN lab : lab[s].bound \subseteq used

\* Any LabT shares of the generated key interpolate to the sum of the secrets
\* the nodes contributed, in whatever order they come (run_dkg, eval_poly,
\* interpolate_secret, mod_inv).
QuorumReconstructs ==
    \A Q \in {q \in SUBSET (1 .. LabN) : Cardinality(q) = LabT} :
        \A order \in SetToSeqs(Q) : InterpolateSecret([k \in 1 .. LabT |-> <<order[k], shares[order[k]]>>]) = secret

\* The local share never binds one nonce commitment in two sessions, although
\* derived nonces can collide (used_nonce_commitments).
LocalNonceFresh ==
    \A s, t \in DOMAIN lab :
        s # t => NonceCommitment(s, lab[s].msg, 1) # NonceCommitment(t, lab[t].msg, 1)

\* A session id that was begun ends in a signature: no id is spent without one
\* because nodes went offline between the three lock acquisitions of
\* run_lab_quorum_sign.
BegunIsSigned ==
    \A s \in DOMAIN lab : (\E r \in Request : run[r].pc # "idle" /\ run[r].session = s) \/ s \in consumed

\* A request gets a signature over the message it asked for, and no session id
\* signs twice, with requests for the same id and other messages under way.
AnswersItsRequest ==
    /\ \A g \in signed : g.asked = g.msg
    /\ \A g, h \in signed : g.session = h.session => g = h

\* Every quorum reconstructs the secret, and a request that began ends with the
\* signature of its own message under a fresh nonce, whatever requests run at the
\* same time (run_lab_quorum_sign, interpolate_secret).
LabSafe == LabTypeOK /\ QuorumReconstructs /\ LocalNonceFresh /\ BegunIsSigned /\ AnswersItsRequest
=============================================================================
