----------------------- MODULE CandidateManagerProofs -----------------------
(***************************************************************************)
(* What the operators of CandidateManager do to a manager's State, for     *)
(* every value of the constants.                                           *)
(***************************************************************************)
EXTENDS CandidateManager, WellFoundedInduction, TLAPS

-----------------------------------------------------------------------------
(* Sequences *)

\* s is a sequence, of whatever elements
IsSeq(s) == s \in Seq(Range(s))

\* A sequence has a length and its indices reach up to it.
LEMMA SeqShape ==
  ASSUME NEW s, IsSeq(s)
  PROVE  /\ Len(s) \in Nat
         /\ DOMAIN s = 1 .. Len(s)
         /\ \A i \in 1 .. Len(s) : s[i] \in Range(s)
         /\ \A x \in Range(s) : \E i \in 1 .. Len(s) : s[i] = x
BY DEF IsSeq, Range

\* A function on 1 .. n is a sequence of length n.
LEMMA FunctionIsSeq ==
  ASSUME NEW n \in Nat, NEW f, f = [i \in 1 .. n |-> f[i]]
  PROVE  IsSeq(f) /\ Len(f) = n /\ Range(f) = {f[i] : i \in 1 .. n}
<1>1. DOMAIN f = 1 .. n
  OBVIOUS
<1>2. f \in [1 .. n -> Range(f)]
  BY <1>1, Zenon DEF Range
<1> QED
  BY <1>1, <1>2 DEF IsSeq, Range

LEMMA SeqIsSeq ==
  ASSUME NEW Q, NEW s \in Seq(Q)
  PROVE  IsSeq(s) /\ Range(s) \subseteq Q
<1>1. Len(s) \in Nat /\ s = [i \in 1 .. Len(s) |-> s[i]]
  OBVIOUS
<1>2. Range(s) \subseteq Q
  BY DEF Range
<1> QED
  BY <1>1, <1>2, FunctionIsSeq, Zenon

LEMMA NullSeq == IsSeq(<<>>) /\ Range(<<>>) = {} /\ Len(<<>>) = 0
<1>1. Len(<<>>) = 0 /\ <<>> \in Seq({})
  OBVIOUS
<1>2. Range(<<>>) = {}
  BY DEF Range
<1> QED
  BY <1>1, <1>2, Zenon DEF IsSeq

LEMMA NullOnly == ASSUME NEW s, IsSeq(s), Len(s) = 0 \/ Range(s) = {} PROVE s = <<>>
<1>1. Len(s) = 0
  BY SeqShape
<1> QED
  BY <1>1 DEF IsSeq

LEMMA AppendSeq ==
  ASSUME NEW s, IsSeq(s), NEW x
  PROVE  /\ IsSeq(Append(s, x))
         /\ Range(Append(s, x)) = Range(s) \cup {x}
         /\ Len(Append(s, x)) = Len(s) + 1
<1> DEFINE T == Range(s) \cup {x}
           a == Append(s, x)
<1>1. s \in Seq(T)
  BY DEF IsSeq
<1>2. a \in Seq(T) /\ Len(a) = Len(s) + 1 /\ Len(s) \in Nat
  BY <1>1
<1>3. \A i \in 1 .. Len(s) : a[i] = s[i]
  BY <1>1
<1>4. a[Len(s) + 1] = x
  BY <1>1
<1>5. DOMAIN a = 1 .. Len(s) + 1
  BY <1>2
<1>6. Range(a) = T
  <2>1. Range(a) = {a[i] : i \in 1 .. Len(s) + 1}
    BY <1>5, Zenon DEF Range
  <2>2. Range(s) = {s[i] : i \in 1 .. Len(s)}
    BY <1>1 DEF Range
  <2> QED
    BY <2>1, <2>2, <1>2, <1>3, <1>4
<1> QED
  BY <1>2, <1>6, Zenon DEF IsSeq

LEMMA ConcatSeq ==
  ASSUME NEW s, NEW t, IsSeq(s), IsSeq(t)
  PROVE  /\ IsSeq(s \o t)
         /\ Range(s \o t) = Range(s) \cup Range(t)
         /\ Len(s \o t) = Len(s) + Len(t)
<1> DEFINE T == Range(s) \cup Range(t)
           a == s \o t
<1>1. s \in Seq(T) /\ t \in Seq(T)
  BY DEF IsSeq
<1>2. a \in Seq(T) /\ Len(a) = Len(s) + Len(t) /\ Len(s) \in Nat /\ Len(t) \in Nat
  BY <1>1
<1>3. \A i \in 1 .. Len(s) : a[i] = s[i]
  BY <1>1
<1>4. \A i \in 1 .. Len(t) : a[Len(s) + i] = t[i]
  BY <1>1
<1>5. DOMAIN a = 1 .. Len(s) + Len(t)
  BY <1>2
<1>6. Range(a) = T
  <2>1. Range(a) = {a[i] : i \in 1 .. Len(s) + Len(t)}
    BY <1>5, Zenon DEF Range
  <2>2. Range(s) = {s[i] : i \in 1 .. Len(s)} /\ Range(t) = {t[i] : i \in 1 .. Len(t)}
    BY <1>1 DEF Range
  <2>3. ASSUME NEW x \in Range(t) PROVE x \in Range(a)
    <3>1. PICK i \in 1 .. Len(t) : x = t[i]
      BY <2>2, <2>3, Zenon
    <3>2. Len(s) + i \in 1 .. Len(s) + Len(t) /\ a[Len(s) + i] = x
      BY <3>1, <1>2, <1>4
    <3> QED BY <3>2, <2>1, Zenon
  <2>4. ASSUME NEW x \in Range(s) PROVE x \in Range(a)
    BY <2>1, <2>2, <1>2, <1>3
  <2>5. ASSUME NEW i \in 1 .. Len(s) + Len(t) PROVE a[i] \in T
    <3>1. CASE i <= Len(s)
      BY <3>1, <1>2, <1>3, <2>2
    <3>2. CASE i > Len(s)
      <4>1. i - Len(s) \in 1 .. Len(t) /\ Len(s) + (i - Len(s)) = i
        BY <3>2, <1>2
      <4> QED BY <4>1, <1>4, <2>2, Zenon
    <3> QED BY <3>1, <3>2, <1>2
  <2> QED
    BY <2>1, <2>3, <2>4, <2>5, Zenon
<1> QED
  BY <1>2, <1>6, Zenon DEF IsSeq

LEMMA TailSeq ==
  ASSUME NEW s, IsSeq(s), Len(s) > 0
  PROVE  /\ IsSeq(Tail(s))
         /\ Range(Tail(s)) \subseteq Range(s)
         /\ Len(Tail(s)) = Len(s) - 1
<1>1. s \in Seq(Range(s)) /\ s # <<>>
  BY DEF IsSeq
<1>2. Tail(s) \in Seq(Range(s)) /\ Len(Tail(s)) = Len(s) - 1
  BY <1>1
<1> QED
  BY <1>2, SeqIsSeq, Zenon

-----------------------------------------------------------------------------
(* Induction *)

\* A set of numbers has a least one; the prover has no other induction.
LEMMA Least ==
  ASSUME NEW T \in SUBSET Nat, T # {}
  PROVE  \E x \in T : \A y \in T : x <= y
<1> DEFINE R == {ss \in Nat \X Nat : ss[1] < ss[2]}
<1>1. IsWellFoundedOn(R, Nat)
  <2>1. OpToRel(<, Nat) = R
    BY Zenon DEF OpToRel
  <2> QED
    BY <2>1, NatLessThanWellFounded, Zenon
<1>2. PICK x \in T : \A y \in T : <<y, x>> \notin R
  BY <1>1, WFMin, Zenon
<1>3. \A y \in Nat : <<y, x>> \notin R => ~(y < x)
  <2>1. \A y \in Nat : y < x => <<y, x>> \in R
    OBVIOUS
  <2> QED
    BY <2>1, Zenon
<1>4. \A y \in T : ~(y < x)
  BY <1>2, <1>3, Zenon
<1>5. \A y \in T : x <= y
  BY <1>4
<1> QED
  BY <1>5, Zenon

LEMMA Induction ==
  ASSUME NEW S \in SUBSET Nat, 0 \in S, \A n \in S : n + 1 \in S
  PROVE  S = Nat
<1> DEFINE T == Nat \ S
<1>1. SUFFICES ASSUME T # {} PROVE FALSE
  BY Zenon
<1>2. PICK n \in T : \A k \in T : n <= k
  BY <1>1, Least, Zenon
<1>3. n # 0 /\ n \in Nat
  OBVIOUS
<1>4. n - 1 \in Nat /\ ~(n <= n - 1) /\ n = (n - 1) + 1
  BY <1>3
<1>5. n - 1 \in S
  BY <1>2, <1>4, Zenon
<1> QED
  BY <1>4, <1>5, Zenon

\* f is the run of n steps from a, within X.
Solves(f, X, a, n, step) ==
  /\ f \in [0 .. n -> X]
  /\ f[0] = a
  /\ \A i \in 1 .. n : f[i] = step[<<f[i - 1], i>>]

\* A recursion whose step stays in a set has a solution.
LEMMA Recursion ==
  ASSUME NEW X, NEW a \in X, NEW n \in Nat, NEW step \in [X \X (1 .. n) -> X]
  PROVE  \E f : Solves(f, X, a, n, step)
<1> DEFINE N == {k \in Nat : k <= n => \E f : Solves(f, X, a, k, step)}
<1>1. 0 \in N
  <2>1. Solves([i \in 0 .. 0 |-> a], X, a, 0, step)
    BY DEF Solves
  <2> QED
    BY <2>1, Zenon
<1>2. ASSUME NEW k \in N
      PROVE  k + 1 \in N
  <2>1. SUFFICES ASSUME k + 1 <= n PROVE \E f : Solves(f, X, a, k + 1, step)
    OBVIOUS
  <2>2. k \in Nat /\ k <= n
    BY <2>1
  <2>3. PICK f : Solves(f, X, a, k, step)
    BY <2>2, Zenon
  <2> DEFINE g == [i \in 0 .. k + 1 |->
                     IF i = k + 1 THEN step[<<f[k], k + 1>>] ELSE f[i]]
  <2>4. k + 1 \in 1 .. n /\ k \in 0 .. k
    BY <2>1, <2>2
  <2>5. step[<<f[k], k + 1>>] \in X
    BY <2>3, <2>4, Zenon DEF Solves
  <2>6. g \in [0 .. k + 1 -> X]
    BY <2>2, <2>3, <2>5 DEF Solves
  <2>7. g[0] = a
    BY <2>2, <2>3 DEF Solves
  <2>8. ASSUME NEW i \in 1 .. k + 1
        PROVE  g[i] = step[<<g[i - 1], i>>]
    <3>1. g[i - 1] = f[i - 1]
      BY <2>2
    <3>2. CASE i = k + 1
      <4>1. i - 1 = k /\ k + 1 \in 0 .. k + 1
        BY <3>2, <2>2
      <4>2. g[k + 1] = step[<<f[k], k + 1>>]
        BY <4>1, Zenon
      <4> HIDE DEF g
      <4> QED
        BY <3>1, <3>2, <4>1, <4>2, Zenon
    <3>3. CASE i # k + 1
      BY <3>1, <3>3, <2>2, <2>3 DEF Solves
    <3> QED
      BY <3>2, <3>3, Zenon
  <2>9. Solves(g, X, a, k + 1, step)
    BY <2>6, <2>7, <2>8, Zenon DEF Solves
  <2> HIDE DEF g
  <2> QED
    BY <2>9, Zenon
<1>3. N = Nat
  <2>1. N \in SUBSET Nat
    BY Zenon
  <2> HIDE DEF N
  <2> QED
    BY <1>1, <1>2, <2>1, Induction, Zenon
<1>4. PICK f : Solves(f, X, a, n, step)
  <2>1. n <= n
    OBVIOUS
  <2> QED
    BY <2>1, <1>3, Zenon
<1> QED
  BY <1>4, Zenon

\* What every step preserves holds at the end.
LEMMA Iteration ==
  ASSUME NEW X, NEW n \in Nat, NEW g, g[0] \in X,
         \A i \in 1 .. n : g[i - 1] \in X => g[i] \in X
  PROVE  g[n] \in X
<1> DEFINE N == {k \in Nat : k <= n => g[k] \in X}
<1>1. 0 \in N
  OBVIOUS
<1>2. ASSUME NEW k \in N
      PROVE  k + 1 \in N
  <2>1. SUFFICES ASSUME k + 1 <= n PROVE g[k + 1] \in X
    OBVIOUS
  <2>2. k + 1 \in 1 .. n /\ (k + 1) - 1 = k /\ k <= n
    BY <2>1
  <2> QED
    BY <2>2, Zenon
<1>3. N = Nat
  <2>1. N \in SUBSET Nat
    BY Zenon
  <2> HIDE DEF N
  <2> QED
    BY <1>1, <1>2, <2>1, Induction, Zenon
<1>4. n <= n
  OBVIOUS
<1> QED
  BY <1>3, <1>4, Zenon

LEMMA MinIn ==
  ASSUME NEW T \in SUBSET Nat, T # {}
  PROVE  Min(T) \in T
BY Least, Zenon DEF Min

-----------------------------------------------------------------------------
(* The loops of the model *)

\* Keep drops elements and adds none.
LEMMA KeepSeq ==
  ASSUME NEW s, IsSeq(s), NEW I
  PROVE  /\ IsSeq(Keep(s, I))
         /\ \A x \in Range(Keep(s, I)) : \E i \in DOMAIN s : i \in I /\ x = s[i]
         /\ Len(Keep(s, I)) <= Len(s)
<1> DEFINE n == Len(s)
<1>1. n \in Nat /\ DOMAIN s = 1 .. n /\ \A i \in 1 .. n : s[i] \in Range(s)
  BY SeqShape, Zenon
<1> DEFINE S == {s[i] : i \in DOMAIN s \cap I}
           X == Seq(Range(s))
           step == [z \in X \X (1 .. n) |->
                      IF z[2] \in I THEN Append(z[1], s[z[2]]) ELSE z[1]]
           Kept(g) == g = [i \in 0 .. n |->
                             IF i = 0 THEN <<>>
                             ELSE IF i \in I THEN Append(g[i - 1], s[i])
                             ELSE g[i - 1]]
<1>2. \E g : Kept(g)
  <2>1. step \in [X \X (1 .. n) -> X]
    <3>1. ASSUME NEW z \in X \X (1 .. n)
          PROVE  Append(z[1], s[z[2]]) \in X /\ z[1] \in X
      BY <1>1
    <3> QED
      BY <3>1, Zenon
  <2>2. <<>> \in X
    OBVIOUS
  <2>3. PICK g : Solves(g, X, <<>>, n, step)
    <3> HIDE DEF X, step, n
    <3> QED
      BY <1>1, <2>1, <2>2, Recursion, Zenon
  <2>4. /\ g \in [0 .. n -> X] /\ g[0] = <<>>
        /\ \A i \in 1 .. n : g[i] = step[<<g[i - 1], i>>]
    BY <2>3, Zenon DEF Solves
  <2>5. ASSUME NEW i \in 0 .. n, i # 0
        PROVE  g[i] = IF i \in I THEN Append(g[i - 1], s[i]) ELSE g[i - 1]
    <3>1. i \in 1 .. n /\ g[i - 1] \in X
      BY <2>4, <2>5, <1>1
    <3>2. <<g[i - 1], i>> \in X \X (1 .. n)
      BY <3>1, Zenon
    <3> QED
      BY <2>4, <3>1, <3>2, Zenon
  <2>6. Kept(g)
    BY <2>4, <2>5, Zenon
  <2> QED
    BY <2>6, Zenon
<1>3. PICK f : f = CHOOSE g : Kept(g)
  OBVIOUS
<1>4. Keep(s, I) = f[n]
  BY <1>3, Zenon DEF Keep
<1>5. \A i \in 0 .. n : f[i] = IF i = 0 THEN <<>>
                             ELSE IF i \in I THEN Append(f[i - 1], s[i])
                             ELSE f[i - 1]
  <2>1. Kept(f)
    <3> HIDE DEF Kept
    <3> QED
      BY <1>2, <1>3, Zenon
  <2> QED
    BY <2>1, Zenon
<1> DEFINE Fine(i) == IsSeq(f[i]) /\ Range(f[i]) \subseteq S /\ Len(f[i]) <= i
           N == {i \in Nat : i <= n => Fine(i)}
<1>6. 0 \in N
  <2>1. 0 \in 0 .. n
    BY <1>1
  <2>2. f[0] = <<>>
    BY <1>5, <2>1, Zenon
  <2>3. Len(<<>>) <= 0
    BY NullSeq
  <2> QED
    BY <2>2, <2>3, NullSeq, Zenon
<1>7. ASSUME NEW i \in N
      PROVE  i + 1 \in N
  <2>1. SUFFICES ASSUME i + 1 <= n PROVE Fine(i + 1)
    OBVIOUS
  <2>2. /\ i \in Nat /\ i <= n /\ i + 1 \in 0 .. n /\ i + 1 \in 1 .. n
        /\ i + 1 # 0 /\ (i + 1) - 1 = i
    BY <2>1, <1>1
  <2>3. Fine(i)
    BY <2>2, Zenon
  <2>4. Len(f[i]) \in Nat
    BY <2>3, SeqShape, Zenon
  <2>5. f[i + 1] = IF i + 1 \in I THEN Append(f[i], s[i + 1]) ELSE f[i]
    BY <1>5, <2>2, Zenon
  <2>6. CASE i + 1 \in I
    <3>1. f[i + 1] = Append(f[i], s[i + 1])
      BY <2>5, <2>6, Zenon
    <3>2. /\ IsSeq(Append(f[i], s[i + 1]))
          /\ Range(Append(f[i], s[i + 1])) = Range(f[i]) \cup {s[i + 1]}
          /\ Len(Append(f[i], s[i + 1])) = Len(f[i]) + 1
      BY <2>3, AppendSeq, Zenon
    <3>3. s[i + 1] \in S
      BY <2>2, <2>6, <1>1, Zenon
    <3>4. Len(Append(f[i], s[i + 1])) <= i + 1
      BY <3>2, <2>2, <2>3, <2>4
    <3> QED
      BY <3>1, <3>2, <3>3, <3>4, <2>3, Zenon
  <2>7. CASE i + 1 \notin I
    <3>1. f[i + 1] = f[i]
      BY <2>5, <2>7, Zenon
    <3>2. Len(f[i]) <= i + 1
      BY <2>2, <2>3, <2>4
    <3> QED
      BY <3>1, <3>2, <2>3, Zenon
  <2> QED
    BY <2>6, <2>7, Zenon
<1>8. N = Nat
  <2>1. N \in SUBSET Nat
    BY Zenon
  <2> HIDE DEF N
  <2> QED
    BY <1>6, <1>7, <2>1, Induction, Zenon
<1>9. Fine(n)
  <2>1. n <= n
    BY <1>1
  <2> QED
    BY <2>1, <1>1, <1>8, Zenon
<1> QED
  BY <1>4, <1>9, Zenon

-----------------------------------------------------------------------------
(* What holds of a manager's State *)

Fields ==
  {"profile", "closed", "localEpoch", "peerEpoch", "localLoc", "peerLoc",
   "binding", "old", "proposals", "candidates", "results", "tokens", "refill",
   "secret", "frozen", "outbound", "emitted", "admitted", "admission", "owner",
   "tombs"}

\* m is a record of these fields.
IsState(m) == DOMAIN m = Fields /\ m = [f \in Fields |-> m[f]]

CandidateFields ==
  {"id", "loc", "epoch", "binding", "expiry", "response", "state"}

OutboundFields == {"id", "loc", "epoch", "binding", "expiry"}

\* The moves a peer plans have numbers for ids and epochs, and one id names
\* one move.
PlanGood(plan) ==
  /\ \A p \in plan : p.id \in Nat /\ p.epoch \in Nat
  /\ \A p, q \in plan : p.id = q.id => p = q

\* x is about a planned move.
Named(x, plan) ==
  \E p \in plan : p.id = x.id /\ p.loc = x.loc /\ p.epoch = x.epoch

\* s is a sequence that fits the slots.
Fits(s) == IsSeq(s) /\ Len(s) <= SLOTS

Stores(m) ==
  /\ Fits(m.proposals) /\ Fits(m.candidates) /\ Fits(m.outbound)
  /\ Fits(m.emitted) /\ Fits(m.tombs) /\ IsSeq(m.results)

\* Cached proposals are planned moves beyond the committed epoch.
ProposalsGood(m, plan) ==
  \A p \in Range(m.proposals) : Named(p, plan) /\ p.epoch > m.peerEpoch

\* So are candidates, and a proven one was answered: its id is in W.
CandidatesGood(m, plan, W) ==
  \A c \in Range(m.candidates) :
    /\ DOMAIN c = CandidateFields
    /\ Named(c, plan) /\ c.epoch > m.peerEpoch
    /\ c.state = "Proven" => c.id \in W

\* Own proposals are beyond this end's committed epoch.
OutboundGood(m) ==
  \A c \in Range(m.outbound) :
    /\ DOMAIN c = OutboundFields
    /\ c.epoch \in Nat /\ c.epoch > m.localEpoch

\* A frozen cohort is of one epoch, beyond the committed one.
FrozenGood(m, plan) ==
  m.frozen # None =>
    /\ m.frozen.epoch \in Nat /\ m.frozen.epoch > m.peerEpoch
    /\ Fits(m.frozen.members)
    /\ \A p \in Range(m.frozen.members) :
         Named(p, plan) /\ p.epoch = m.frozen.epoch

\* After its admission a profile-3 manager holds nothing it could settle.
AdmittedGood(m) ==
  m.admitted =>
    /\ m.profile = 3 /\ m.owner = FALSE /\ m.secret = FALSE
    /\ m.proposals = <<>> /\ m.candidates = <<>> /\ m.outbound = <<>>
    /\ m.frozen = None

Good(m, plan, W) ==
  /\ IsState(m)
  /\ m.peerEpoch \in Nat /\ m.localEpoch \in Nat
  /\ m.admitted \in BOOLEAN /\ m.owner \in BOOLEAN
  /\ Stores(m)
  /\ ProposalsGood(m, plan)
  /\ CandidatesGood(m, plan, W)
  /\ OutboundGood(m)
  /\ FrozenGood(m, plan)
  /\ AdmittedGood(m)

\* What becomes of the committed state from m to n: epochs never go back, a
\* locator changes only with its epoch, the peer's to a move in plan whose id
\* is in W, and an admission is final.
Moves(m, n, plan, W) ==
  /\ n.peerEpoch >= m.peerEpoch /\ n.localEpoch >= m.localEpoch
  /\ n.peerLoc # m.peerLoc => n.peerEpoch > m.peerEpoch
  /\ n.localLoc # m.localLoc => n.localEpoch > m.localEpoch
  /\ n.peerEpoch # m.peerEpoch =>
       \E p \in plan : p.loc = n.peerLoc /\ p.epoch = n.peerEpoch /\ p.id \in W
  /\ m.admitted => n.admitted /\ n.admission \in {m.admission, None}

Steps(m, n, plan, W) == Good(n, plan, W) /\ Moves(m, n, plan, W)

\* Steps compose.
LEMMA StepsTrans ==
  ASSUME NEW m, NEW n, NEW o, NEW plan, NEW W,
         Good(m, plan, W), Steps(m, n, plan, W), Steps(n, o, plan, W)
  PROVE  Steps(m, o, plan, W)
<1>1. /\ m.peerEpoch \in Nat /\ n.peerEpoch \in Nat /\ o.peerEpoch \in Nat
      /\ m.localEpoch \in Nat /\ n.localEpoch \in Nat /\ o.localEpoch \in Nat
  BY Zenon DEF Steps, Good
<1>2. Moves(m, n, plan, W) /\ Moves(n, o, plan, W)
  BY Zenon DEF Steps
<1>3. /\ o.peerEpoch >= m.peerEpoch /\ o.localEpoch >= m.localEpoch
      /\ o.peerLoc # m.peerLoc => o.peerEpoch > m.peerEpoch
      /\ o.localLoc # m.localLoc => o.localEpoch > m.localEpoch
  BY <1>1, <1>2 DEF Moves
<1>4. ASSUME o.peerEpoch # m.peerEpoch
      PROVE  \E p \in plan :
               p.loc = o.peerLoc /\ p.epoch = o.peerEpoch /\ p.id \in W
  <2>1. CASE o.peerEpoch # n.peerEpoch
    BY <1>2, <2>1, Zenon DEF Moves
  <2>2. CASE o.peerEpoch = n.peerEpoch
    <3>1. o.peerLoc = n.peerLoc
      BY <2>2, <1>1, <1>2 DEF Moves
    <3> QED
      BY <1>2, <1>4, <2>2, <3>1, Zenon DEF Moves
  <2> QED
    BY <2>1, <2>2, Zenon
<1>5. m.admitted => o.admitted /\ o.admission \in {m.admission, None}
  BY <1>2, Zenon DEF Moves
<1> QED
  BY <1>3, <1>4, <1>5, Zenon DEF Steps, Moves

LEMMA StepsRefl ==
  ASSUME NEW m, NEW plan, NEW W, Good(m, plan, W)
  PROVE  Steps(m, m, plan, W)
<1>1. m.peerEpoch >= m.peerEpoch /\ m.localEpoch >= m.localEpoch
  BY DEF Good
<1> QED
  BY <1>1, Zenon DEF Steps, Moves

\* s holds elements of t only.
Sub(s, t) == IsSeq(s) /\ Range(s) \subseteq Range(t) /\ Len(s) <= Len(t)

\* s holds candidates of t, some of them failed.
Faded(s, t) ==
  /\ IsSeq(s) /\ Len(s) <= Len(t)
  /\ \A x \in Range(s) :
       x \in Range(t) \/ \E c \in Range(t) : x = Fail(c)

LEMMA ShorterFits ==
  ASSUME NEW s, NEW t, Fits(t), IsSeq(s), Len(s) <= Len(t)
  PROVE  Fits(s) /\ (t = <<>> => s = <<>>)
<1>1. Len(s) \in Nat /\ Len(t) \in Nat
  BY SeqShape, Zenon DEF Fits
<1>2. Len(s) <= SLOTS
  BY <1>1 DEF Fits, SLOTS
<1>3. ASSUME t = <<>> PROVE s = <<>>
  <2>1. Len(s) = 0
    BY <1>1, <1>3, NullSeq
  <2> QED
    BY <2>1, NullOnly, Zenon
<1> QED
  BY <1>2, <1>3, Zenon DEF Fits

LEMMA NullFits == Fits(<<>>)
BY NullSeq DEF Fits, SLOTS

LEMMA SubSelf == ASSUME NEW s, IsSeq(s) PROVE Sub(s, s) /\ Faded(s, s)
<1>1. Len(s) <= Len(s)
  BY SeqShape
<1> QED
  BY <1>1, Zenon DEF Sub, Faded

LEMMA KeepSub == ASSUME NEW s, IsSeq(s), NEW I PROVE Sub(Keep(s, I), s)
<1>1. /\ IsSeq(Keep(s, I))
      /\ \A x \in Range(Keep(s, I)) : \E i \in DOMAIN s : i \in I /\ x = s[i]
      /\ Len(Keep(s, I)) <= Len(s)
  BY KeepSeq, Zenon
<1>2. \A i \in DOMAIN s : s[i] \in Range(s)
  BY SeqShape, Zenon
<1> QED
  BY <1>1, <1>2, Zenon DEF Sub

\* m and n agree on the committed state.
SameCore(m, n) ==
  /\ n.profile = m.profile
  /\ n.peerEpoch = m.peerEpoch /\ n.localEpoch = m.localEpoch
  /\ n.peerLoc = m.peerLoc /\ n.localLoc = m.localLoc
  /\ n.admitted = m.admitted /\ n.admission = m.admission
  /\ n.owner = m.owner /\ n.secret = m.secret

LEMMA CoreMoves ==
  ASSUME NEW m, NEW n, NEW plan, NEW W, Good(m, plan, W), SameCore(m, n)
  PROVE  Moves(m, n, plan, W)
<1>1. n.peerEpoch >= m.peerEpoch /\ n.localEpoch >= m.localEpoch
  BY DEF Good, SameCore
<1> QED
  BY <1>1, Zenon DEF Moves, SameCore

\* Dropping entries and failing candidates keeps a State good.
LEMMA Shrinks ==
  ASSUME NEW m, NEW n, NEW plan, NEW W, Good(m, plan, W),
         IsState(n), SameCore(m, n),
         Sub(n.proposals, m.proposals), Faded(n.candidates, m.candidates),
         Sub(n.outbound, m.outbound), Fits(n.emitted), Fits(n.tombs),
         IsSeq(n.results), n.frozen = m.frozen \/ n.frozen = None
  PROVE  Steps(m, n, plan, W)
<1>1. /\ Fits(n.proposals) /\ (m.proposals = <<>> => n.proposals = <<>>)
      /\ Fits(n.candidates) /\ (m.candidates = <<>> => n.candidates = <<>>)
      /\ Fits(n.outbound) /\ (m.outbound = <<>> => n.outbound = <<>>)
  BY ShorterFits, Zenon DEF Good, Stores, Sub, Faded
<1>2. Stores(n)
  BY <1>1, Zenon DEF Stores
<1>3. ProposalsGood(n, plan)
  BY Zenon DEF Good, ProposalsGood, Sub, SameCore
<1>4. CandidatesGood(n, plan, W)
  <2>1. SUFFICES ASSUME NEW x \in Range(n.candidates)
                 PROVE  /\ DOMAIN x = CandidateFields
                        /\ Named(x, plan) /\ x.epoch > n.peerEpoch
                        /\ x.state = "Proven" => x.id \in W
    BY Zenon DEF CandidatesGood
  <2>2. \A c \in Range(m.candidates) :
          /\ DOMAIN c = CandidateFields
          /\ Named(c, plan) /\ c.epoch > n.peerEpoch
          /\ c.state = "Proven" => c.id \in W
    BY Zenon DEF Good, CandidatesGood, SameCore
  <2>3. ASSUME NEW c \in Range(m.candidates), x = Fail(c)
        PROVE  /\ DOMAIN x = CandidateFields
               /\ x.id = c.id /\ x.loc = c.loc /\ x.epoch = c.epoch
               /\ x.state = "Failed"
    <3>1. DOMAIN c = CandidateFields
      BY <2>2, Zenon
    <3> QED
      BY <2>3, <3>1 DEF Fail, CandidateFields
  <2>4. ASSUME NEW c \in Range(m.candidates), x = Fail(c)
        PROVE  Named(x, plan) /\ x.epoch > n.peerEpoch /\ x.state # "Proven"
    <3>1. Named(c, plan) /\ c.epoch > n.peerEpoch
      BY <2>2, Zenon
    <3>2. x.id = c.id /\ x.loc = c.loc /\ x.epoch = c.epoch
      BY <2>3, <2>4, Zenon
    <3>3. x.state # "Proven"
      <4>1. x.state = "Failed"
        BY <2>3, <2>4, Zenon
      <4> QED
        BY <4>1
    <3> QED
      BY <3>1, <3>2, <3>3, Zenon DEF Named
  <2>5. x \in Range(m.candidates) \/ \E c \in Range(m.candidates) : x = Fail(c)
    BY Zenon DEF Faded
  <2> QED
    BY <2>2, <2>3, <2>4, <2>5, Zenon
<1>5. OutboundGood(n)
  BY Zenon DEF Good, OutboundGood, Sub, SameCore
<1>6. FrozenGood(n, plan)
  BY Zenon DEF Good, FrozenGood, SameCore
<1>7. AdmittedGood(n)
  BY <1>1, Zenon DEF Good, AdmittedGood, SameCore
<1>8. Good(n, plan, W)
  BY <1>2, <1>3, <1>4, <1>5, <1>6, <1>7, Zenon DEF Good, SameCore
<1> QED
  BY <1>8, CoreMoves, Zenon DEF Steps

-----------------------------------------------------------------------------
(* Tombstones and expiry *)

LEMMA FreeSlot == \A k \in Nat : k <= SLOTS /\ k # SLOTS => k + 1 <= SLOTS
BY DEF SLOTS

\* record_tombstone keeps the tombstones within their slots.
LEMMA TombstoneFits ==
  ASSUME NEW E, NEW ts \in Seq(E), Len(ts) <= SLOTS, NEW id, NEW now,
         [id |-> id, expiry |-> now + RESULT_LIFE] \in E
  PROVE  /\ RecordTombstone(ts, id, now) \in Seq(E)
         /\ Len(RecordTombstone(ts, id, now)) <= SLOTS
<1> DEFINE x == [id |-> id, expiry |-> now + RESULT_LIFE]
<1>1. CASE Has(ts, id)
  BY <1>1, Zenon DEF RecordTombstone
<1>2. CASE ~Has(ts, id) /\ Len(ts) = SLOTS
  <2>1. RecordTombstone(ts, id, now) = Append(Tail(ts), x)
    BY <1>2, Zenon DEF RecordTombstone
  <2> HIDE DEF x
  <2>2. Tail(ts) \in Seq(E) /\ Len(Tail(ts)) = Len(ts) - 1
    <3>1. ts # <<>>
      BY <1>2 DEF SLOTS
    <3> QED
      BY <3>1
  <2>3. x \in E
    BY Zenon DEF x
  <2>4. Append(Tail(ts), x) \in Seq(E) /\ Len(Append(Tail(ts), x)) = Len(ts)
    BY <2>2, <2>3
  <2> QED
    BY <2>1, <2>4, Zenon
<1>3. CASE ~Has(ts, id) /\ Len(ts) # SLOTS
  <2>1. RecordTombstone(ts, id, now) = Append(ts, x)
    BY <1>3, Zenon DEF RecordTombstone
  <2> HIDE DEF x
  <2>2. x \in E
    BY Zenon DEF x
  <2>3. Append(ts, x) \in Seq(E) /\ Len(Append(ts, x)) = Len(ts) + 1
    BY <2>2
  <2>4. Len(ts) \in Nat /\ Len(ts) # SLOTS
    BY <1>3
  <2>5. Len(ts) + 1 <= SLOTS
    BY <2>4, FreeSlot, Zenon
  <2> QED
    BY <2>1, <2>3, <2>5, Zenon
<1> QED
  BY <1>1, <1>2, <1>3, Zenon

LEMMA TombstonesFit ==
  ASSUME NEW ts, Fits(ts), NEW s, IsSeq(s), NEW now
  PROVE  Fits(RecordTombstones(ts, s, now))
<1> DEFINE n == Len(s)
           E == Range(ts) \cup
                  {[id |-> s[i].id, expiry |-> now + RESULT_LIFE] : i \in 1 .. n}
           X == {t \in Seq(E) : Len(t) <= SLOTS}
           step == [z \in X \X (1 .. n) |-> RecordTombstone(z[1], s[z[2]].id, now)]
           After(g) == g = [i \in 0 .. n |->
                              IF i = 0 THEN ts
                              ELSE RecordTombstone(g[i - 1], s[i].id, now)]
<1>1. n \in Nat
  BY SeqShape, Zenon
<1>2. ts \in X
  <2>1. ts \in Seq(Range(ts)) /\ Range(ts) \subseteq E
    BY Zenon DEF Fits, IsSeq
  <2>2. ts \in Seq(E)
    <3> HIDE DEF E
    <3> QED
      BY <2>1
  <2> QED
    BY <2>2, Zenon DEF Fits
<1>3. ASSUME NEW t \in X, NEW i \in 1 .. n
      PROVE  RecordTombstone(t, s[i].id, now) \in X
  <2>1. [id |-> s[i].id, expiry |-> now + RESULT_LIFE] \in E
    BY Zenon
  <2>2. t \in Seq(E) /\ Len(t) <= SLOTS
    BY Zenon
  <2> HIDE DEF E
  <2>3. /\ RecordTombstone(t, s[i].id, now) \in Seq(E)
        /\ Len(RecordTombstone(t, s[i].id, now)) <= SLOTS
    BY <2>1, <2>2, TombstoneFits, Zenon
  <2> QED
    BY <2>3, Zenon
<1> HIDE DEF X
<1>4. \E g : After(g)
  <2>1. step \in [X \X (1 .. n) -> X]
    <3>1. ASSUME NEW z \in X \X (1 .. n)
          PROVE  z[1] \in X /\ z[2] \in 1 .. n
      OBVIOUS
    <3> QED
      BY <1>3, <3>1, Zenon
  <2>2. PICK g : Solves(g, X, ts, n, step)
    <3> HIDE DEF step, n
    <3> QED
      BY <1>1, <1>2, <2>1, Recursion, Zenon
  <2>3. /\ g \in [0 .. n -> X] /\ g[0] = ts
        /\ \A i \in 1 .. n : g[i] = step[<<g[i - 1], i>>]
    BY <2>2, Zenon DEF Solves
  <2>4. ASSUME NEW i \in 0 .. n, i # 0
        PROVE  g[i] = RecordTombstone(g[i - 1], s[i].id, now)
    <3>1. i \in 1 .. n /\ g[i - 1] \in X
      BY <2>3, <2>4, <1>1
    <3>2. <<g[i - 1], i>> \in X \X (1 .. n)
      BY <3>1, Zenon
    <3> QED
      BY <2>3, <3>1, <3>2, Zenon
  <2>5. After(g)
    BY <2>3, <2>4, Zenon
  <2> QED
    BY <2>5, Zenon
<1>5. PICK f : f = CHOOSE g : After(g)
  OBVIOUS
<1>6. RecordTombstones(ts, s, now) = f[n]
  BY <1>5, Zenon DEF RecordTombstones
<1>7. \A i \in 0 .. n : f[i] = IF i = 0 THEN ts
                             ELSE RecordTombstone(f[i - 1], s[i].id, now)
  <2>1. After(f)
    <3> HIDE DEF After
    <3> QED
      BY <1>4, <1>5, Zenon
  <2> QED
    BY <2>1, Zenon
<1>8. f[n] \in X
  <2>1. 0 \in 0 .. n /\ \A i \in 1 .. n : i \in 0 .. n /\ i # 0
    BY <1>1
  <2>2. f[0] \in X
    BY <1>2, <1>7, <2>1, Zenon
  <2>3. \A i \in 1 .. n : f[i - 1] \in X => f[i] \in X
    BY <1>3, <1>7, <2>1, Zenon
  <2> HIDE DEF n
  <2> QED
    BY <1>1, <2>2, <2>3, Iteration, Zenon
<1>9. f[n] \in Seq(E) /\ Len(f[n]) <= SLOTS
  BY <1>8, Zenon DEF X
<1> HIDE DEF E
<1> QED
  BY <1>6, <1>9, SeqIsSeq, Zenon DEF Fits

\* A candidate fails where it stands.
LEMMA FadedMap ==
  ASSUME NEW t, IsSeq(t), NEW s, s = [i \in DOMAIN t |-> s[i]],
         \A i \in DOMAIN t : s[i] = t[i] \/ s[i] = Fail(t[i])
  PROVE  Faded(s, t)
<1>1. Len(t) \in Nat /\ DOMAIN t = 1 .. Len(t) /\ \A i \in DOMAIN t : t[i] \in Range(t)
  BY SeqShape, Zenon
<1>2. IsSeq(s) /\ Len(s) = Len(t) /\ Range(s) = {s[i] : i \in 1 .. Len(t)}
  BY <1>1, FunctionIsSeq, Zenon
<1>3. Len(s) <= Len(t)
  BY <1>1, <1>2
<1> QED
  BY <1>1, <1>2, <1>3, Zenon DEF Faded

LEMMA FailChallengesGood ==
  ASSUME NEW m, NEW plan, NEW W, NEW now, Good(m, plan, W)
  PROVE  Steps(m, FailChallenges(m, now), plan, W)
<1> DEFINE cs == [i \in DOMAIN m.candidates |->
                    IF now >= m.candidates[i].expiry
                         /\ m.candidates[i].state = "Challenged"
                    THEN Fail(m.candidates[i]) ELSE m.candidates[i]]
           n == [m EXCEPT !.candidates = cs]
<1>1. FailChallenges(m, now) = n
  BY Zenon DEF FailChallenges
<1>2. Faded(cs, m.candidates)
  <2>1. \A i \in DOMAIN m.candidates :
          cs[i] = m.candidates[i] \/ cs[i] = Fail(m.candidates[i])
    BY Zenon
  <2>2. cs = [i \in DOMAIN m.candidates |-> cs[i]]
    BY Zenon
  <2>3. IsSeq(m.candidates)
    BY Zenon DEF Good, Stores, Fits
  <2> HIDE DEF cs
  <2> QED
    BY <2>1, <2>2, <2>3, FadedMap, Zenon
<1> HIDE DEF cs
<1>3. /\ IsState(n) /\ SameCore(m, n)
      /\ n.proposals = m.proposals /\ n.candidates = cs
      /\ n.outbound = m.outbound /\ n.emitted = m.emitted /\ n.tombs = m.tombs
      /\ n.results = m.results /\ n.frozen = m.frozen
  BY Zenon DEF Good, IsState, Fields, SameCore
<1> HIDE DEF n
<1>4. Sub(n.proposals, m.proposals) /\ Sub(n.outbound, m.outbound)
  BY <1>3, SubSelf, Zenon DEF Good, Stores, Fits
<1> QED
  BY <1>1, <1>2, <1>3, <1>4, Shrinks, Zenon DEF Good, Stores

LEMMA FailMembersGood ==
  ASSUME NEW m, NEW plan, NEW W, NEW now, Good(m, plan, W)
  PROVE  Steps(m, FailMembers(m, now), plan, W)
<1> DEFINE expired == ExpiredMembers(m, now)
           first(i) == \A j \in 1 .. i - 1 : m.candidates[j].id # m.candidates[i].id
           fails(i) == /\ Has(expired, m.candidates[i].id)
                       /\ first(i)
                       /\ m.candidates[i].state \notin {"Proven", "Failed"}
           cs == [i \in DOMAIN m.candidates |->
                    IF fails(i) THEN Fail(m.candidates[i]) ELSE m.candidates[i]]
           ts == RecordTombstones(m.tombs, expired, now)
           n == [m EXCEPT !.candidates = cs, !.tombs = ts]
<1>1. FailMembers(m, now) = n
  BY Zenon DEF FailMembers
<1>2. Faded(cs, m.candidates)
  <2>1. \A i \in DOMAIN m.candidates :
          cs[i] = m.candidates[i] \/ cs[i] = Fail(m.candidates[i])
    <3> HIDE DEF fails
    <3> QED
      BY Zenon
  <2>2. cs = [i \in DOMAIN m.candidates |-> cs[i]]
    <3> HIDE DEF fails
    <3> QED
      BY Zenon
  <2>3. IsSeq(m.candidates)
    BY Zenon DEF Good, Stores, Fits
  <2> HIDE DEF cs
  <2> QED
    BY <2>1, <2>2, <2>3, FadedMap, Zenon
<1>3. Fits(ts)
  <2>1. IsSeq(FrozenMembers(m))
    BY NullSeq, Zenon DEF FrozenMembers, Good, FrozenGood, Fits
  <2>2. IsSeq(expired)
    BY <2>1, KeepSub, Zenon DEF ExpiredMembers, Expired, Sub
  <2>3. Fits(m.tombs)
    BY Zenon DEF Good, Stores
  <2> HIDE DEF expired
  <2> QED
    BY <2>2, <2>3, TombstonesFit, Zenon
<1> HIDE DEF cs, ts
<1>4. /\ IsState(n) /\ SameCore(m, n)
      /\ n.proposals = m.proposals /\ n.candidates = cs
      /\ n.outbound = m.outbound /\ n.emitted = m.emitted /\ n.tombs = ts
      /\ n.results = m.results /\ n.frozen = m.frozen
  BY Zenon DEF Good, IsState, Fields, SameCore
<1> HIDE DEF n
<1>5. Sub(n.proposals, m.proposals) /\ Sub(n.outbound, m.outbound)
  BY <1>4, SubSelf, Zenon DEF Good, Stores, Fits
<1> QED
  BY <1>1, <1>2, <1>3, <1>4, <1>5, Shrinks, Zenon DEF Good, Stores

\* The manager m with other results emitted and cached
Emitting(m, E, R) ==
  {x \in [Fields -> {m[f] : f \in Fields} \cup Seq(E) \cup Seq(R)] :
     /\ \A f \in Fields \ {"emitted", "results"} : x[f] = m[f]
     /\ x.emitted \in Seq(E) /\ Len(x.emitted) <= SLOTS
     /\ x.results \in Seq(R)}

LEMMA EmitFailureStays ==
  ASSUME NEW m, NEW E, NEW R, NEW x \in Emitting(m, E, R), NEW p, NEW now,
         ResultEntry(p, 3, now, None) \in R,
         ResultBytes(ResultEntry(p, 3, now, None)) \in E
  PROVE  EmitFailure(x, p, now) \in Emitting(m, E, R)
<1> DEFINE e == ResultEntry(p, 3, now, None)
           b == ResultBytes(e)
           refused == \/ Len(x.results) >= SLOTS \/ Len(x.emitted) >= SLOTS
                      \/ Has(x.results, p.id)
           V == {m[f] : f \in Fields} \cup Seq(E) \cup Seq(R)
           y == [x EXCEPT !.emitted = Append(x.emitted, b),
                          !.results = Append(x.results, e)]
<1>1. CASE refused
  BY <1>1, Zenon DEF EmitFailure
<1>2. CASE ~refused
  <2>1. EmitFailure(x, p, now) = y
    BY <1>2, Zenon DEF EmitFailure
  <2>2. /\ x \in [Fields -> V]
        /\ \A f \in Fields \ {"emitted", "results"} : x[f] = m[f]
        /\ x.emitted \in Seq(E) /\ x.results \in Seq(R)
        /\ ~(Len(x.emitted) >= SLOTS)
    BY <1>2, Zenon DEF Emitting
  <2>3. e \in R /\ b \in E
    BY Zenon
  <2> HIDE DEF e, b
  <2>4. /\ Append(x.emitted, b) \in Seq(E)
        /\ Append(x.results, e) \in Seq(R)
        /\ Len(Append(x.emitted, b)) <= SLOTS
    BY <2>2, <2>3 DEF SLOTS
  <2>5. /\ y \in [Fields -> V]
        /\ y.emitted = Append(x.emitted, b) /\ y.results = Append(x.results, e)
    <3>1. "emitted" \in Fields /\ "results" \in Fields
      BY Zenon DEF Fields
    <3>2. Append(x.emitted, b) \in V /\ Append(x.results, e) \in V
      BY <2>4, Zenon
    <3> HIDE DEF V
    <3> QED
      BY <2>2, <3>1, <3>2, Zenon
  <2>6. \A f \in Fields \ {"emitted", "results"} : y[f] = m[f]
    BY <2>2, Zenon
  <2> HIDE DEF y
  <2> QED
    BY <2>1, <2>4, <2>5, <2>6, Zenon DEF Emitting
<1> QED
  BY <1>1, <1>2, Zenon

LEMMA EmitFailuresGood ==
  ASSUME NEW m, NEW plan, NEW W, NEW members, NEW now, Good(m, plan, W)
  PROVE  Steps(m, EmitFailures(m, members, now), plan, W)
<1> DEFINE failed == Keep(m.candidates, {i \in DOMAIN m.candidates :
                            /\ m.candidates[i].state = "Failed"
                            /\ ~Has(members, m.candidates[i].id)
                            /\ Has(m.proposals, m.candidates[i].id)})
           n == Len(failed)
           proposal(i) == First(m.proposals, LAMBDA p : p.id = failed[i].id)
           entry(i) == ResultEntry(proposal(i), 3, now, None)
           E == Range(m.emitted) \cup {ResultBytes(entry(i)) : i \in 1 .. n}
           R == Range(m.results) \cup {entry(i) : i \in 1 .. n}
           X == Emitting(m, E, R)
           step == [z \in X \X (1 .. n) |-> EmitFailure(z[1], proposal(z[2]), now)]
           After(g) == g = [i \in 0 .. n |->
                              IF i = 0 THEN m
                              ELSE EmitFailure(g[i - 1], proposal(i), now)]
<1>1. n \in Nat
  <2>1. IsSeq(failed)
    <3>1. IsSeq(m.candidates)
      BY Zenon DEF Good, Stores, Fits
    <3> QED
      BY <3>1, KeepSub, Zenon DEF Sub
  <2> HIDE DEF failed
  <2> QED
    BY <2>1, SeqShape, Zenon
<1> HIDE DEF failed, n
<1>2. m \in X
  <2>1. /\ m.emitted \in Seq(Range(m.emitted)) /\ Len(m.emitted) <= SLOTS
        /\ m.results \in Seq(Range(m.results))
    BY Zenon DEF Good, Stores, Fits, IsSeq
  <2>2. Range(m.emitted) \subseteq E /\ Range(m.results) \subseteq R
    BY Zenon
  <2> HIDE DEF E, R
  <2>3. m.emitted \in Seq(E) /\ m.results \in Seq(R)
    BY <2>1, <2>2
  <2>4. m \in [Fields -> {m[f] : f \in Fields} \cup Seq(E) \cup Seq(R)]
    <3>1. DOMAIN m = Fields /\ m = [f \in Fields |-> m[f]]
      BY Zenon DEF Good, IsState
    <3> QED
      BY <3>1, Zenon
  <2> QED
    BY <2>1, <2>3, <2>4, Zenon DEF Emitting
<1>3. ASSUME NEW x \in X, NEW i \in 1 .. n
      PROVE  EmitFailure(x, proposal(i), now) \in X
  <2>1. entry(i) \in R /\ ResultBytes(entry(i)) \in E
    <3> HIDE DEF entry
    <3> QED
      OBVIOUS
  <2> HIDE DEF E, R, proposal
  <2> QED
    BY <2>1, EmitFailureStays, Zenon
<1> HIDE DEF X, proposal
<1>4. \E g : After(g)
  <2>1. step \in [X \X (1 .. n) -> X]
    <3>1. ASSUME NEW z \in X \X (1 .. n)
          PROVE  z[1] \in X /\ z[2] \in 1 .. n
      OBVIOUS
    <3> QED
      BY <1>3, <3>1, Zenon
  <2>2. PICK g : Solves(g, X, m, n, step)
    <3> HIDE DEF step
    <3> QED
      BY <1>1, <1>2, <2>1, Recursion, Zenon
  <2>3. /\ g \in [0 .. n -> X] /\ g[0] = m
        /\ \A i \in 1 .. n : g[i] = step[<<g[i - 1], i>>]
    BY <2>2, Zenon DEF Solves
  <2>4. ASSUME NEW i \in 0 .. n, i # 0
        PROVE  g[i] = EmitFailure(g[i - 1], proposal(i), now)
    <3>1. i \in 1 .. n /\ g[i - 1] \in X
      BY <2>3, <2>4, <1>1
    <3>2. <<g[i - 1], i>> \in X \X (1 .. n)
      BY <3>1, Zenon
    <3> QED
      BY <2>3, <3>1, <3>2, Zenon
  <2>5. After(g)
    BY <2>3, <2>4, Zenon
  <2> QED
    BY <2>5, Zenon
<1>5. PICK f : f = CHOOSE g : After(g)
  OBVIOUS
<1>6. EmitFailures(m, members, now) = f[n]
  BY <1>5, Zenon DEF EmitFailures, proposal, failed, n
<1>7. \A i \in 0 .. n : f[i] = IF i = 0 THEN m
                             ELSE EmitFailure(f[i - 1], proposal(i), now)
  <2>1. After(f)
    <3> HIDE DEF After
    <3> QED
      BY <1>4, <1>5, Zenon
  <2> QED
    BY <2>1, Zenon
<1>8. f[n] \in X
  <2>1. 0 \in 0 .. n /\ \A i \in 1 .. n : i \in 0 .. n /\ i # 0
    BY <1>1
  <2>2. f[0] \in X
    BY <1>2, <1>7, <2>1, Zenon
  <2>3. \A i \in 1 .. n : f[i - 1] \in X => f[i] \in X
    BY <1>3, <1>7, <2>1, Zenon
  <2> QED
    BY <1>1, <2>2, <2>3, Iteration, Zenon
<1> DEFINE x == f[n]
<1>9. /\ IsState(x)
      /\ \A f1 \in Fields \ {"emitted", "results"} : x[f1] = m[f1]
      /\ x.emitted \in Seq(E) /\ Len(x.emitted) <= SLOTS
      /\ x.results \in Seq(R)
  BY <1>8, Zenon DEF X, Emitting, IsState
<1> HIDE DEF x, E, R
<1>10. Fits(x.emitted) /\ IsSeq(x.results)
  BY <1>9, SeqIsSeq, Zenon DEF Fits
<1>11. /\ SameCore(m, x)
       /\ x.proposals = m.proposals /\ x.candidates = m.candidates
       /\ x.outbound = m.outbound /\ x.tombs = m.tombs /\ x.frozen = m.frozen
  BY <1>9, Zenon DEF Fields, SameCore
<1>12. /\ Sub(x.proposals, m.proposals) /\ Sub(x.outbound, m.outbound)
       /\ Faded(x.candidates, m.candidates) /\ Fits(x.tombs)
  BY <1>11, SubSelf, Zenon DEF Good, Stores, Fits
<1>13. Steps(m, x, plan, W)
  BY <1>9, <1>10, <1>11, <1>12, Shrinks, Zenon
<1> QED
  BY <1>6, <1>13, Zenon DEF x

LEMMA BuryExpiredGood ==
  ASSUME NEW m, NEW plan, NEW W, NEW now, Good(m, plan, W)
  PROVE  Steps(m, BuryExpired(m, now), plan, W)
<1> DEFINE expired == Expired(m.proposals, now) \o Expired(m.outbound, now)
           ts == Live(RecordTombstones(m.tombs, expired, now), now)
           n == [m EXCEPT !.tombs = ts]
<1>1. BuryExpired(m, now) = n
  BY Zenon DEF BuryExpired
<1>2. Fits(ts)
  <2>1. IsSeq(Expired(m.proposals, now)) /\ IsSeq(Expired(m.outbound, now))
    BY KeepSub, Zenon DEF Good, Stores, Fits, Expired, Sub
  <2>2. IsSeq(expired)
    BY <2>1, ConcatSeq, Zenon
  <2> HIDE DEF expired
  <2>3. Fits(RecordTombstones(m.tombs, expired, now))
    BY <2>2, TombstonesFit, Zenon DEF Good, Stores
  <2>4. Sub(ts, RecordTombstones(m.tombs, expired, now))
    BY <2>3, KeepSub, Zenon DEF Live, Fits
  <2> HIDE DEF ts
  <2> QED
    BY <2>3, <2>4, ShorterFits, Zenon DEF Sub
<1> HIDE DEF ts
<1>3. /\ IsState(n) /\ SameCore(m, n)
      /\ n.proposals = m.proposals /\ n.candidates = m.candidates
      /\ n.outbound = m.outbound /\ n.emitted = m.emitted /\ n.tombs = ts
      /\ n.results = m.results /\ n.frozen = m.frozen
  BY Zenon DEF Good, IsState, Fields, SameCore
<1> HIDE DEF n
<1>4. /\ Sub(n.proposals, m.proposals) /\ Sub(n.outbound, m.outbound)
      /\ Faded(n.candidates, m.candidates)
  BY <1>3, SubSelf, Zenon DEF Good, Stores, Fits
<1> QED
  BY <1>1, <1>2, <1>3, <1>4, Shrinks, Zenon DEF Good, Stores

LEMMA DropFailedGood ==
  ASSUME NEW m, NEW plan, NEW W, NEW members, Good(m, plan, W)
  PROVE  Steps(m, DropFailed(m, members), plan, W)
<1> DEFINE I == {i \in DOMAIN m.candidates :
                   m.candidates[i].state # "Failed" \/ Has(members, m.candidates[i].id)}
           cs == Keep(m.candidates, I)
           n == [m EXCEPT !.candidates = cs]
<1>1. DropFailed(m, members) = n
  BY Zenon DEF DropFailed
<1> HIDE DEF I
<1>2. Faded(cs, m.candidates)
  BY KeepSub, Zenon DEF Good, Stores, Fits, Sub, Faded
<1> HIDE DEF cs
<1>3. /\ IsState(n) /\ SameCore(m, n)
      /\ n.proposals = m.proposals /\ n.candidates = cs
      /\ n.outbound = m.outbound /\ n.emitted = m.emitted /\ n.tombs = m.tombs
      /\ n.results = m.results /\ n.frozen = m.frozen
  BY Zenon DEF Good, IsState, Fields, SameCore
<1> HIDE DEF n
<1>4. Sub(n.proposals, m.proposals) /\ Sub(n.outbound, m.outbound)
  BY <1>3, SubSelf, Zenon DEF Good, Stores, Fits
<1> QED
  BY <1>1, <1>2, <1>3, <1>4, Shrinks, Zenon DEF Good, Stores

LEMMA ExpireOldGood ==
  ASSUME NEW m, NEW plan, NEW W, NEW now, Good(m, plan, W)
  PROVE  Steps(m, ExpireOld(m, now), plan, W)
<1> DEFINE os == Live(m.outbound, now)
           old == IF m.old # None /\ now >= m.old.expiry THEN None ELSE m.old
           n == [m EXCEPT !.outbound = os, !.old = old]
<1>1. ExpireOld(m, now) = n
  BY Zenon DEF ExpireOld
<1>2. Sub(os, m.outbound)
  BY KeepSub, Zenon DEF Good, Stores, Fits, Live
<1> HIDE DEF os, old
<1>3. /\ IsState(n) /\ SameCore(m, n)
      /\ n.proposals = m.proposals /\ n.candidates = m.candidates
      /\ n.outbound = os /\ n.emitted = m.emitted /\ n.tombs = m.tombs
      /\ n.results = m.results /\ n.frozen = m.frozen
  BY Zenon DEF Good, IsState, Fields, SameCore
<1> HIDE DEF n
<1>4. Sub(n.proposals, m.proposals) /\ Faded(n.candidates, m.candidates)
  BY <1>3, SubSelf, Zenon DEF Good, Stores, Fits
<1> QED
  BY <1>1, <1>2, <1>3, <1>4, Shrinks, Zenon DEF Good, Stores

\* Expire drops the results and the proposals that ran out.
LEMMA LiveResultsGood ==
  ASSUME NEW m, NEW plan, NEW W, NEW now, Good(m, plan, W)
  PROVE  Steps(m, [m EXCEPT !.results = Live(@, now)], plan, W)
<1> DEFINE rs == Live(m.results, now)
           n == [m EXCEPT !.results = rs]
<1>1. IsSeq(rs)
  BY KeepSub, Zenon DEF Good, Stores, Live, Sub
<1> HIDE DEF rs
<1>2. /\ IsState(n) /\ SameCore(m, n)
      /\ n.proposals = m.proposals /\ n.candidates = m.candidates
      /\ n.outbound = m.outbound /\ n.emitted = m.emitted /\ n.tombs = m.tombs
      /\ n.results = rs /\ n.frozen = m.frozen
  BY Zenon DEF Good, IsState, Fields, SameCore
<1> HIDE DEF n
<1>3. /\ Sub(n.proposals, m.proposals) /\ Sub(n.outbound, m.outbound)
      /\ Faded(n.candidates, m.candidates)
  BY <1>2, SubSelf, Zenon DEF Good, Stores, Fits
<1>4. Steps(m, n, plan, W)
  BY <1>1, <1>2, <1>3, Shrinks, Zenon DEF Good, Stores
<1> QED
  BY <1>4, Zenon DEF n, rs

LEMMA LiveProposalsGood ==
  ASSUME NEW m, NEW plan, NEW W, NEW now, Good(m, plan, W)
  PROVE  Steps(m, [m EXCEPT !.proposals = Live(@, now)], plan, W)
<1> DEFINE ps == Live(m.proposals, now)
           n == [m EXCEPT !.proposals = ps]
<1>1. Sub(ps, m.proposals)
  BY KeepSub, Zenon DEF Good, Stores, Fits, Live
<1> HIDE DEF ps
<1>2. /\ IsState(n) /\ SameCore(m, n)
      /\ n.proposals = ps /\ n.candidates = m.candidates
      /\ n.outbound = m.outbound /\ n.emitted = m.emitted /\ n.tombs = m.tombs
      /\ n.results = m.results /\ n.frozen = m.frozen
  BY Zenon DEF Good, IsState, Fields, SameCore
<1> HIDE DEF n
<1>3. Sub(n.outbound, m.outbound) /\ Faded(n.candidates, m.candidates)
  BY <1>2, SubSelf, Zenon DEF Good, Stores, Fits
<1>4. Steps(m, n, plan, W)
  BY <1>1, <1>2, <1>3, Shrinks, Zenon DEF Good, Stores
<1> QED
  BY <1>4, Zenon DEF n, ps

-----------------------------------------------------------------------------
(* The cohort *)

\* The greatest of the numbers a sequence holds is one of them.
LEMMA MaxIn ==
  ASSUME NEW s, IsSeq(s), NEW T \in SUBSET Nat, T # {},
         \A x \in T : \E i \in DOMAIN s : x = s[i].epoch
  PROVE  Max(T) \in T
<1> DEFINE n == Len(s)
           Bound(b, k) == \A i \in 1 .. k : s[i].epoch \in Nat => s[i].epoch <= b
           N == {k \in Nat : \E b \in Nat : Bound(b, k)}
           U == {b \in Nat : \A x \in T : x <= b}
<1>1. n \in Nat /\ DOMAIN s = 1 .. n
  BY SeqShape, Zenon
<1>2. 0 \in N
  OBVIOUS
<1>3. ASSUME NEW k \in N PROVE k + 1 \in N
  <2>1. k \in Nat /\ k + 1 \in Nat
    OBVIOUS
  <2>2. PICK b \in Nat : Bound(b, k)
    BY Zenon
  <2>3. \E c \in Nat : c >= b /\ (s[k + 1].epoch \in Nat => c >= s[k + 1].epoch)
    <3>1. CASE s[k + 1].epoch \in Nat /\ s[k + 1].epoch > b
      BY <3>1
    <3>2. CASE ~(s[k + 1].epoch \in Nat /\ s[k + 1].epoch > b)
      BY <3>2
    <3> QED
      BY <3>1, <3>2, Zenon
  <2>4. PICK c \in Nat : c >= b /\ (s[k + 1].epoch \in Nat => c >= s[k + 1].epoch)
    BY <2>3, Zenon
  <2>5. Bound(c, k + 1)
    BY <2>1, <2>2, <2>4
  <2> HIDE DEF Bound
  <2> QED
    BY <2>1, <2>5, Zenon
<1>4. N = Nat
  <2>1. N \in SUBSET Nat
    BY Zenon
  <2> HIDE DEF N
  <2> QED
    BY <1>2, <1>3, <2>1, Induction, Zenon
<1>5. U # {} /\ U \in SUBSET Nat
  <2>1. PICK b \in Nat : Bound(b, n)
    <3>1. n \in N
      <4> HIDE DEF N
      <4> QED
        BY <1>1, <1>4, Zenon
    <3> HIDE DEF Bound
    <3> QED
      BY <3>1, Zenon
  <2>2. b \in U
    BY <2>1, <1>1, Zenon
  <2> QED
    BY <2>2, Zenon
<1>6. PICK b \in U : \A c \in U : b <= c
  <2> HIDE DEF U
  <2> QED
    BY <1>5, Least, Zenon
<1>7. b \in T
  <2>1. SUFFICES ASSUME b \notin T PROVE FALSE
    BY Zenon
  <2>2. PICK x \in T : x \in Nat /\ x <= b /\ x # b
    BY <2>1, Zenon
  <2>3. b - 1 \in U
    BY <2>1, <2>2
  <2>4. ~(b <= b - 1)
    OBVIOUS
  <2> QED
    BY <1>6, <2>3, <2>4, Zenon
<1>8. \A y \in T : b >= y
  OBVIOUS
<1> QED
  BY <1>7, <1>8, Zenon DEF Max

\* iter().find finds an entry of the id, if there is one.
LEMMA FirstWithId ==
  ASSUME NEW s, IsSeq(s), NEW id, Has(s, id)
  PROVE  /\ First(s, LAMBDA c : c.id = id) \in Range(s)
         /\ First(s, LAMBDA c : c.id = id).id = id
<1> DEFINE I == {i \in DOMAIN s : s[i].id = id}
<1>1. DOMAIN s \in SUBSET Nat /\ \A i \in DOMAIN s : s[i] \in Range(s)
  BY SeqShape DEF Range
<1>2. I \in SUBSET Nat /\ I # {}
  BY <1>1, Zenon DEF Has
<1>3. Min(I) \in I
  <2> HIDE DEF I
  <2> QED
    BY <1>2, MinIn, Zenon
<1>4. First(s, LAMBDA c : c.id = id) = s[Min(I)]
  BY Zenon DEF First, FirstIndex
<1> QED
  BY <1>1, <1>3, <1>4, Zenon

LEMMA MembersAre ==
  ASSUME NEW m, NEW plan, NEW W, NEW e, Good(m, plan, W)
  PROVE  /\ Fits(Members(m, e))
         /\ \A p \in Range(Members(m, e)) :
              p \in Range(m.proposals) /\ Named(p, plan) /\ p.epoch = e
<1> DEFINE I == {i \in DOMAIN m.proposals : m.proposals[i].epoch = e}
<1>1. Fits(m.proposals) /\ IsSeq(m.proposals)
  BY Zenon DEF Good, Stores, Fits
<1>2. /\ Sub(Keep(m.proposals, I), m.proposals)
      /\ \A x \in Range(Keep(m.proposals, I)) :
           \E i \in DOMAIN m.proposals : i \in I /\ x = m.proposals[i]
  <2> HIDE DEF I
  <2> QED
    BY <1>1, KeepSeq, KeepSub, Zenon
<1>3. \A x \in Range(Keep(m.proposals, I)) :
        x \in Range(m.proposals) /\ Named(x, plan) /\ x.epoch = e
  BY <1>2, Zenon DEF Good, ProposalsGood, Sub
<1>4. Fits(Keep(m.proposals, I))
  <2> HIDE DEF I
  <2> QED
    BY <1>1, <1>2, ShorterFits, Zenon DEF Sub
<1> QED
  BY <1>3, <1>4, Zenon DEF Members

\* Freezing the cached proposals of an epoch beyond the committed one
LEMMA Freezes ==
  ASSUME NEW m, NEW n, NEW plan, NEW W, NEW e \in Nat, Good(m, plan, W),
         ~m.admitted, e > m.peerEpoch,
         n = [m EXCEPT !.frozen = [epoch |-> e, members |-> Members(m, e)]]
  PROVE  Steps(m, n, plan, W)
<1> DEFINE c == [epoch |-> e, members |-> Members(m, e)]
<1>1. c.epoch = e /\ c.members = Members(m, e) /\ n = [m EXCEPT !.frozen = c]
  BY Zenon
<1> HIDE DEF c
<1>2. /\ Fits(c.members)
      /\ \A p \in Range(c.members) : Named(p, plan) /\ p.epoch = e
  <2>1. /\ Fits(Members(m, e))
        /\ \A p \in Range(Members(m, e)) :
             p \in Range(m.proposals) /\ Named(p, plan) /\ p.epoch = e
    BY MembersAre
  <2> QED
    BY <1>1, <2>1, Zenon
<1>3. /\ IsState(n) /\ SameCore(m, n)
      /\ n.proposals = m.proposals /\ n.candidates = m.candidates
      /\ n.outbound = m.outbound /\ n.emitted = m.emitted /\ n.tombs = m.tombs
      /\ n.results = m.results /\ n.frozen = c
  <2>1. IsState(m)
    BY Zenon DEF Good
  <2>2. IsState(n)
    BY <1>1, <2>1 DEF IsState
  <2>3. SameCore(m, n)
    BY <1>1, <2>1 DEF IsState, Fields, SameCore
  <2>4. /\ n.proposals = m.proposals /\ n.candidates = m.candidates
        /\ n.outbound = m.outbound /\ n.emitted = m.emitted
    BY <1>1, <2>1 DEF IsState, Fields
  <2>5. /\ n.tombs = m.tombs /\ n.results = m.results /\ n.frozen = c
    BY <1>1, <2>1 DEF IsState, Fields
  <2> QED
    BY <2>2, <2>3, <2>4, <2>5, Zenon
<1>4. FrozenGood(n, plan)
  BY <1>1, <1>2, <1>3, Zenon DEF FrozenGood, SameCore
<1>5. Stores(n) /\ OutboundGood(n)
  BY <1>3, Zenon DEF Good, Stores, OutboundGood, SameCore
<1>6. ProposalsGood(n, plan) /\ CandidatesGood(n, plan, W)
  BY <1>3, Zenon DEF Good, ProposalsGood, CandidatesGood, SameCore
<1>7. AdmittedGood(n)
  BY <1>3, Zenon DEF AdmittedGood, SameCore
<1>8. Good(n, plan, W)
  BY <1>3, <1>4, <1>5, <1>6, <1>7, Zenon DEF Good, SameCore
<1> QED
  BY <1>3, <1>8, CoreMoves, Zenon DEF Steps

LEMMA RefreezeGood ==
  ASSUME NEW m, NEW plan, NEW W, PlanGood(plan), Good(m, plan, W)
  PROVE  Steps(m, Refreeze(m), plan, W)
<1> DEFINE dropped == m.frozen # None /\ Members(m, m.frozen.epoch) = <<>>
           epochs == {p.epoch : p \in {q \in Range(m.proposals) :
                                         CandidateProven(m, q.id)}}
           e == Max(epochs)
           n == [m EXCEPT !.frozen = None]
<1>1. CASE m.frozen # None /\ ~dropped
  BY <1>1, StepsRefl, Zenon DEF Refreeze
<1>2. CASE ~(m.frozen # None /\ ~dropped) /\ epochs = {}
  <2>1. Refreeze(m) = n
    BY <1>2, Zenon DEF Refreeze
  <2>2. /\ IsState(n) /\ SameCore(m, n)
        /\ n.proposals = m.proposals /\ n.candidates = m.candidates
        /\ n.outbound = m.outbound /\ n.emitted = m.emitted /\ n.tombs = m.tombs
        /\ n.results = m.results /\ n.frozen = None
    BY Zenon DEF Good, IsState, Fields, SameCore
  <2> HIDE DEF n
  <2>3. /\ Sub(n.proposals, m.proposals) /\ Sub(n.outbound, m.outbound)
        /\ Faded(n.candidates, m.candidates)
    BY <2>2, SubSelf, Zenon DEF Good, Stores, Fits
  <2> QED
    BY <2>1, <2>2, <2>3, Shrinks, Zenon DEF Good, Stores
<1>3. CASE ~(m.frozen # None /\ ~dropped) /\ epochs # {}
  <2>1. Refreeze(m) = [m EXCEPT !.frozen = [epoch |-> e, members |-> Members(m, e)]]
    BY <1>3, Zenon DEF Refreeze
  <2>2. IsSeq(m.proposals)
    BY Zenon DEF Good, Stores, Fits
  <2>3. /\ epochs \in SUBSET Nat
        /\ \A x \in epochs : x > m.peerEpoch
        /\ \A x \in epochs : \E i \in DOMAIN m.proposals : x = m.proposals[i].epoch
    <3>1. \A p \in Range(m.proposals) :
            /\ p.epoch \in Nat /\ p.epoch > m.peerEpoch
            /\ \E i \in DOMAIN m.proposals : p = m.proposals[i]
      BY Zenon DEF Good, ProposalsGood, Named, PlanGood, Range
    <3> QED
      BY <3>1, Zenon
  <2>4. e \in epochs
    <3> HIDE DEF epochs
    <3> QED
      BY <1>3, <2>2, <2>3, MaxIn, Zenon
  <2>5. ~m.admitted
    <3>1. m.admitted => m.proposals = <<>>
      BY Zenon DEF Good, AdmittedGood
    <3> QED
      BY <1>3, <3>1, NullSeq, Zenon
  <2>6. e \in Nat /\ e > m.peerEpoch
    BY <2>3, <2>4, Zenon
  <2> HIDE DEF e
  <2> QED
    BY <2>1, <2>5, <2>6, Freezes, Zenon
<1> QED
  BY <1>1, <1>2, <1>3, Zenon

-----------------------------------------------------------------------------
(* settle_frozen_cohort *)

\* What an admission leaves: nothing to settle, and no second one.
LEMMA AdmitPathGood ==
  ASSUME NEW m, NEW n, NEW plan, NEW W, NEW admission, Good(m, plan, W),
         m.profile = 3, ~m.admitted, n = AdmitPath(m, admission)
  PROVE  Steps(m, n, plan, W)
<1> DEFINE spent == [m EXCEPT !.owner = FALSE, !.admitted = TRUE,
                              !.admission = admission]
<1>1. CASE ~m.owner
  <2>1. n = m
    BY <1>1, Zenon DEF AdmitPath
  <2> QED
    BY <2>1, StepsRefl, Zenon
<1>2. CASE m.owner
  <2>1. spent.admitted
    BY Zenon DEF Good, IsState, Fields
  <2>2. n = [spent EXCEPT !.results = <<>>, !.proposals = <<>>,
                          !.candidates = <<>>, !.outbound = <<>>,
                          !.frozen = None, !.secret = FALSE]
    BY <1>2, <2>1, Zenon DEF AdmitPath
  <2>3. /\ IsState(n)
        /\ n.profile = m.profile /\ n.admitted = TRUE /\ n.owner = FALSE
        /\ n.secret = FALSE /\ n.emitted = m.emitted /\ n.tombs = m.tombs
        /\ n.proposals = <<>> /\ n.candidates = <<>> /\ n.outbound = <<>>
        /\ n.results = <<>> /\ n.frozen = None
        /\ n.peerEpoch = m.peerEpoch /\ n.localEpoch = m.localEpoch
        /\ n.peerLoc = m.peerLoc /\ n.localLoc = m.localLoc
    <3>1. /\ IsState(spent)
          /\ spent.profile = m.profile /\ spent.admitted = TRUE
          /\ spent.owner = FALSE
          /\ spent.emitted = m.emitted /\ spent.tombs = m.tombs
          /\ spent.peerEpoch = m.peerEpoch /\ spent.localEpoch = m.localEpoch
          /\ spent.peerLoc = m.peerLoc /\ spent.localLoc = m.localLoc
      BY Zenon DEF Good, IsState, Fields
    <3> HIDE DEF spent
    <3>2. /\ IsState(n)
          /\ n.profile = spent.profile /\ n.admitted = spent.admitted
          /\ n.owner = spent.owner
          /\ n.emitted = spent.emitted /\ n.tombs = spent.tombs
          /\ n.peerEpoch = spent.peerEpoch /\ n.localEpoch = spent.localEpoch
          /\ n.peerLoc = spent.peerLoc /\ n.localLoc = spent.localLoc
      <4>1. IsState(n)
        BY <2>2, <3>1 DEF IsState
      <4>2. /\ n.profile = spent.profile /\ n.admitted = spent.admitted
            /\ n.owner = spent.owner /\ n.emitted = spent.emitted
            /\ n.tombs = spent.tombs
        BY <2>2, <3>1 DEF IsState, Fields
      <4>3. /\ n.peerEpoch = spent.peerEpoch
            /\ n.localEpoch = spent.localEpoch /\ n.peerLoc = spent.peerLoc
            /\ n.localLoc = spent.localLoc
        BY <2>2, <3>1 DEF IsState, Fields
      <4> QED
        BY <4>1, <4>2, <4>3, Zenon
    <3>3. /\ n.secret = FALSE /\ n.frozen = None
          /\ n.proposals = <<>> /\ n.candidates = <<>> /\ n.outbound = <<>>
          /\ n.results = <<>>
      BY <2>2, <3>1, Zenon DEF IsState, Fields
    <3> QED
      BY <3>1, <3>2, <3>3, Zenon
  <2>4. Stores(n)
    BY <2>3, NullSeq, NullFits, Zenon DEF Good, Stores
  <2>5. ProposalsGood(n, plan) /\ CandidatesGood(n, plan, W) /\ OutboundGood(n)
    BY <2>3, NullSeq, Zenon DEF ProposalsGood, CandidatesGood, OutboundGood
  <2>6. FrozenGood(n, plan) /\ AdmittedGood(n)
    BY <2>3, Zenon DEF FrozenGood, AdmittedGood
  <2>7. Good(n, plan, W)
    BY <2>3, <2>4, <2>5, <2>6, Zenon DEF Good
  <2>8. n.peerEpoch >= m.peerEpoch /\ n.localEpoch >= m.localEpoch
    BY <2>3 DEF Good
  <2> QED
    BY <2>3, <2>7, <2>8, Zenon DEF Steps, Moves
<1> QED
  BY <1>1, <1>2, Zenon

\* Emitting other results is no move.
LEMMA EmittedGood ==
  ASSUME NEW m, NEW n, NEW plan, NEW W, NEW es, Good(m, plan, W), Fits(es),
         n = [m EXCEPT !.emitted = es]
  PROVE  Steps(m, n, plan, W)
<1>1. /\ IsState(n) /\ SameCore(m, n)
      /\ n.proposals = m.proposals /\ n.candidates = m.candidates
      /\ n.outbound = m.outbound /\ n.emitted = es /\ n.tombs = m.tombs
      /\ n.results = m.results /\ n.frozen = m.frozen
  BY Zenon DEF Good, IsState, Fields, SameCore
<1>2. /\ Sub(n.proposals, m.proposals) /\ Sub(n.outbound, m.outbound)
      /\ Faded(n.candidates, m.candidates)
  BY <1>1, SubSelf, Zenon DEF Good, Stores, Fits
<1> QED
  BY <1>1, <1>2, Shrinks, Zenon DEF Good, Stores

\* A cohort has one outcome per member.
LEMMA OutcomesAre ==
  ASSUME NEW m, NEW now, NEW outcomes, NEW bytes, Fits(m.frozen.members),
         outcomes = Outcomes(m, now),
         bytes = [i \in DOMAIN outcomes |-> ResultBytes(outcomes[i])]
  PROVE  /\ IsSeq(outcomes) /\ Fits(bytes)
         /\ Len(bytes) = Len(m.frozen.members)
<1> DEFINE n == Len(m.frozen.members)
<1>1. n \in Nat /\ DOMAIN m.frozen.members = 1 .. n
  BY SeqShape, Zenon DEF Fits
<1>2. /\ DOMAIN outcomes = 1 .. n
      /\ outcomes = [i \in 1 .. n |-> outcomes[i]]
  BY <1>1, Zenon DEF Outcomes
<1>3. bytes = [i \in 1 .. n |-> bytes[i]]
  BY <1>2, Zenon
<1>4. IsSeq(outcomes) /\ IsSeq(bytes) /\ Len(bytes) = n
  <2> HIDE DEF n
  <2> QED
    BY <1>1, <1>2, <1>3, FunctionIsSeq, Zenon
<1> QED
  BY <1>4, Zenon DEF Fits

\* The winner of a cohort is a planned move of the cohort's epoch that was
\* answered.
LEMMA WinnerIs ==
  ASSUME NEW m, NEW plan, NEW W, PlanGood(plan), Good(m, plan, W),
         m.frozen # None, ProvenMembers(m) # {}
  PROVE  \E p \in plan :
           p.loc = Winner(m).loc /\ p.epoch = m.frozen.epoch /\ p.id \in W
<1> DEFINE id == Min(ProvenMembers(m))
<1>1. \A q \in Range(m.frozen.members) : Named(q, plan) /\ q.epoch = m.frozen.epoch
  BY Zenon DEF Good, FrozenGood
<1>2. ProvenMembers(m) \in SUBSET Nat
  <2>1. \A q \in Range(m.frozen.members) : q.id \in Nat
    BY <1>1, Zenon DEF Named, PlanGood
  <2> QED
    BY <2>1, Zenon DEF ProvenMembers
<1>3. id \in ProvenMembers(m)
  BY <1>2, MinIn, Zenon
<1> HIDE DEF id
<1>4. PICK q \in Range(m.frozen.members) : q.id = id /\ CandidateProven(m, q.id)
  BY <1>3, Zenon DEF ProvenMembers
<1>5. PICK p \in plan : p.id = id /\ p.epoch = m.frozen.epoch
  BY <1>1, <1>4, Zenon DEF Named
<1>6. IsSeq(m.candidates)
  BY Zenon DEF Good, Stores, Fits
<1>7. Has(m.candidates, id) /\ id \in W
  <2>1. PICK i \in DOMAIN m.candidates :
          m.candidates[i].id = id /\ m.candidates[i].state = "Proven"
    BY <1>4, Zenon DEF CandidateProven
  <2>2. m.candidates[i] \in Range(m.candidates)
    BY Zenon DEF Range
  <2> QED
    BY <2>1, <2>2, Zenon DEF Has, Good, CandidatesGood
<1>8. Winner(m) \in Range(m.candidates) /\ Winner(m).id = id
  <2>1. Winner(m) = First(m.candidates, LAMBDA c : c.id = id)
    BY Zenon DEF Winner, id
  <2>2. /\ First(m.candidates, LAMBDA c : c.id = id) \in Range(m.candidates)
        /\ First(m.candidates, LAMBDA c : c.id = id).id = id
    BY <1>6, <1>7, FirstWithId, Zenon
  <2> QED
    BY <2>1, <2>2, Zenon
<1>9. PICK q1 \in plan : q1.id = id /\ q1.loc = Winner(m).loc
  BY <1>8, Zenon DEF Good, CandidatesGood, Named
<1>10. p = q1
  BY <1>5, <1>9, Zenon DEF PlanGood
<1> QED
  BY <1>5, <1>7, <1>9, <1>10, Zenon

\* Entries above an epoch are entries.
LEMMA AboveSub ==
  ASSUME NEW s, IsSeq(s), NEW e
  PROVE  /\ Sub(Above(s, e), s)
         /\ \A x \in Range(Above(s, e)) : x.epoch > e
<1> DEFINE I == {i \in DOMAIN s : s[i].epoch > e}
<1>1. Above(s, e) = Keep(s, I)
  BY Zenon DEF Above
<1>2. \A i \in I : s[i].epoch > e
  BY Zenon
<1> HIDE DEF I
<1>3. \A x \in Range(Keep(s, I)) : \E i \in DOMAIN s : i \in I /\ x = s[i]
  BY KeepSeq, Zenon
<1> QED
  BY <1>1, <1>2, <1>3, KeepSub, Zenon

\* What a settlement leaves of the caches
Settled(m, n, outcomes, bytes) ==
  /\ n.emitted = m.emitted \o bytes
  /\ n.results = m.results \o outcomes
  /\ n.proposals = Above(m.proposals, m.frozen.epoch)
  /\ n.candidates = Above(m.candidates, m.frozen.epoch)
  /\ n.frozen = None
  /\ n.outbound = m.outbound /\ n.tombs = m.tombs

LEMMA SettledFits ==
  ASSUME NEW m, NEW n, NEW plan, NEW W, Good(m, plan, W), NEW outcomes,
         NEW bytes, IsSeq(outcomes), Fits(bytes),
         Len(m.emitted) + Len(bytes) <= SLOTS, Settled(m, n, outcomes, bytes)
  PROVE  /\ Sub(n.proposals, m.proposals) /\ Sub(n.candidates, m.candidates)
         /\ Faded(n.candidates, m.candidates)
         /\ Sub(n.outbound, m.outbound)
         /\ Fits(n.emitted) /\ Fits(n.tombs) /\ IsSeq(n.results)
<1>1. /\ IsSeq(m.proposals) /\ IsSeq(m.candidates) /\ IsSeq(m.outbound)
      /\ IsSeq(m.emitted) /\ IsSeq(m.results) /\ IsSeq(bytes)
      /\ Fits(n.tombs)
  BY Zenon DEF Good, Stores, Fits, Settled
<1>2. Sub(n.proposals, m.proposals) /\ Sub(n.candidates, m.candidates)
  BY <1>1, AboveSub, Zenon DEF Settled
<1>3. Faded(n.candidates, m.candidates)
  BY <1>2, Zenon DEF Sub, Faded
<1>4. Sub(n.outbound, m.outbound)
  BY <1>1, SubSelf, Zenon DEF Settled
<1>5. IsSeq(n.results)
  BY <1>1, ConcatSeq, Zenon DEF Settled
<1>6. Fits(n.emitted)
  <2>1. IsSeq(n.emitted) /\ Len(n.emitted) = Len(m.emitted) + Len(bytes)
    BY <1>1, ConcatSeq, Zenon DEF Settled
  <2> QED
    BY <2>1, Zenon DEF Fits
<1> QED
  BY <1>1, <1>2, <1>3, <1>4, <1>5, <1>6, Zenon

\* A settlement that commits the peer's move.
LEMMA PromoteGood ==
  ASSUME NEW m, NEW n, NEW plan, NEW W, PlanGood(plan), Good(m, plan, W),
         m.frozen # None, ProvenMembers(m) # {}, m.profile # 3, IsState(n),
         n.peerEpoch = m.frozen.epoch, n.peerLoc = Winner(m).loc,
         n.profile = m.profile,
         n.localEpoch = m.localEpoch, n.localLoc = m.localLoc,
         n.admitted = m.admitted, n.admission = m.admission,
         n.owner = m.owner,
         n.proposals = Above(m.proposals, m.frozen.epoch),
         n.candidates = Above(m.candidates, m.frozen.epoch),
         n.frozen = None, n.outbound = m.outbound,
         Fits(n.emitted), Fits(n.tombs), IsSeq(n.results)
  PROVE  Steps(m, n, plan, W)
<1>1. /\ m.peerEpoch \in Nat /\ n.peerEpoch \in Nat /\ n.localEpoch \in Nat
      /\ n.peerEpoch > m.peerEpoch /\ ~m.admitted
      /\ Fits(m.proposals) /\ Fits(m.candidates) /\ Fits(m.outbound)
  BY Zenon DEF Good, FrozenGood, Stores, AdmittedGood
<1>2. n.peerEpoch >= m.peerEpoch /\ n.localEpoch >= m.localEpoch
  BY <1>1
<1>3. /\ Sub(n.proposals, m.proposals) /\ Sub(n.candidates, m.candidates)
      /\ \A x \in Range(n.proposals) : x.epoch > n.peerEpoch
      /\ \A x \in Range(n.candidates) : x.epoch > n.peerEpoch
  BY <1>1, AboveSub, Zenon DEF Fits
<1>4. Fits(n.proposals) /\ Fits(n.candidates) /\ Fits(n.outbound)
  BY <1>1, <1>3, ShorterFits, Zenon DEF Sub
<1>5. Stores(n)
  BY <1>4, Zenon DEF Stores
<1>6. ProposalsGood(n, plan)
  BY <1>3, Zenon DEF Good, ProposalsGood, Sub
<1>7. CandidatesGood(n, plan, W)
  BY <1>3, Zenon DEF Good, CandidatesGood, Sub
<1>8. OutboundGood(n) /\ FrozenGood(n, plan) /\ AdmittedGood(n)
  BY <1>1, Zenon DEF Good, OutboundGood, FrozenGood, AdmittedGood
<1>9. Good(n, plan, W)
  BY <1>1, <1>5, <1>6, <1>7, <1>8, Zenon DEF Good
<1>10. \E p \in plan : p.loc = n.peerLoc /\ p.epoch = n.peerEpoch /\ p.id \in W
  <2>1. PICK p \in plan :
          p.loc = Winner(m).loc /\ p.epoch = m.frozen.epoch /\ p.id \in W
    BY WinnerIs, Zenon
  <2> QED
    BY <2>1, Zenon
<1> QED
  BY <1>1, <1>2, <1>9, <1>10, Zenon DEF Steps, Moves

LEMMA SettleGood ==
  ASSUME NEW m, NEW plan, NEW W, NEW now, PlanGood(plan), Good(m, plan, W)
  PROVE  Steps(m, Settle(m, now), plan, W)
<1> DEFINE outcomes == Outcomes(m, now)
           bytes == [i \in DOMAIN outcomes |-> ResultBytes(outcomes[i])]
           epoch == m.frozen.epoch
           won == ProvenMembers(m) # {}
           moved == IF won /\ m.profile # 3 THEN Promote(m, now) ELSE m
           admission == Admission(Winner(m).binding, m.localLoc,
                                  Winner(m).loc, epoch)
           admitted == AdmitPath(m, admission)
           n == Settle(m, now)
<1>1. CASE ~CanSettle(m)
  <2>1. n = m
    BY <1>1, Zenon DEF Settle
  <2> HIDE DEF n
  <2> QED
    BY <2>1, StepsRefl, Zenon DEF n
<1>2. CASE CanSettle(m)
  <2>1. m.frozen # None /\ Len(m.emitted) + Len(m.frozen.members) <= SLOTS
    BY <1>2, Zenon DEF CanSettle
  <2>2. Fits(m.frozen.members) /\ ~m.admitted
    BY <2>1, Zenon DEF Good, FrozenGood, AdmittedGood
  <2>3. IsSeq(outcomes) /\ Fits(bytes) /\ Len(bytes) = Len(m.frozen.members)
    BY <2>2, OutcomesAre, Zenon
  <2>4. Len(m.emitted) + Len(bytes) <= SLOTS
    BY <2>1, <2>3, Zenon
  <2>5. CASE won /\ m.profile = 3 /\ admitted.admitted
    <3>1. n = [admitted EXCEPT !.emitted = bytes]
      BY <1>2, <2>5, Zenon DEF Settle
    <3> HIDE DEF n, admitted, bytes, outcomes, admission
    <3>2. Steps(m, admitted, plan, W)
      BY <2>2, <2>5, AdmitPathGood, Zenon DEF admitted
    <3>3. Steps(admitted, n, plan, W)
      BY <2>3, <3>1, <3>2, EmittedGood, Zenon DEF Steps
    <3> QED
      BY <3>2, <3>3, StepsTrans, Zenon DEF n
  <2>6. CASE ~(won /\ m.profile = 3 /\ admitted.admitted)
    <3>1. n = [moved EXCEPT !.emitted = m.emitted \o bytes,
                            !.results = m.results \o outcomes,
                            !.proposals = Above(m.proposals, epoch),
                            !.candidates = Above(m.candidates, epoch),
                            !.frozen = None]
      BY <1>2, <2>6, Zenon DEF Settle
    <3> HIDE DEF n, admitted, bytes, outcomes, admission
    <3>2. CASE won /\ m.profile # 3
      <4>1. moved = Promote(m, now)
        BY <3>2, Zenon
      <4>2. /\ IsState(moved) /\ moved.profile = m.profile
            /\ moved.localEpoch = m.localEpoch /\ moved.localLoc = m.localLoc
            /\ moved.admitted = m.admitted /\ moved.admission = m.admission
            /\ moved.owner = m.owner
            /\ moved.outbound = m.outbound /\ moved.tombs = m.tombs
            /\ moved.peerEpoch = m.frozen.epoch
            /\ moved.peerLoc = Winner(m).loc
        <5> HIDE DEF moved
        <5> QED
          BY <4>1, Zenon DEF Promote, Good, IsState, Fields
      <4> HIDE DEF moved
      <4>3. /\ IsState(n) /\ n.profile = moved.profile
            /\ n.localEpoch = moved.localEpoch /\ n.localLoc = moved.localLoc
            /\ n.admitted = moved.admitted /\ n.admission = moved.admission
            /\ n.owner = moved.owner
            /\ n.peerEpoch = moved.peerEpoch /\ n.peerLoc = moved.peerLoc
            /\ n.outbound = moved.outbound /\ n.tombs = moved.tombs
        BY <3>1, <4>2, Zenon DEF IsState, Fields
      <4>4. /\ n.emitted = m.emitted \o bytes
            /\ n.results = m.results \o outcomes
            /\ n.proposals = Above(m.proposals, epoch)
            /\ n.candidates = Above(m.candidates, epoch)
            /\ n.frozen = None
        BY <3>1, <4>2, Zenon DEF IsState, Fields
      <4>5. Settled(m, n, outcomes, bytes)
        BY <4>2, <4>3, <4>4, Zenon DEF Settled
      <4>6. Fits(n.emitted) /\ Fits(n.tombs) /\ IsSeq(n.results)
        BY <2>3, <2>4, <4>5, SettledFits, Zenon
      <4> QED
        BY <2>1, <3>2, <4>2, <4>3, <4>4, <4>6, PromoteGood, Zenon DEF n
    <3>3. CASE ~(won /\ m.profile # 3)
      <4>1. moved = m
        BY <3>3, Zenon
      <4> HIDE DEF moved
      <4>2. IsState(n) /\ SameCore(m, n)
        BY <3>1, <4>1, Zenon DEF Good, IsState, Fields, SameCore
      <4>3. Settled(m, n, outcomes, bytes)
        BY <3>1, <4>1, Zenon DEF Good, IsState, Fields, Settled
      <4> QED
        BY <2>3, <2>4, <4>2, <4>3, SettledFits, Shrinks, Zenon DEF Settled, n
    <3> QED
      BY <3>2, <3>3, Zenon
  <2> QED
    BY <2>5, <2>6, Zenon
<1> QED
  BY <1>1, <1>2, Zenon

-----------------------------------------------------------------------------
(* Whole operations *)

\* More answers keep a State good.
LEMMA MoreAnswers ==
  ASSUME NEW m, NEW plan, NEW V, NEW W, V \subseteq W, Good(m, plan, V)
  PROVE  Good(m, plan, W)
<1>1. CandidatesGood(m, plan, W)
  BY Zenon DEF Good, CandidatesGood
<1> QED
  BY <1>1, Zenon DEF Good

\* Changes to the caches alone, before an admission
LEMMA Grows ==
  ASSUME NEW m, NEW n, NEW plan, NEW W, Good(m, plan, W), IsState(n),
         SameCore(m, n), ~m.admitted, Stores(n), ProposalsGood(n, plan),
         CandidatesGood(n, plan, W), OutboundGood(n), FrozenGood(n, plan)
  PROVE  Steps(m, n, plan, W)
<1>1. AdmittedGood(n)
  BY Zenon DEF AdmittedGood, SameCore
<1>2. Good(n, plan, W)
  BY <1>1, Zenon DEF Good, SameCore
<1> QED
  BY <1>2, CoreMoves, Zenon DEF Steps

LEMMA ExpireGood ==
  ASSUME NEW m, NEW plan, NEW W, NEW now, PlanGood(plan), Good(m, plan, W)
  PROVE  Steps(m, Expire(m, now), plan, W)
<1> DEFINE members == FrozenMembers(m)
           s1 == FailChallenges(m, now)
           s2 == FailMembers(s1, now)
           s3 == Settle(s2, now)
           s4 == [s3 EXCEPT !.results = Live(@, now)]
           s5 == EmitFailures(s4, members, now)
           s6 == BuryExpired(s5, now)
           s7 == [s6 EXCEPT !.proposals = Live(@, now)]
           s8 == Refreeze(s7)
           s9 == DropFailed(s8, members)
           s10 == ExpireOld(s9, now)
           s11 == Settle(s10, now)
<1>1. Expire(m, now) = IF m.closed THEN m ELSE s11
  BY Zenon DEF Expire
<1> HIDE DEF members, s1, s2, s3, s4, s5, s6, s7, s8, s9, s10, s11
<1>2. Steps(m, s1, plan, W)
  BY FailChallengesGood, Zenon DEF s1
<1>3. Steps(s1, s2, plan, W)
  BY <1>2, FailMembersGood, Zenon DEF Steps, s2
<1>4. Steps(s2, s3, plan, W)
  BY <1>3, SettleGood, Zenon DEF Steps, s3
<1>5. Steps(s3, s4, plan, W)
  BY <1>4, LiveResultsGood, Zenon DEF Steps, s4
<1>6. Steps(s4, s5, plan, W)
  BY <1>5, EmitFailuresGood, Zenon DEF Steps, s5
<1>7. Steps(s5, s6, plan, W)
  BY <1>6, BuryExpiredGood, Zenon DEF Steps, s6
<1>8. Steps(s6, s7, plan, W)
  BY <1>7, LiveProposalsGood, Zenon DEF Steps, s7
<1>9. Steps(s7, s8, plan, W)
  BY <1>8, RefreezeGood, Zenon DEF Steps, s8
<1>10. Steps(s8, s9, plan, W)
  BY <1>9, DropFailedGood, Zenon DEF Steps, s9
<1>11. Steps(s9, s10, plan, W)
  BY <1>10, ExpireOldGood, Zenon DEF Steps, s10
<1>12. Steps(s10, s11, plan, W)
  BY <1>11, SettleGood, Zenon DEF Steps, s11
<1>13. Steps(m, s3, plan, W)
  BY <1>2, <1>3, <1>4, StepsTrans, Zenon
<1>14. Steps(m, s5, plan, W)
  BY <1>13, <1>5, <1>6, StepsTrans, Zenon
<1>15. Steps(m, s7, plan, W)
  BY <1>14, <1>7, <1>8, StepsTrans, Zenon
<1>16. Steps(m, s9, plan, W)
  BY <1>15, <1>9, <1>10, StepsTrans, Zenon
<1>17. Steps(m, s11, plan, W)
  BY <1>16, <1>11, <1>12, StepsTrans, Zenon
<1> QED
  BY <1>1, <1>17, StepsRefl, Zenon

-----------------------------------------------------------------------------
(* apply_after_replay *)

\* One more entry in a cache with a free slot
LEMMA OneMore ==
  ASSUME NEW s, Fits(s), Len(s) < SLOTS, NEW x
  PROVE  /\ Fits(Append(s, x))
         /\ \A y \in Range(Append(s, x)) : y \in Range(s) \/ y = x
<1>1. /\ IsSeq(Append(s, x)) /\ Range(Append(s, x)) = Range(s) \cup {x}
      /\ Len(Append(s, x)) = Len(s) + 1 /\ Len(s) \in Nat
  BY AppendSeq, SeqShape DEF Fits
<1>2. Len(Append(s, x)) <= SLOTS
  BY <1>1 DEF SLOTS
<1> QED
  BY <1>1, <1>2, Zenon DEF Fits

LEMMA CacheProposalGood ==
  ASSUME NEW m, NEW plan, NEW W, NEW t, Good(m, plan, W), ~m.admitted,
         t.kind = "CacheProposal", Named(t.proposal, plan),
         t.proposal.epoch > m.peerEpoch, Len(m.proposals) < SLOTS
  PROVE  Steps(m, Apply(m, t), plan, W)
<1> DEFINE ps == Append(m.proposals, t.proposal)
           n == [m EXCEPT !.tokens = t.tokens, !.refill = t.refill,
                          !.proposals = ps]
<1>1. Apply(m, t) = n
  <2>1. m.proposals = [m EXCEPT !.tokens = t.tokens, !.refill = t.refill].proposals
    BY DEF Good, IsState, Fields
  <2> QED
    BY <2>1 DEF Apply
<1>2. Fits(ps) /\ \A y \in Range(ps) : y \in Range(m.proposals) \/ y = t.proposal
  BY OneMore DEF Good, Stores
<1> HIDE DEF ps
<1>3. /\ IsState(n) /\ SameCore(m, n) /\ n.proposals = ps
      /\ n.candidates = m.candidates /\ n.outbound = m.outbound
      /\ n.emitted = m.emitted /\ n.tombs = m.tombs /\ n.results = m.results
      /\ n.frozen = m.frozen
  <2>1. IsState(m)
    BY Zenon DEF Good
  <2>2. IsState(n)
    BY <2>1 DEF IsState
  <2>3. SameCore(m, n)
    BY <2>1 DEF IsState, Fields, SameCore
  <2>4. /\ n.proposals = ps /\ n.candidates = m.candidates
        /\ n.outbound = m.outbound /\ n.emitted = m.emitted
    BY <2>1 DEF IsState, Fields
  <2>5. /\ n.tombs = m.tombs /\ n.results = m.results /\ n.frozen = m.frozen
    BY <2>1 DEF IsState, Fields
  <2> QED
    BY <2>2, <2>3, <2>4, <2>5, Zenon
<1> HIDE DEF n
<1>4. Stores(n)
  BY <1>2, <1>3, Zenon DEF Good, Stores
<1>5. ProposalsGood(n, plan)
  BY <1>2, <1>3, Zenon DEF Good, ProposalsGood, SameCore
<1>6. CandidatesGood(n, plan, W) /\ OutboundGood(n) /\ FrozenGood(n, plan)
  BY <1>3, Zenon DEF Good, CandidatesGood, OutboundGood, FrozenGood, SameCore
<1> QED
  BY <1>1, <1>3, <1>4, <1>5, <1>6, Grows, Zenon

LEMMA ChallengeGood ==
  ASSUME NEW m, NEW plan, NEW W, NEW t, Good(m, plan, W), ~m.admitted,
         t.kind = "Challenge", DOMAIN t.candidate = CandidateFields,
         Named(t.candidate, plan), t.candidate.epoch > m.peerEpoch,
         t.candidate.state = "Challenged", Len(m.candidates) < SLOTS
  PROVE  Steps(m, Apply(m, t), plan, W)
<1> DEFINE cs == Append(m.candidates, t.candidate)
           n == [m EXCEPT !.candidates = cs]
<1>1. Apply(m, t) = n
  BY DEF Apply
<1>2. Fits(cs) /\ \A y \in Range(cs) : y \in Range(m.candidates) \/ y = t.candidate
  BY OneMore DEF Good, Stores
<1> HIDE DEF cs
<1>3. /\ IsState(n) /\ SameCore(m, n) /\ n.candidates = cs
      /\ n.proposals = m.proposals /\ n.outbound = m.outbound
      /\ n.emitted = m.emitted /\ n.tombs = m.tombs /\ n.results = m.results
      /\ n.frozen = m.frozen
  BY DEF Good, IsState, Fields, SameCore
<1> HIDE DEF n
<1>4. Stores(n)
  BY <1>2, <1>3, Zenon DEF Good, Stores
<1>5. t.candidate.state # "Proven"
  OBVIOUS
<1>6. CandidatesGood(n, plan, W)
  BY <1>2, <1>3, <1>5, Zenon DEF Good, CandidatesGood, SameCore
<1>7. ProposalsGood(n, plan) /\ OutboundGood(n) /\ FrozenGood(n, plan)
  BY <1>3, Zenon DEF Good, ProposalsGood, OutboundGood, FrozenGood, SameCore
<1> QED
  BY <1>1, <1>3, <1>4, <1>6, <1>7, Grows, Zenon

\* The caches of a manager that received a result
LEMMA CachedGood ==
  ASSUME NEW m, NEW n, NEW plan, NEW W, NEW e, NEW os, Good(m, plan, W),
         Sub(os, m.outbound),
         n = [m EXCEPT !.results = Append(m.results, e), !.outbound = os]
  PROVE  /\ Steps(m, n, plan, W) /\ SameCore(m, n)
<1> DEFINE rs == Append(m.results, e)
<1>1. IsSeq(rs)
  BY AppendSeq DEF Good, Stores
<1>2. n = [m EXCEPT !.results = rs, !.outbound = os]
  BY Zenon
<1> HIDE DEF rs
<1>3. /\ IsState(n) /\ SameCore(m, n)
      /\ n.proposals = m.proposals /\ n.candidates = m.candidates
      /\ n.outbound = os /\ n.emitted = m.emitted /\ n.tombs = m.tombs
      /\ n.results = rs /\ n.frozen = m.frozen
  <2>1. IsState(m)
    BY Zenon DEF Good
  <2>2. IsState(n)
    BY <1>2, <2>1 DEF IsState
  <2>3. SameCore(m, n)
    BY <1>2, <2>1 DEF IsState, Fields, SameCore
  <2>4. /\ n.proposals = m.proposals /\ n.candidates = m.candidates
        /\ n.outbound = os /\ n.emitted = m.emitted
    BY <1>2, <2>1 DEF IsState, Fields
  <2>5. /\ n.tombs = m.tombs /\ n.results = rs /\ n.frozen = m.frozen
    BY <1>2, <2>1 DEF IsState, Fields
  <2> QED
    BY <2>2, <2>3, <2>4, <2>5, Zenon
<1>4. Sub(n.proposals, m.proposals) /\ Faded(n.candidates, m.candidates)
  BY <1>3, SubSelf, Zenon DEF Good, Stores, Fits
<1> QED
  BY <1>1, <1>3, <1>4, Shrinks, Zenon DEF Good, Stores

\* Committing a move of this end
LEMMA LocalMoveGood ==
  ASSUME NEW m, NEW n, NEW plan, NEW W, Good(m, plan, W), ~m.admitted,
         NEW e \in Nat, e > m.localEpoch, IsState(n), n.localEpoch = e,
         n.profile = m.profile, n.peerEpoch = m.peerEpoch,
         n.peerLoc = m.peerLoc, n.admitted = m.admitted,
         n.admission = m.admission, n.owner = m.owner,
         n.proposals = m.proposals, n.candidates = m.candidates,
         n.outbound = Above(m.outbound, e), n.emitted = m.emitted,
         n.tombs = m.tombs, IsSeq(n.results), n.frozen = m.frozen
  PROVE  Steps(m, n, plan, W)
<1>1. Fits(m.outbound) /\ IsSeq(m.outbound)
  BY Zenon DEF Good, Stores, Fits
<1>2. /\ Sub(n.outbound, m.outbound)
      /\ \A x \in Range(n.outbound) : x.epoch > n.localEpoch
  BY <1>1, AboveSub, Zenon
<1>3. Fits(n.outbound)
  BY <1>1, <1>2, ShorterFits, Zenon DEF Sub
<1>4. Stores(n)
  BY <1>3, Zenon DEF Good, Stores
<1>5. OutboundGood(n)
  BY <1>2, Zenon DEF Good, OutboundGood, Sub
<1>6. ProposalsGood(n, plan) /\ CandidatesGood(n, plan, W) /\ FrozenGood(n, plan)
  BY Zenon DEF Good, ProposalsGood, CandidatesGood, FrozenGood
<1>7. AdmittedGood(n)
  BY Zenon DEF AdmittedGood
<1>8. Good(n, plan, W)
  BY <1>4, <1>5, <1>6, <1>7, Zenon DEF Good
<1>9. n.peerEpoch >= m.peerEpoch /\ n.localEpoch >= m.localEpoch
  BY DEF Good
<1> QED
  BY <1>8, <1>9, Zenon DEF Steps, Moves

LEMMA CommitLocalGood ==
  ASSUME NEW m, NEW plan, NEW W, NEW t, Good(m, plan, W), ~m.admitted,
         t.kind = "CommitLocal", t.candidate.epoch \in Nat,
         t.candidate.epoch > m.localEpoch
  PROVE  Steps(m, Apply(m, t), plan, W)
<1> DEFINE c == t.candidate
           kept == IF t.promote THEN Above(m.outbound, c.epoch)
                   ELSE Without(m.outbound, c.id)
           cached == [m EXCEPT !.results = Append(m.results, t.entry),
                               !.outbound = kept]
<1>1. Apply(m, t) = ApplyCommitLocal(m, t)
  BY DEF Apply
<1>2. ApplyCommitLocal(m, t) =
        IF ~t.promote THEN cached
        ELSE IF m.profile # 3
        THEN [cached EXCEPT !.localEpoch = c.epoch, !.localLoc = c.loc,
                            !.old = [binding |-> m.binding,
                                     expiry |-> t.entry.expiry],
                            !.binding = c.binding]
        ELSE AdmitPath(cached, LocalAdmission(m, c))
  BY Zenon DEF ApplyCommitLocal
<1>3. IsSeq(m.outbound) /\ IsSeq(m.results)
  BY Zenon DEF Good, Stores, Fits
<1>4. Sub(kept, m.outbound)
  <2>1. Sub(Above(m.outbound, c.epoch), m.outbound)
    BY <1>3, AboveSub, Zenon
  <2>2. Sub(Without(m.outbound, c.id), m.outbound)
    BY <1>3, KeepSub, Zenon DEF Without
  <2> QED
    BY <2>1, <2>2, Zenon
<1>5. Steps(m, cached, plan, W) /\ SameCore(m, cached)
  <2> HIDE DEF kept
  <2> QED
    BY <1>4, CachedGood, Zenon
<1>6. CASE ~t.promote
  <2> HIDE DEF cached
  <2> QED
    BY <1>1, <1>2, <1>5, <1>6, Zenon
<1>7. CASE t.promote /\ m.profile # 3
  <2> DEFINE old == [binding |-> m.binding, expiry |-> t.entry.expiry]
             n == [cached EXCEPT !.localEpoch = c.epoch, !.localLoc = c.loc,
                                 !.old = old, !.binding = c.binding]
  <2>1. Apply(m, t) = n
    BY <1>1, <1>2, <1>7, Zenon
  <2>2. /\ cached.proposals = m.proposals /\ cached.candidates = m.candidates
        /\ cached.outbound = Above(m.outbound, c.epoch)
        /\ cached.emitted = m.emitted /\ cached.tombs = m.tombs
        /\ cached.frozen = m.frozen
    <3>1. kept = Above(m.outbound, c.epoch)
      BY <1>7, Zenon
    <3> HIDE DEF kept
    <3> QED
      BY <3>1 DEF Good, IsState, Fields
  <2>3. IsState(cached) /\ IsSeq(cached.results)
    BY <1>5, Zenon DEF Steps, Good, Stores
  <2> HIDE DEF cached, old
  <2>4. /\ IsState(n) /\ n.localEpoch = c.epoch
        /\ n.profile = cached.profile /\ n.peerEpoch = cached.peerEpoch
        /\ n.peerLoc = cached.peerLoc /\ n.admitted = cached.admitted
        /\ n.admission = cached.admission /\ n.owner = cached.owner
    <3>1. IsState(n)
      BY <2>3 DEF IsState
    <3>2. /\ n.localEpoch = c.epoch /\ n.profile = cached.profile
          /\ n.peerEpoch = cached.peerEpoch /\ n.peerLoc = cached.peerLoc
      BY <2>3 DEF IsState, Fields
    <3>3. /\ n.admitted = cached.admitted /\ n.admission = cached.admission
          /\ n.owner = cached.owner
      BY <2>3 DEF IsState, Fields
    <3> QED
      BY <3>1, <3>2, <3>3, Zenon
  <2>5. /\ n.proposals = cached.proposals /\ n.candidates = cached.candidates
        /\ n.outbound = cached.outbound /\ n.emitted = cached.emitted
        /\ n.tombs = cached.tombs /\ n.results = cached.results
        /\ n.frozen = cached.frozen
    BY <2>3 DEF IsState, Fields
  <2> HIDE DEF n
  <2>6. Steps(m, n, plan, W)
    BY <1>5, <2>2, <2>3, <2>4, <2>5, LocalMoveGood, Zenon DEF SameCore
  <2> QED
    BY <2>1, <2>6, Zenon
<1>8. CASE t.promote /\ m.profile = 3
  <2> HIDE DEF cached
  <2>1. Apply(m, t) = AdmitPath(cached, LocalAdmission(m, c))
    BY <1>1, <1>2, <1>8, Zenon
  <2>2. Steps(cached, AdmitPath(cached, LocalAdmission(m, c)), plan, W)
    BY <1>5, <1>8, AdmitPathGood, Zenon DEF Steps, SameCore
  <2> QED
    BY <1>5, <2>1, <2>2, StepsTrans, Zenon
<1> QED
  BY <1>6, <1>7, <1>8, Zenon

LEMMA ProveIndexIn ==
  ASSUME NEW m, NEW t, IsSeq(m.candidates),
         \E c \in Range(m.candidates) : c.id = t.id /\ c.epoch = t.epoch
  PROVE  /\ ProveIndex(m, t) \in DOMAIN m.candidates
         /\ m.candidates[ProveIndex(m, t)].id = t.id
         /\ m.candidates[ProveIndex(m, t)].epoch = t.epoch
<1> DEFINE I == {i \in DOMAIN m.candidates :
                   m.candidates[i].id = t.id /\ m.candidates[i].epoch = t.epoch}
<1>1. DOMAIN m.candidates \in SUBSET Nat
  BY SeqShape
<1>2. I \in SUBSET Nat /\ I # {}
  BY <1>1, Zenon DEF Range
<1>3. ProveIndex(m, t) = Min(I)
  BY DEF ProveIndex, FirstIndex
<1>4. Min(I) \in I
  <2> HIDE DEF I
  <2> QED
    BY <1>2, MinIn, Zenon
<1> QED
  BY <1>3, <1>4, Zenon

\* Marking a candidate of an answered id
LEMMA MarkGood ==
  ASSUME NEW m, NEW n, NEW plan, NEW W, NEW i \in DOMAIN m.candidates,
         NEW response, Good(m, plan, W), m.candidates[i].id \in W,
         n = [m EXCEPT !.candidates[i].state = "Proven",
                       !.candidates[i].response = response]
  PROVE  /\ Steps(m, n, plan, W) /\ SameCore(m, n)
         /\ n.proposals = m.proposals /\ n.frozen = m.frozen
<1> DEFINE c == m.candidates[i]
           d == [c EXCEPT !.state = "Proven", !.response = response]
           cs == [m.candidates EXCEPT ![i] = d]
<1>1. IsSeq(m.candidates) /\ c \in Range(m.candidates)
  BY Zenon DEF Good, Stores, Fits, Range
<1>2. n = [m EXCEPT !.candidates = cs]
  BY Zenon DEF Good, IsState, Fields
<1>3. /\ DOMAIN c = CandidateFields /\ Named(c, plan)
      /\ c.epoch > m.peerEpoch
  BY <1>1, Zenon DEF Good, CandidatesGood
<1>4. /\ DOMAIN d = CandidateFields
      /\ d.id = c.id /\ d.loc = c.loc /\ d.epoch = c.epoch
  BY <1>3 DEF CandidateFields
<1>5. Fits(cs) /\ \A y \in Range(cs) : y \in Range(m.candidates) \/ y = d
  <2> HIDE DEF d
  <2>1. /\ Len(m.candidates) \in Nat
        /\ DOMAIN m.candidates = 1 .. Len(m.candidates)
        /\ \A j \in 1 .. Len(m.candidates) : m.candidates[j] \in Range(m.candidates)
    BY <1>1, SeqShape, Zenon
  <2>2. cs = [j \in 1 .. Len(m.candidates) |-> cs[j]]
    BY <2>1, Zenon
  <2>3. \A j \in 1 .. Len(m.candidates) : cs[j] \in Range(m.candidates) \/ cs[j] = d
    BY <2>1, Zenon
  <2> HIDE DEF cs
  <2>4. /\ IsSeq(cs) /\ Len(cs) = Len(m.candidates)
        /\ Range(cs) = {cs[j] : j \in 1 .. Len(m.candidates)}
    BY <2>1, <2>2, FunctionIsSeq
  <2>5. Len(m.candidates) <= SLOTS
    BY Zenon DEF Good, Stores, Fits
  <2> QED
    BY <2>3, <2>4, <2>5, Zenon DEF Fits
<1> HIDE DEF d, cs
<1>6. /\ IsState(n) /\ SameCore(m, n) /\ n.candidates = cs
      /\ n.proposals = m.proposals /\ n.outbound = m.outbound
      /\ n.emitted = m.emitted /\ n.tombs = m.tombs /\ n.results = m.results
      /\ n.frozen = m.frozen
  <2>1. IsState(m)
    BY Zenon DEF Good
  <2>2. IsState(n)
    BY <1>2, <2>1 DEF IsState
  <2>3. SameCore(m, n)
    BY <1>2, <2>1 DEF IsState, Fields, SameCore
  <2>4. /\ n.candidates = cs /\ n.proposals = m.proposals
        /\ n.outbound = m.outbound /\ n.emitted = m.emitted
    BY <1>2, <2>1 DEF IsState, Fields
  <2>5. /\ n.tombs = m.tombs /\ n.results = m.results /\ n.frozen = m.frozen
    BY <1>2, <2>1 DEF IsState, Fields
  <2> QED
    BY <2>2, <2>3, <2>4, <2>5, Zenon
<1>7. Stores(n)
  BY <1>5, <1>6, Zenon DEF Good, Stores
<1>8. CandidatesGood(n, plan, W)
  <2>1. Named(d, plan) /\ d.epoch > n.peerEpoch /\ d.id \in W
    BY <1>3, <1>4, <1>6, Zenon DEF Named, SameCore
  <2>2. \A y \in Range(m.candidates) :
          /\ DOMAIN y = CandidateFields
          /\ Named(y, plan) /\ y.epoch > n.peerEpoch
          /\ y.state = "Proven" => y.id \in W
    BY <1>6, Zenon DEF Good, CandidatesGood, SameCore
  <2> QED
    BY <1>4, <1>5, <1>6, <2>1, <2>2, Zenon DEF CandidatesGood
<1>9. ProposalsGood(n, plan) /\ OutboundGood(n) /\ FrozenGood(n, plan)
  BY <1>6, Zenon DEF Good, ProposalsGood, OutboundGood, FrozenGood, SameCore
<1>10. ~m.admitted
  BY <1>1, NullSeq, Zenon DEF Good, AdmittedGood
<1> QED
  BY <1>6, <1>7, <1>8, <1>9, <1>10, Grows, Zenon

LEMMA ProveGood ==
  ASSUME NEW m, NEW plan, NEW W, NEW t, PlanGood(plan), Good(m, plan, W),
         t.kind = "Prove", t.id \in W,
         \E c \in Range(m.candidates) : c.id = t.id /\ c.epoch = t.epoch
  PROVE  Steps(m, Apply(m, t), plan, W)
<1> DEFINE i == ProveIndex(m, t)
           marked == [m EXCEPT !.candidates[i].state = "Proven",
                               !.candidates[i].response = t.response]
           freezes == m.frozen = None /\ m.proposals # <<>>
                        /\ GreatestEpoch(m) = t.epoch
           cohort == [epoch |-> t.epoch, members |-> Members(m, t.epoch)]
           cold == [marked EXCEPT !.frozen = IF freezes THEN cohort ELSE @]
<1>1. Apply(m, t) = Settle(cold, t.at)
  BY DEF Apply, ApplyProve
<1>2. IsSeq(m.candidates)
  BY Zenon DEF Good, Stores, Fits
<1>3. i \in DOMAIN m.candidates /\ m.candidates[i].id \in W
      /\ m.candidates[i].epoch = t.epoch
  <2>1. /\ i \in DOMAIN m.candidates /\ m.candidates[i].id = t.id
        /\ m.candidates[i].epoch = t.epoch
    BY <1>2, ProveIndexIn
  <2> QED
    BY <2>1, Zenon
<1> HIDE DEF i
<1>4. /\ Steps(m, marked, plan, W) /\ SameCore(m, marked)
      /\ marked.proposals = m.proposals /\ marked.frozen = m.frozen
  BY <1>3, MarkGood, Zenon
<1>5. ~m.admitted /\ t.epoch \in Nat /\ t.epoch > m.peerEpoch
  <2>1. m.candidates[i] \in Range(m.candidates)
    BY <1>3, Zenon DEF Range
  <2>2. ~m.admitted
    BY <2>1, NullSeq, Zenon DEF Good, AdmittedGood
  <2>3. /\ Named(m.candidates[i], plan)
        /\ m.candidates[i].epoch > m.peerEpoch
    BY <2>1, Zenon DEF Good, CandidatesGood
  <2>4. t.epoch > m.peerEpoch
    BY <1>3, <2>3, Zenon
  <2>5. t.epoch \in Nat
    BY <1>3, <2>3, Zenon DEF Named, PlanGood
  <2> QED
    BY <2>2, <2>4, <2>5, Zenon
<1> HIDE DEF marked
<1>6. Steps(marked, cold, plan, W)
  <2>1. CASE freezes
    <3>1. cohort = [epoch |-> t.epoch, members |-> Members(marked, t.epoch)]
      BY <1>4, Zenon DEF Members
    <3>2. cold = [marked EXCEPT !.frozen =
                    [epoch |-> t.epoch, members |-> Members(marked, t.epoch)]]
      BY <2>1, <3>1, Zenon
    <3> HIDE DEF cold, cohort
    <3> QED
      BY <1>4, <1>5, <3>2, Freezes, Zenon DEF SameCore, Steps
  <2>2. CASE ~freezes
    <3>1. IsState(marked)
      BY <1>4, Zenon DEF Steps, Good
    <3>2. cold = [marked EXCEPT !.frozen = marked.frozen]
      BY <2>2, Zenon
    <3> HIDE DEF cold, freezes
    <3>3. cold = marked
      BY <3>1, <3>2 DEF IsState, Fields
    <3> QED
      BY <1>4, <3>3, StepsRefl, Zenon DEF Steps
  <2> QED
    BY <2>1, <2>2, Zenon
<1> HIDE DEF cold
<1>7. Steps(cold, Settle(cold, t.at), plan, W)
  BY <1>6, SettleGood, Zenon DEF Steps
<1>8. Steps(marked, Settle(cold, t.at), plan, W)
  BY <1>4, <1>6, <1>7, StepsTrans, Zenon DEF Steps
<1> QED
  BY <1>1, <1>4, <1>8, StepsTrans, Zenon

\* What a transition needs of the State it is applied to
Ready(m, t, plan) ==
  /\ ~m.admitted
  /\ t.kind = "CacheProposal" =>
       /\ Named(t.proposal, plan) /\ t.proposal.epoch > m.peerEpoch
       /\ Len(m.proposals) < SLOTS
  /\ t.kind = "Challenge" =>
       /\ DOMAIN t.candidate = CandidateFields /\ Named(t.candidate, plan)
       /\ t.candidate.epoch > m.peerEpoch /\ t.candidate.state = "Challenged"
       /\ Len(m.candidates) < SLOTS
  /\ t.kind = "CommitLocal" =>
       t.candidate.epoch \in Nat /\ t.candidate.epoch > m.localEpoch
  /\ t.kind = "Prove" =>
       \E c \in Range(m.candidates) : c.id = t.id /\ c.epoch = t.epoch

LEMMA ApplyGood ==
  ASSUME NEW m, NEW plan, NEW W, NEW t, PlanGood(plan), Good(m, plan, W),
         Mutates(t), Ready(m, t, plan), t.kind = "Prove" => t.id \in W
  PROVE  Steps(m, Apply(m, t), plan, W)
<1>1. CASE t.kind = "CacheProposal"
  BY <1>1, CacheProposalGood, Zenon DEF Ready
<1>2. CASE t.kind = "Challenge"
  BY <1>2, ChallengeGood, Zenon DEF Ready
<1>3. CASE t.kind = "CommitLocal"
  BY <1>3, CommitLocalGood, Zenon DEF Ready
<1>4. CASE t.kind = "Prove"
  BY <1>4, ProveGood, Zenon DEF Ready
<1> QED
  BY <1>1, <1>2, <1>3, <1>4, Zenon DEF Mutates

\* Ready looks at these fields only.
LEMMA ReadyStays ==
  ASSUME NEW m, NEW n, NEW t, NEW plan, Ready(m, t, plan),
         n.admitted = m.admitted, n.peerEpoch = m.peerEpoch,
         n.localEpoch = m.localEpoch, n.proposals = m.proposals,
         n.candidates = m.candidates
  PROVE  Ready(n, t, plan)
BY Zenon DEF Ready
=============================================================================
