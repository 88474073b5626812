---------------------- MODULE PrevalidationLimiterProofs ----------------------
(***************************************************************************)
(* The limiter's properties for every burst, refill, window, table size    *)
(* and set of sources.  The inductive invariant adds to them the tokens    *)
(* still in the bucket: what was emitted and what may be emitted at once   *)
(* are together paid for by the burst and the seconds passed.              *)
(***************************************************************************)
EXTENDS PrevalidationLimiter, FiniteSetTheorems, TLAPS

-----------------------------------------------------------------------------
(* Arithmetic *)

\* Division with remainder, as the code's `now_ms / 1000` and `as u32` use it.
LEMMA Quotient ==
  ASSUME NEW d \in Nat \ {0}, NEW n \in Nat
  PROVE  n \div d \in Nat /\ n % d \in 0 .. d - 1 /\ n = d * (n \div d) + (n % d)
  BY SMT

LEMMA TimesMonotone ==
  ASSUME NEW d \in Nat, NEW a \in Nat, NEW b \in Nat, a <= b
  PROVE  d * a <= d * b
  BY SMT

\* The second of a later millisecond is not an earlier second.
LEMMA SecondsAdvance ==
  ASSUME NEW d \in Nat \ {0}, NEW n \in Nat
  PROVE  n \div d <= (n + 1) \div d
<1> DEFINE q == n \div d
           p == (n + 1) \div d
<1>1. q \in Nat /\ n % d \in 0 .. d - 1 /\ n = d * q + (n % d)
  BY Quotient
<1>2. p \in Nat /\ (n + 1) % d \in 0 .. d - 1 /\ n + 1 = d * p + ((n + 1) % d)
  BY Quotient, n + 1 \in Nat
<1> HIDE DEF q, p
<1>3. SUFFICES ASSUME p + 1 <= q PROVE FALSE
  BY <1>1, <1>2 DEF q, p
<1>4. d * (p + 1) <= d * q
  BY TimesMonotone, <1>1, <1>2, <1>3
<1>5. d * (p + 1) = d * p + d
  BY <1>2
<1> QED BY <1>1, <1>2, <1>4, <1>5

\* Cutting a product to a u32 never enlarges it.
LEMMA CutBelow ==
  ASSUME NEW x \in Nat, NEW u \in Nat \ {0}
  PROVE  x % u \in Nat /\ x % u <= x
<1>1. x \div u \in Nat /\ x % u \in 0 .. u - 1 /\ x = u * (x \div u) + (x % u)
  BY Quotient
<1>2. u * (x \div u) >= 0
  BY <1>1
<1> QED BY <1>1, <1>2

-----------------------------------------------------------------------------
(* The inductive invariant *)

\* Emitted responses and tokens in hand are paid for.
Funded == emitted + tokens <= BURST + REFILL * second

BoundedTable == IsFiniteSet(DOMAIN sources) /\ TableBounded

IInv == TypeOK /\ RatioKept /\ Funded /\ BoundedTable

\* The refill at the start of admit keeps the bucket within the burst and
\* adds no more than the elapsed seconds pay for.
LEMMA RefillFunded ==
  ASSUME TypeOK, Funded
  PROVE  /\ Refilled \in 0 .. BURST
         /\ now \div SECOND \in Nat
         /\ emitted + Refilled <= BURST + REFILL * (now \div SECOND)
<1> DEFINE k == now \div SECOND
           x == (k - second) * REFILL
<1>1. now \in Nat /\ second \in 0 .. k /\ tokens \in 0 .. BURST /\ emitted \in Nat
  BY DEF TypeOK
<1>2. k \in Nat
  BY Quotient, LimiterAssumption, <1>1
<1>3. BURST \in Nat /\ REFILL \in Nat /\ U32 \in Nat \ {0}
  BY LimiterAssumption
<1> HIDE DEF k
<1>4. x \in Nat /\ x = REFILL * k - REFILL * second
  BY <1>1, <1>2, <1>3
<1>5. Earned = x % U32
  BY DEF Earned, k
<1> HIDE DEF x
<1>6. Earned \in Nat /\ Earned <= x
  BY CutBelow, <1>3, <1>4, <1>5
<1>7. Refilled \in 0 .. BURST /\ Refilled <= tokens + Earned
  BY <1>1, <1>3, <1>6 DEF Refilled, Lesser
<1>8. emitted + tokens <= BURST + REFILL * second
  BY DEF Funded
<1>9. REFILL * k \in Nat /\ REFILL * second \in Nat
  BY <1>1, <1>2, <1>3
<1>10. emitted + Refilled <= BURST + REFILL * k
  BY <1>1, <1>3, <1>4, <1>6, <1>7, <1>8, <1>9
<1> QED BY <1>2, <1>7, <1>10 DEF k

Balanced(e) == e \in Entry /\ e.responses <= e.requests

\* Dropping silent sources keeps the table's type, bound and ratios.
LEMMA RecentKept ==
  ASSUME TypeOK, RatioKept, BoundedTable
  PROVE  /\ DOMAIN Recent \subseteq Source
         /\ IsFiniteSet(DOMAIN Recent)
         /\ Cardinality(DOMAIN Recent) \in Nat
         /\ Cardinality(DOMAIN Recent) <= TABLE
         /\ \A s \in DOMAIN Recent : Balanced(Recent[s])
<1> DEFINE D == {s \in DOMAIN sources : now - sources[s].seen < WINDOW}
<1>1. Recent = [s \in D |-> sources[s]]
  BY DEF Recent, Restrict
<1>2. DOMAIN Recent = D /\ D \subseteq DOMAIN sources
  BY <1>1
<1> HIDE DEF D
<1>3. IsFiniteSet(D) /\ Cardinality(D) <= Cardinality(DOMAIN sources)
  BY <1>2, FS_Subset DEF BoundedTable
<1>4. Cardinality(D) \in Nat /\ Cardinality(DOMAIN sources) \in Nat
  BY <1>3, FS_CardinalityType DEF BoundedTable
<1>5. Cardinality(D) <= TABLE
  BY <1>3, <1>4, LimiterAssumption DEF BoundedTable, TableBounded
<1>6. \A s \in D : Balanced(Recent[s])
  BY <1>1, <1>2 DEF TypeOK, RatioKept, Balanced
<1>7. D \subseteq Source
  BY <1>2 DEF TypeOK
<1> QED BY <1>2, <1>3, <1>4, <1>5, <1>6, <1>7

\* The account a request is charged to is balanced, opened or rolled or not.
LEMMA AccountBalanced ==
  ASSUME TypeOK, RatioKept, BoundedTable, NEW s \in Source
  PROVE  Balanced(Rolled(Account(s)))
<1>1. now \in Nat
  BY DEF TypeOK
<1>2. Balanced(Account(s))
  BY <1>1, RecentKept DEF Account, Balanced, Entry
<1> DEFINE e == Account(s)
<1> HIDE DEF e
<1>3. Balanced(e)
  BY <1>2 DEF e
<1>4. Balanced(Rolled(e))
  BY <1>1, <1>3 DEF Balanced, Rolled, Entry
<1> QED BY <1>4 DEF e

\* A balanced account always has room for a response within its request.
LEMMA BalancedFits ==
  ASSUME NEW e, Balanced(e), NEW size \in Nat, RESPONSE <= size, now \in Nat
  PROVE  Fits(e, size) /\ Balanced(Charged(e, size))
<1>1. e.requests \in Nat /\ e.responses \in Nat /\ e.started \in Nat
  BY DEF Balanced, Entry
<1>2. Fits(e, size)
  BY <1>1, LimiterAssumption DEF Fits, Balanced
<1>3. Balanced(Charged(e, size))
  BY <1>1, LimiterAssumption DEF Balanced, Charged, Entry
<1> QED BY <1>2, <1>3

LEMMA InitIInv == Init => IInv
<1> SUFFICES ASSUME Init PROVE IInv
  OBVIOUS
<1> USE DEF Init
<1>1. DOMAIN sources = {}
  OBVIOUS
<1>2. 0 \div SECOND \in Nat
  BY Quotient, LimiterAssumption
<1>3. TypeOK
  BY <1>1, <1>2, LimiterAssumption DEF TypeOK
<1>4. RatioKept
  BY <1>1 DEF RatioKept
<1>5. Funded
  BY LimiterAssumption DEF Funded
<1>6. BoundedTable
  BY <1>1, FS_EmptySet, LimiterAssumption DEF BoundedTable, TableBounded
<1> QED BY <1>3, <1>4, <1>5, <1>6 DEF IInv

\* A call that was not admitted keeps the refill and may keep the cleanup.
LEMMA RefusalIInv ==
  ASSUME IInv, Tick, tokens' = Refilled, UNCHANGED <<now, emitted>>,
         sources' \in {sources, Recent}
  PROVE  IInv'
<1> USE DEF IInv
<1>1. /\ Refilled \in 0 .. BURST
      /\ now \div SECOND \in Nat
      /\ emitted + Refilled <= BURST + REFILL * (now \div SECOND)
  BY RefillFunded
<1>2. /\ DOMAIN sources' \subseteq Source
      /\ IsFiniteSet(DOMAIN sources')
      /\ Cardinality(DOMAIN sources') <= TABLE
      /\ \A s \in DOMAIN sources' : Balanced(sources'[s])
  <2>1. CASE sources' = sources
    BY <2>1 DEF TypeOK, RatioKept, BoundedTable, TableBounded, Balanced
  <2>2. CASE sources' = Recent
    BY <2>2, RecentKept
  <2> QED BY <2>1, <2>2
<1>3. sources' = [s \in DOMAIN sources' |-> sources'[s]]
  <2>1. CASE sources' = sources
    BY <2>1 DEF TypeOK
  <2>2. CASE sources' = Recent
    BY <2>2 DEF Recent, Restrict
  <2> QED BY <2>1, <2>2
<1>4. TypeOK'
  BY <1>1, <1>2, <1>3 DEF TypeOK, Tick, Balanced
<1>5. RatioKept'
  BY <1>2 DEF RatioKept, Balanced
<1>6. Funded'
  BY <1>1 DEF Funded, Tick
<1>7. BoundedTable'
  BY <1>2 DEF BoundedTable, TableBounded
<1> QED BY <1>4, <1>5, <1>6, <1>7

\* An admitted call spends one token, charges one account and adds at most
\* the account that HasRoom made sure of.
LEMMA AdmitIInv ==
  ASSUME IInv, NEW s \in Source, NEW size \in Size, Admit(s, size)
  PROVE  IInv'
<1> USE DEF IInv
<1> DEFINE e == Rolled(Account(s))
           D == DOMAIN Recent
<1>1. now \in Nat /\ emitted \in Nat /\ size \in Nat /\ RESPONSE <= size
  BY LimiterAssumption DEF TypeOK, Admit
<1>2. /\ Refilled \in 0 .. BURST
      /\ now \div SECOND \in Nat
      /\ emitted + Refilled <= BURST + REFILL * (now \div SECOND)
  BY RefillFunded
<1>3. Balanced(e)
  BY AccountBalanced
<1>4. Fits(e, size) /\ Balanced(Charged(e, size))
  BY <1>1, <1>3, BalancedFits
<1>5. /\ D \subseteq Source
      /\ IsFiniteSet(D)
      /\ Cardinality(D) \in Nat
      /\ Cardinality(D) <= TABLE
      /\ \A x \in D : Balanced(Recent[x])
  BY RecentKept
<1>6. /\ Refilled # 0
      /\ s \in D \/ HasRoom(Recent)
      /\ sources' = [x \in D \cup {s} |->
                       IF x = s THEN Charged(e, size) ELSE Recent[x]]
      /\ tokens' = Refilled - 1
      /\ emitted' = emitted + 1
      /\ second' = now \div SECOND
      /\ now' = now
  BY <1>4 DEF Admit, Spend, Tick
<1> HIDE DEF e
<1>7. Cardinality(D \cup {s}) <= TABLE /\ IsFiniteSet(D \cup {s})
  <2>1. CASE s \in D
    <3>1. D \cup {s} = D
      BY <2>1
    <3> QED BY <3>1, <1>5
  <2>2. CASE s \notin D
    <3>1. Cardinality(D) < TABLE
      BY <2>2, <1>6 DEF HasRoom
    <3>2. IsFiniteSet(D \cup {s}) /\ Cardinality(D \cup {s}) = Cardinality(D) + 1
      BY <2>2, <1>5, FS_AddElement
    <3> QED BY <3>1, <3>2, <1>5, LimiterAssumption
  <2> QED BY <2>1, <2>2
<1> HIDE DEF D
<1>8. DOMAIN sources' = D \cup {s} /\ \A x \in DOMAIN sources' : Balanced(sources'[x])
  BY <1>4, <1>5, <1>6
<1>9. TypeOK'
  <2>1. DOMAIN sources' \subseteq Source
    BY <1>5, <1>8
  <2>2. sources' \in [DOMAIN sources' -> Entry]
    BY <1>6, <1>8 DEF Balanced
  <2>3. tokens' \in 0 .. BURST
    BY <1>2, <1>6, LimiterAssumption
  <2>4. now' \in Nat /\ second' \in 0 .. now' \div SECOND /\ emitted' \in Nat
    BY <1>1, <1>2, <1>6
  <2> QED BY <2>1, <2>2, <2>3, <2>4 DEF TypeOK
<1>10. RatioKept'
  BY <1>8 DEF RatioKept, Balanced
<1>11. Funded'
  BY <1>1, <1>2, <1>6, LimiterAssumption DEF Funded
<1>12. BoundedTable'
  BY <1>7, <1>8 DEF BoundedTable, TableBounded
<1> QED BY <1>9, <1>10, <1>11, <1>12

LEMMA PassIInv ==
  ASSUME IInv, Pass
  PROVE  IInv'
<1> USE DEF IInv
<1>1. now \div SECOND <= now' \div SECOND /\ now' \div SECOND \in Nat /\ now \div SECOND \in Nat
  BY SecondsAdvance, Quotient, now \in Nat, now + 1 \in Nat, LimiterAssumption DEF TypeOK, Pass
<1>2. TypeOK'
  <2>1. second' \in 0 .. now' \div SECOND
    BY <1>1 DEF TypeOK, Pass
  <2> QED BY <2>1 DEF TypeOK, Pass
<1>3. RatioKept' /\ Funded' /\ BoundedTable'
  BY DEF Pass, RatioKept, Funded, BoundedTable, TableBounded
<1> QED BY <1>2, <1>3

LEMMA NextIInv == IInv /\ [Next]_vars => IInv'
<1> SUFFICES ASSUME IInv, [Next]_vars PROVE IInv'
  OBVIOUS
<1>1. ASSUME NEW s \in Source, NEW size \in Size, RefuseCheap(s, size)
      PROVE  IInv'
  BY <1>1, RefusalIInv DEF RefuseCheap
<1>2. ASSUME NEW s \in Source, NEW size \in Size, RefuseFull(s, size)
      PROVE  IInv'
  BY <1>2, RefusalIInv DEF RefuseFull
<1>3. ASSUME NEW s \in Source, NEW size \in Size, Admit(s, size)
      PROVE  IInv'
  BY <1>3, AdmitIInv
<1>4. CASE Pass
  BY <1>4, PassIInv
<1>5. CASE UNCHANGED vars
  BY <1>5 DEF vars, IInv, TypeOK, RatioKept, Funded, BoundedTable, TableBounded
<1> QED BY <1>1, <1>2, <1>3, <1>4, <1>5 DEF Next

LEMMA Invariance == Spec => []IInv
  BY InitIInv, NextIInv, PTL DEF Spec

-----------------------------------------------------------------------------
(* What admit promises *)

\* The bucket stays within the burst and the accounts are well formed.
THEOREM TypeCorrect == Spec => []TypeOK
  BY Invariance, PTL DEF IInv

\* The source table never outgrows its limit, whichever call, admitted or
\* refused, was the last to clean it.
THEOREM TableStaysBounded == Spec => []TableBounded
<1>1. IInv => TableBounded
  BY DEF IInv, BoundedTable
<1> QED BY <1>1, Invariance, PTL

\* No source has ever been sent more bytes than it sent in its window.
THEOREM RatioStaysKept == Spec => []RatioKept
  BY Invariance, PTL DEF IInv

\* All responses ever emitted fit the burst and the refill of the seconds
\* passed, also with the refill cut to a u32.
THEOREM PaceIsKept == Spec => []Paced
<1>1. IInv => Paced
  <2> SUFFICES ASSUME IInv PROVE Paced
    OBVIOUS
  <2>1. emitted \in Nat /\ tokens \in Nat /\ second \in Nat
    BY LimiterAssumption DEF IInv, TypeOK
  <2>2. emitted + tokens <= BURST + REFILL * second
    BY DEF IInv, Funded
  <2> QED BY <2>1, <2>2, LimiterAssumption DEF Paced
<1> QED BY <1>1, Invariance, PTL

\* The cumulative comparison at the end of admit refuses nothing: whatever
\* passed the size check before it is admitted.
THEOREM ComparisonIsRedundant == Spec => []RatioNeverRefuses
<1>1. IInv => RatioNeverRefuses
  <2> SUFFICES ASSUME IInv, NEW s \in Source, NEW size \in Size, RESPONSE <= size
               PROVE  Fits(Rolled(Account(s)), size)
    BY DEF RatioNeverRefuses
  <2>1. Balanced(Rolled(Account(s)))
    BY AccountBalanced DEF IInv
  <2>2. size \in Nat
    BY LimiterAssumption
  <2> QED BY <2>1, <2>2, LimiterAssumption DEF Fits, Balanced, Entry
<1> QED BY <1>1, Invariance, PTL
=============================================================================
