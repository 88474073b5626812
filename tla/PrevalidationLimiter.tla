------------------------- MODULE PrevalidationLimiter -------------------------
(***************************************************************************)
(* The budget a server spends on VERIFY_COOKIE responses before it knows   *)
(* who is asking (r8-session, PrevalidationLimiter::admit): a token bucket *)
(* for all responses, and a byte account per observed source in fixed      *)
(* windows.  A refused call may still have refilled the bucket, dropped    *)
(* silent sources, or opened an account.                                   *)
(*                                                                         *)
(* Left out: the checked_add of the byte counts, which one window's        *)
(* traffic cannot overflow, and the saturation of the elapsed seconds.     *)
(***************************************************************************)
EXTENDS Integers, FiniteSets, Functions

CONSTANTS
  Source,           \* hashes of observed sources
  Size,             \* sizes of an OPEN packet
  RESPONSE,         \* size of a VERIFY_COOKIE packet (170)
  BURST,            \* token capacity (2000)
  REFILL,           \* tokens per second (1000)
  SECOND,           \* clock units per second (1000)
  WINDOW,           \* accounting window, and life of an account (20 s)
  TABLE,            \* accounts kept (4096)
  U32,              \* values of a u32 (2^32)
  MaxTime           \* bound on the clock

ASSUME LimiterAssumption ==
  /\ Size \subseteq Nat /\ RESPONSE \in Nat
  /\ BURST \in Nat /\ REFILL \in Nat
  /\ SECOND \in Nat \ {0} /\ WINDOW \in Nat
  /\ TABLE \in Nat /\ U32 \in Nat \ {0} /\ BURST < U32
  /\ MaxTime \in Nat

VARIABLES
  sources,        \* accounts: started, seen, requests and responses
  tokens,
  second,         \* token_second
  now,
  emitted         \* history: responses allowed so far

vars == <<sources, tokens, second, now, emitted>>

Init ==
  /\ sources = <<>>
  /\ tokens = BURST
  /\ second = 0
  /\ now = 0
  /\ emitted = 0

Lesser(x, y) == IF x < y THEN x ELSE y

\* The product is cut to a u32 before it is added.
Earned == (((now \div SECOND) - second) * REFILL) % U32

Refilled == Lesser(BURST, tokens + Earned)

\* Faulty variant of Spend: a response costs nothing.
SpendNothing(t) == t

Spend(t) == t - 1

HasRoom(live) == Cardinality(DOMAIN live) < TABLE

\* accounts silent for a window are dropped
Recent == Restrict(sources, {s \in DOMAIN sources : now - sources[s].seen < WINDOW})

\* the account of s, opened now if there is none
Account(s) ==
  IF s \in DOMAIN Recent THEN Recent[s]
  ELSE [started |-> now, seen |-> now, requests |-> 0, responses |-> 0]

\* a new window starts from zero
Rolled(e) ==
  IF now - e.started >= WINDOW
  THEN [started |-> now, seen |-> e.seen, requests |-> 0, responses |-> 0] ELSE e

\* Faulty variant of Charged: only the response is booked.
ChargedResponse(e, size) ==
  [started |-> e.started, seen |-> now, requests |-> e.requests,
   responses |-> e.responses + RESPONSE]

\* the account after a request of the given size is answered
Charged(e, size) ==
  [started |-> e.started, seen |-> now, requests |-> e.requests + size,
   responses |-> e.responses + RESPONSE]

\* cumulative responses within cumulative requests
Fits(e, size) == e.responses + RESPONSE <= e.requests + size

\* every call starts with the refill
Tick == second' = now \div SECOND

\* no token, or a response larger than the request
RefuseCheap(s, size) ==
  /\ Refilled = 0 \/ RESPONSE > size
  /\ Tick /\ tokens' = Refilled
  /\ UNCHANGED <<sources, now, emitted>>

\* a new source while the table is full
RefuseFull(s, size) ==
  /\ Refilled # 0 /\ RESPONSE <= size
  /\ s \notin DOMAIN Recent /\ ~HasRoom(Recent)
  /\ Tick /\ tokens' = Refilled
  /\ sources' = Recent
  /\ UNCHANGED <<now, emitted>>

\* the account is opened and rolled before it is compared
Admit(s, size) ==
  /\ Refilled # 0 /\ RESPONSE <= size
  /\ s \in DOMAIN Recent \/ HasRoom(Recent)
  /\ LET e == Rolled(Account(s))
         fits == Fits(e, size)
     IN  /\ sources' = [x \in DOMAIN Recent \cup {s} |->
                          IF x = s THEN IF fits THEN Charged(e, size) ELSE e
                          ELSE Recent[x]]
         /\ tokens' = IF fits THEN Spend(Refilled) ELSE Refilled
         /\ emitted' = IF fits THEN emitted + 1 ELSE emitted
  /\ Tick
  /\ UNCHANGED now

Pass ==
  /\ now < MaxTime
  /\ now' = now + 1
  /\ UNCHANGED <<sources, tokens, second, emitted>>

Next ==
  \/ \E s \in Source, size \in Size :
       RefuseCheap(s, size) \/ RefuseFull(s, size) \/ Admit(s, size)
  \/ Pass

Spec == Init /\ [][Next]_vars

-----------------------------------------------------------------------------
(* Properties *)

Entry == [started : Nat, seen : Nat, requests : Nat, responses : Nat]

\* Tokens stay within the burst and accounts are those of real sources.
TypeOK ==
  /\ DOMAIN sources \subseteq Source
  /\ sources \in [DOMAIN sources -> Entry]
  /\ tokens \in 0 .. BURST
  /\ now \in Nat /\ second \in 0 .. now \div SECOND
  /\ emitted \in Nat

\* P-PREVALIDATION-SOURCE-TABLE-MAX: refused and admitted calls alike leave at
\* most TABLE accounts.
TableBounded == Cardinality(DOMAIN sources) <= TABLE

\* P-PREVALIDATION-CUMULATIVE-RATIO: no account, also one that was just rolled
\* and then refused, has answered more than it was asked.
RatioKept == \A s \in DOMAIN sources : sources[s].responses <= sources[s].requests

\* P-PREVALIDATION-GLOBAL-BURST and -REFILL: since the start the server has
\* answered at most one burst and the refill of the seconds passed.
Paced == emitted <= BURST + REFILL * second

\* The comparison with the cumulative account never refuses a call that got
\* that far: the size check before it and RatioKept make it redundant.
RatioNeverRefuses ==
  \A s \in Source, size \in Size :
    RESPONSE <= size => Fits(Rolled(Account(s)), size)

\* P-PREVALIDATION-GLOBAL-REFILL promises REFILL tokens for every elapsed
\* second, up to the burst.
RefillComplete ==
  [][second' > second =>
       tokens' >= Lesser(BURST, tokens + REFILL * (second' - second)) - 1]_vars
=============================================================================
