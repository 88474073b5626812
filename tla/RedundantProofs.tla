--------------------------- MODULE RedundantProofs ---------------------------
(***************************************************************************)
(* Proofs about Redundant for every window, gap, queue and cache size,     *)
(* every set of holders and every setup.                                   *)
(***************************************************************************)
EXTENDS Redundant, TLAPS

-----------------------------------------------------------------------------
(***************************************************************************)
(* What the operators of DeliveredWindow do to any window of identities,   *)
(* for every window size.                                                  *)
(***************************************************************************)

Positive == Nat \ {0}     \* ids and byte identities

\* A window whose high-water mark is in H and whose array holds members of P
DeliveredIn(H, P) == [high : H, prints : [0 .. DELIVERED_WINDOW_IDS - 1 -> P]]

Delivery == [id : Positive, bytes : Positive]

\* Window w remembers the set A of deliveries: none has an id above the
\* high-water mark, and among the ids in the window exactly those of A have a
\* fingerprint, which is that of their bytes.  Before the first delivery the
\* array is empty: the first insert clears nothing.
Remembers(w, A) ==
  /\ w.high = 0 => w.prints = EmptyPrints
  /\ \A a \in A : a.id <= w.high
  /\ \A id \in Positive : w.high - id \in 0 .. DELIVERED_WINDOW_IDS - 1 =>
       \A b \in Positive :
         w.prints[Index(id)] = b <=> [id |-> id, bytes |-> b] \in A

\* Two ids less than a window apart have different places in the ring.
LEMMA IndexDistinct ==
  ASSUME NEW a \in Nat, NEW b \in Nat, a < b, b - a < DELIVERED_WINDOW_IDS
  PROVE  Index(a) # Index(b)
<1>. DEFINE W == DELIVERED_WINDOW_IDS
            p == a \div W
            q == b \div W
            r == a % W
<1>1. W \in Nat \ {0}
  BY WindowAssumption
<1>. HIDE DEF W
<1>2. p \in Nat /\ a = W * p + (a % W) /\ a % W \in Nat
  BY <1>1
<1>3. q \in Nat /\ b = W * q + (b % W) /\ b % W \in Nat
  BY <1>1
<1>4. SUFFICES ASSUME a % W = b % W PROVE FALSE
  BY DEF Index, W
<1>. HIDE DEF p, q
<1>5. W * p \in Nat /\ W * q \in Nat /\ b - a = W * q - W * p
  BY <1>1, <1>2, <1>3, <1>4
<1>6. p < q
  <2>1. SUFFICES ASSUME q <= p PROVE FALSE
    BY <1>2, <1>3
  <2>2. W * q <= W * p
    BY <1>1, <1>2, <1>3, <2>1
  <2>. QED BY <1>5, <2>2
<1>7. W * (p + 1) <= W * q
  BY <1>1, <1>2, <1>3, <1>6
<1>8. W * (p + 1) = W * p + W
  BY <1>1, <1>2
<1>. QED BY <1>1, <1>5, <1>7, <1>8 DEF W

LEMMA IndexType ==
  ASSUME NEW a \in Nat
  PROVE  Index(a) \in 0 .. DELIVERED_WINDOW_IDS - 1
BY WindowAssumption DEF Index

\* The ring after `insert` has made room, at the place of an id that stays in
\* the window: unchanged if the id was in the window before, else empty.
LEMMA ClearedAt ==
  ASSUME NEW w \in DeliveredIn(Nat, Nat), w.high = 0 => w.prints = EmptyPrints,
         NEW id \in Positive, NEW v \in Positive,
         v <= (IF id > w.high THEN id ELSE w.high),
         (IF id > w.high THEN id ELSE w.high) - v < DELIVERED_WINDOW_IDS
  PROVE  Cleared(w, id)[Index(v)] = IF v <= w.high THEN w.prints[Index(v)] ELSE NoPrint
<1>. USE WindowAssumption DEF Positive
<1>0. w.high \in Nat /\ Index(v) \in 0 .. DELIVERED_WINDOW_IDS - 1
  BY IndexType, Zenon DEF DeliveredIn
<1>1. DOMAIN w.prints = 0 .. DELIVERED_WINDOW_IDS - 1
  BY DEF DeliveredIn
<1>2. EmptyPrints[Index(v)] = NoPrint
  BY <1>0 DEF EmptyPrints
<1>3. CASE w.high = 0
  BY <1>2, <1>3, <1>0 DEF Cleared
<1>4. CASE w.high # 0 /\ id <= w.high
  BY <1>4, <1>0 DEF Cleared
<1>5. CASE w.high # 0 /\ id > w.high /\ id - w.high >= DELIVERED_WINDOW_IDS
  BY <1>5, <1>2, <1>0 DEF Cleared
<1>6. CASE w.high # 0 /\ id > w.high /\ id - w.high < DELIVERED_WINDOW_IDS
  <2>1. Cleared(w, id)[Index(v)] =
          IF \E u \in w.high + 1 .. id : Index(u) = Index(v)
          THEN NoPrint ELSE w.prints[Index(v)]
    BY <1>6, <1>0, <1>1 DEF Cleared
  <2>2. CASE v > w.high
    <3>1. v \in w.high + 1 .. id
      BY <1>6, <2>2, <1>0
    <3>. QED BY <2>1, <2>2, <3>1, <1>0
  <2>3. CASE v <= w.high
    <3>1. ASSUME NEW u \in w.high + 1 .. id PROVE Index(u) # Index(v)
      <4>1. u \in Nat /\ v < u /\ u - v < DELIVERED_WINDOW_IDS
        BY <1>6, <2>3, <1>0
      <4>. QED BY <4>1, IndexDistinct
    <3>. QED BY <2>1, <2>3, <3>1
  <2>. QED BY <2>2, <2>3, <1>0
<1>. QED BY <1>3, <1>4, <1>5, <1>6, <1>0

\* The window keeps its type.
LEMMA InsertType ==
  ASSUME NEW H \in SUBSET Nat, NEW P, NoPrint \in P,
         NEW w \in DeliveredIn(H, P), NEW id \in H, NEW b \in P
  PROVE  /\ Cleared(w, id) \in [0 .. DELIVERED_WINDOW_IDS - 1 -> P]
         /\ Insert(w, id, b) \in DeliveredIn(H, P)
<1>. DEFINE Ring == [0 .. DELIVERED_WINDOW_IDS - 1 -> P]
<1>1. w.prints \in Ring /\ w.high \in H
  BY DEF DeliveredIn
<1>2. EmptyPrints \in Ring
  BY DEF EmptyPrints
<1>3. [i \in DOMAIN w.prints |->
         IF \E v \in w.high + 1 .. id : Index(v) = i
         THEN NoPrint ELSE w.prints[i]] \in Ring
  BY <1>1, Zenon
<1>4. Cleared(w, id) \in Ring
  <2>. HIDE DEF Ring
  <2>. QED BY <1>1, <1>2, <1>3 DEF Cleared
<1>5. [Cleared(w, id) EXCEPT ![Index(id)] = b] \in Ring
  BY <1>4, Zenon
<1>. QED BY <1>1, <1>4, <1>5 DEF Insert, DeliveredIn

\* Inserting a delivery that is neither too old nor seen makes the window
\* remember it besides all others; its id was not among theirs.
LEMMA InsertRemembers ==
  ASSUME NEW w \in DeliveredIn(Nat, Nat), NEW A \in SUBSET Delivery, Remembers(w, A),
         NEW id \in Positive, NEW b \in Positive, ~TooOld(w, id), ~Seen(w, id)
  PROVE  /\ Insert(w, id, b) \in DeliveredIn(Nat, Nat)
         /\ Remembers(Insert(w, id, b), A \cup {[id |-> id, bytes |-> b]})
         /\ \A a \in A : a.id # id
<1>. DEFINE new == Insert(w, id, b)
            high == IF id > w.high THEN id ELSE w.high
            B == A \cup {[id |-> id, bytes |-> b]}
<1>. USE WindowAssumption DEF Positive
<1>1. w.high \in Nat
  BY DEF DeliveredIn
<1>2. high \in Positive /\ id <= high /\ w.high <= high
  BY <1>1
<1>3. high - id < DELIVERED_WINDOW_IDS
  BY <1>1 DEF TooOld
<1>4. Index(id) \in 0 .. DELIVERED_WINDOW_IDS - 1
  BY IndexType
<1>5. new = [high |-> high, prints |-> [Cleared(w, id) EXCEPT ![Index(id)] = b]]
  BY DEF Insert
<1>6. new.high = high /\ new.prints = [Cleared(w, id) EXCEPT ![Index(id)] = b]
  BY <1>5
<1>7. /\ Cleared(w, id) \in [0 .. DELIVERED_WINDOW_IDS - 1 -> Nat]
      /\ new \in DeliveredIn(Nat, Nat)
  BY InsertType, Zenon DEF NoPrint
<1>8. b # NoPrint
  BY DEF NoPrint
<1>9. \A a \in A : a.id # id
  <2>. SUFFICES ASSUME NEW a \in A, a.id = id PROVE FALSE
    OBVIOUS
  <2>1. a.bytes \in Positive /\ a = [id |-> id, bytes |-> a.bytes] /\ id <= w.high
    BY DEF Delivery, Remembers
  <2>2. w.high - id \in 0 .. DELIVERED_WINDOW_IDS - 1
    BY <1>1, <2>1 DEF TooOld
  <2>3. w.prints[Index(id)] = a.bytes
    BY <2>1, <2>2 DEF Remembers
  <2>. QED BY <1>1, <2>1, <2>2, <2>3 DEF Seen, NoPrint
<1>10. ASSUME NEW v \in Positive, high - v \in 0 .. DELIVERED_WINDOW_IDS - 1, NEW c \in Positive
       PROVE  new.prints[Index(v)] = c <=> [id |-> v, bytes |-> c] \in B
  <2>0. Index(v) \in 0 .. DELIVERED_WINDOW_IDS - 1
    BY IndexType
  <2>1. CASE v = id
    <3>1. new.prints[Index(v)] = b
      BY <2>1, <1>4, <1>6, <1>7
    <3>2. [id |-> v, bytes |-> c] \notin A
      BY <2>1, <1>9
    <3>3. [id |-> v, bytes |-> c] = [id |-> id, bytes |-> b] <=> c = b
      BY <2>1
    <3>. QED BY <3>1, <3>2, <3>3
  <2>2. CASE v # id
    <3>1. Index(v) # Index(id)
      <4>1. v \in Nat /\ id \in Nat /\ v <= high /\ high - v < DELIVERED_WINDOW_IDS
        BY <1>2, <1>10
      <4>2. CASE v < id
        BY <4>1, <4>2, <1>2, <1>3, IndexDistinct
      <4>3. CASE id < v
        BY <4>1, <4>3, <1>2, <1>3, IndexDistinct
      <4>. QED BY <4>1, <4>2, <4>3, <2>2
    <3>2. new.prints[Index(v)] = Cleared(w, id)[Index(v)]
      BY <3>1, <1>6, <2>0, <1>7
    <3>3. v <= high /\ high - v < DELIVERED_WINDOW_IDS
      BY <1>2, <1>10, SMTT(30)
    <3>4. Cleared(w, id)[Index(v)] = IF v <= w.high THEN w.prints[Index(v)] ELSE NoPrint
      BY <3>3, ClearedAt DEF Remembers
    <3>5. [id |-> v, bytes |-> c] \in B <=> [id |-> v, bytes |-> c] \in A
      BY <2>2, SMTT(30)
    <3>6. CASE v <= w.high
      <4>1. w.high - v \in 0 .. DELIVERED_WINDOW_IDS - 1
        BY <1>1, <1>2, <3>3, <3>6, SMTT(30)
      <4>2. w.prints[Index(v)] = c <=> [id |-> v, bytes |-> c] \in A
        BY <4>1 DEF Remembers
      <4>. QED BY <3>2, <3>4, <3>5, <3>6, <4>2
    <3>7. CASE v > w.high
      <4>1. [id |-> v, bytes |-> c] \notin A
        BY <1>1, <3>7 DEF Remembers
      <4>. QED BY <3>2, <3>4, <3>5, <3>7, <4>1, <1>1 DEF NoPrint
    <3>. QED BY <3>6, <3>7, <1>1
  <2>. QED BY <2>1, <2>2
<1>11. \A a \in B : a.id <= high
  BY <1>1, <1>2 DEF Remembers, Delivery
<1>12. Remembers(new, B)
  <2>. HIDE DEF new, high, B
  <2>. QED BY <1>2, <1>6, <1>10, <1>11 DEF Remembers
<1>. QED BY <1>7, <1>9, <1>12

-----------------------------------------------------------------------------
(***************************************************************************)
(* The numbers of the session.                                             *)
(***************************************************************************)

\* Ids and bytes are positive numbers; an array entry is a fingerprint or none.
LEMMA Numbers ==
  /\ U64_MAX \in Nat \ {0}
  /\ \A id \in Id : id \in Positive /\ id \in Nat \ {0} /\ id < U64_MAX
  /\ \A b \in Bytes : b \in Positive /\ b \in Nat \ {0} /\ b <= U64_MAX
  /\ \A b \in 0 .. U64_MAX : b = NoPrint \/ b \in Bytes
  /\ NoPrint \notin Bytes /\ NoPrint \in 0 .. U64_MAX
<1>1. U64_MAX \in Nat \ {0}
  BY ReplayAssumption, Zenon
<1>. QED BY <1>1 DEF Id, Bytes, OtherBytes, NoPrint, Positive

DeliveredType == DeliveredIn(0 .. U64_MAX - 1, 0 .. U64_MAX)

-----------------------------------------------------------------------------
(***************************************************************************)
(* The inductive invariant.  What keeps a delivery from reaching the       *)
(* application again is that the window remembers it or has passed it by;  *)
(* that needs the decision of the one preview that can be committed to be  *)
(* current, and previews to come from packets the sender sealed.           *)
(***************************************************************************)

\* A live session has an active path: remove_path closes it with the last one.
PathLeft == \A e \in End : live[e] => \E s \in Slot : path[e][s] = "Active"

SealedOn(s) == {p \in sealed : p.slot = s}

\* The counters used on a path are those below its next counter, each for one
\* packet.
CountersUsed ==
  \A s \in Slot :
    /\ \A p \in SealedOn(s) : p.counter < counter[s]
    /\ \A c \in 1 .. counter[s] - 1 : \E p \in SealedOn(s) : p.counter = c
    /\ \A p, q \in SealedOn(s) : p.counter = q.counter => p = q

\* A live sender has used the ids from its seed up to the next one.
IdsUsed ==
  live["S"] => next >= Setup.seed /\ {p.id : p \in sealed} = Setup.seed .. next - 1

\* Only sealed packets are queued and on the wire, previews are of packets on
\* the wire, and what was accepted was sealed.
FromSealed ==
  /\ \A s \in Slot : queue[s] \in Seq(sealed)
  /\ net \subseteq sealed
  /\ \A h \in Holder : preview[h] # None => preview[h].packet \in net
  /\ \A a \in accepted : \E p \in sealed : p.id = a.id /\ p.bytes = a.bytes

\* The window of a live receiver remembers what was accepted.
AcceptedRemembered == live["R"] => Remembers(window, accepted)

\* What reached the application was accepted, and reached it once.
DeliveredAccepted ==
  \A id \in Id : /\ deliveries[id] \in {0, 1}
                 /\ deliveries[id] = 1 => \E a \in accepted : a.id = id

IInv ==
  /\ TypeOK
  /\ PathLeft
  /\ CountersUsed
  /\ IdsUsed
  /\ FromSealed
  /\ AcceptedRemembered
  /\ DecisionCurrent
  /\ DeliveredAccepted

\* What the queues need of sequences
LEMMA QueueFacts ==
  ASSUME NEW S
  PROVE  /\ <<>> \in Seq(S)
         /\ \A q \in Seq(S) :
              /\ \A e \in S : Append(q, e) \in Seq(S)
              /\ q # <<>> => Head(q) \in S /\ Tail(q) \in Seq(S)
              /\ \A T : S \subseteq T => q \in Seq(T)
<1>1. \A q \in Seq(S) : \A e \in S : Append(q, e) \in Seq(S)
  OBVIOUS
<1>2. \A q \in Seq(S) : q # <<>> => Head(q) \in S /\ Tail(q) \in Seq(S)
  OBVIOUS
<1>3. ASSUME NEW q \in Seq(S), NEW T, S \subseteq T PROVE q \in Seq(T)
  BY <1>3
<1>4. <<>> \in Seq(S)
  OBVIOUS
<1>. QED BY <1>1, <1>2, <1>3, <1>4, Zenon

LEMMA InitIInv == Init => IInv
<1>. SUFFICES ASSUME Init PROVE IInv
  OBVIOUS
<1>. USE DEF Init
<1>0. Setup.seed \in Id /\ Setup.time \in Nat
  BY RedundantAssumption, Zenon DEF Setup, Id
<1>1. TypeOK
  <2>1. window \in DeliveredType
    BY Numbers DEF NewDelivered, EmptyPrints, DeliveredType, DeliveredIn
  <2>2. next \in 1 .. U64_MAX /\ now \in 0 .. Setup.time
    BY <1>0, Numbers
  <2>3. counter \in [Slot -> 1 .. U64_MAX]
    BY Numbers
  <2>4. replay \in [Slot -> WindowType]
    BY ReplayAssumption DEF NewWindow, WindowType
  <2>5. queue \in [Slot -> Seq(PacketType)]
    BY QueueFacts, Zenon
  <2>. QED BY <2>1, <2>2, <2>3, <2>4, <2>5 DEF TypeOK, DeliveredType, DeliveredIn
<1>2. PathLeft
  BY Zenon DEF PathLeft, End, Slot
<1>3. CountersUsed
  <2>1. \A s \in Slot : SealedOn(s) = {} /\ counter[s] = 1
    BY Zenon DEF SealedOn
  <2>. QED BY <2>1 DEF CountersUsed
<1>4. IdsUsed
  BY <1>0, Numbers DEF IdsUsed
<1>5. FromSealed
  BY QueueFacts, Zenon DEF FromSealed
<1>6. AcceptedRemembered
  <2>1. window.high = 0 /\ window.prints = EmptyPrints /\ accepted = {}
    BY Zenon DEF NewDelivered
  <2>2. \A id \in Positive : ~(0 - id \in 0 .. DELIVERED_WINDOW_IDS - 1)
    BY WindowAssumption DEF Positive
  <2>. QED BY <2>1, <2>2, Zenon DEF AcceptedRemembered, Remembers
<1>7. DecisionCurrent /\ DeliveredAccepted
  BY DEF DecisionCurrent, Accepts, DeliveredAccepted
<1>. QED BY <1>1, <1>2, <1>3, <1>4, <1>5, <1>6, <1>7, Zenon DEF IInv

-----------------------------------------------------------------------------
(* What a step leaves alone it does not disturb *)

LEMMA SenderFrame ==
  ASSUME IInv, UNCHANGED <<next, counter, sealed, setup>>, live'["S"] => live["S"]
  PROVE  CountersUsed' /\ IdsUsed'
<1>1. \A s : SealedOn(s)' = SealedOn(s)
  BY Zenon DEF SealedOn
<1>2. CountersUsed'
  BY <1>1, Zenon DEF IInv, CountersUsed
<1>3. IdsUsed'
  BY Zenon DEF IInv, IdsUsed, Setup
<1>. QED BY <1>2, <1>3, Zenon

LEMMA ReceiverFrame ==
  ASSUME IInv, UNCHANGED <<window, accepted, deliveries>>, live'["R"] => live["R"]
  PROVE  AcceptedRemembered' /\ DeliveredAccepted'
<1>1. AcceptedRemembered'
  BY Zenon DEF IInv, AcceptedRemembered, Remembers
<1>2. DeliveredAccepted'
  BY Zenon DEF IInv, DeliveredAccepted
<1>. QED BY <1>1, <1>2, Zenon

\* No preview becomes acceptable, and the window stays as it is.
LEMMA DecisionFrame ==
  ASSUME IInv, UNCHANGED window, live'["R"] => live["R"],
         \A h \in Holder : Accepts(h)' =>
           /\ Accepts(h)
           /\ preview'[h].packet = preview[h].packet
           /\ preview'[h].decision = preview[h].decision
  PROVE  DecisionCurrent'
BY Zenon DEF IInv, DecisionCurrent, Known

\* Packets are only added, previews only taken away, nothing is accepted.
LEMMA PacketFrame ==
  ASSUME IInv, UNCHANGED accepted, sealed \subseteq sealed', net \subseteq net',
         net' \subseteq sealed', \A s \in Slot : queue'[s] \in Seq(sealed'),
         \A h \in Holder : preview'[h] # None =>
           preview[h] # None /\ preview'[h].packet = preview[h].packet
  PROVE  FromSealed'
BY Zenon DEF IInv, FromSealed

\* A lease that is taken back leaves an inactive preview of the same packet.
LEMMA RevokedPreview ==
  ASSUME TypeOK
  PROVE  /\ Revoked \in [Holder -> PreviewType \cup {None}]
         /\ \A h \in Holder :
              /\ Revoked[h] # None => /\ preview[h] # None
                                      /\ Revoked[h].packet = preview[h].packet
                                      /\ Revoked[h].decision = preview[h].decision
<1>1. ASSUME NEW v \in PreviewType
      PROVE  LET r == [v EXCEPT !.active = FALSE]
             IN  r \in PreviewType /\ r.packet = v.packet /\ r.decision = v.decision
  BY Zenon DEF PreviewType
<1>2. ASSUME NEW h \in Holder
      PROVE  /\ Revoked[h] \in PreviewType \cup {None}
             /\ Revoked[h] # None => /\ preview[h] # None
                                     /\ Revoked[h].packet = preview[h].packet
                                     /\ Revoked[h].decision = preview[h].decision
  <2>1. preview[h] \in PreviewType \cup {None}
    BY Zenon DEF TypeOK
  <2>2. Revoked[h] = IF h = lease /\ preview[h] # None
                     THEN [preview[h] EXCEPT !.active = FALSE] ELSE preview[h]
    BY Zenon DEF Revoked
  <2>3. CASE h = lease /\ preview[h] # None
    <3>1. preview[h] \in PreviewType
      BY <2>1, <2>3, Zenon
    <3>. QED BY <1>1, <2>2, <2>3, <3>1, Zenon
  <2>4. CASE ~(h = lease /\ preview[h] # None)
    BY <2>1, <2>2, <2>4, Zenon
  <2>. QED BY <2>3, <2>4, Zenon
<1>. QED BY <1>2, Zenon DEF Revoked

-----------------------------------------------------------------------------
(* Releasing, paths and admission *)

\* close of the sender, for whatever reason
LEMMA ReleaseSender ==
  ASSUME IInv, Release("S"), UNCHANGED <<owner, net, now, setup>>
  PROVE  IInv'
<1>1. /\ live' = [live EXCEPT !["S"] = FALSE]
      /\ path' = [path EXCEPT !["S"] = [s \in Slot |-> "Released"]]
      /\ issuer' = [issuer EXCEPT !["S"] = FALSE]
      /\ next' = 1 /\ queue' = [s \in Slot |-> <<>>]
      /\ UNCHANGED <<counter, sealed>>
      /\ UNCHANGED <<replay, window, dedup, lease, preview, deliveries, accepted>>
  BY Zenon DEF Release, receiving
<1>2. live \in [End -> BOOLEAN] /\ live'["S"] = FALSE /\ live'["R"] = live["R"]
  BY <1>1, Zenon DEF IInv, TypeOK, End
<1>3. TypeOK'
  <2>1. /\ live' \in [End -> BOOLEAN]
        /\ path' \in [End -> [Slot -> {"Absent", "Active", "Removed", "Released"}]]
        /\ issuer' \in [End -> BOOLEAN]
    BY <1>1, Zenon DEF IInv, TypeOK
  <2>2. next' \in 1 .. U64_MAX
    BY <1>1, Numbers
  <2>3. queue' \in [Slot -> Seq(PacketType)]
    BY <1>1, QueueFacts, Zenon
  <2>. QED BY <1>1, <2>1, <2>2, <2>3, Zenon DEF IInv, TypeOK, Setup
<1>4. PathLeft'
  BY <1>1, <1>2, Zenon DEF IInv, PathLeft, TypeOK, End
<1>5. CountersUsed' /\ IdsUsed'
  <2>1. CountersUsed'
    BY <1>1, Zenon DEF IInv, CountersUsed, SealedOn
  <2>. QED BY <2>1, <1>2, Zenon DEF IdsUsed
<1>6. FromSealed'
  <2>1. \A s \in Slot : queue'[s] \in Seq(sealed')
    BY <1>1, QueueFacts, Zenon
  <2>2. net' \subseteq sealed'
    BY <1>1, Zenon DEF IInv, FromSealed
  <2>. QED BY <1>1, <2>1, <2>2, PacketFrame, Zenon
<1>7. AcceptedRemembered' /\ DeliveredAccepted'
  BY <1>1, <1>2, ReceiverFrame, Zenon
<1>8. DecisionCurrent'
  BY <1>1, <1>2, DecisionFrame, Zenon DEF Accepts
<1>. QED BY <1>3, <1>4, <1>5, <1>6, <1>7, <1>8, Zenon DEF IInv

\* close of the receiver: everything is forgotten, and the lease taken back
LEMMA ReleaseReceiver ==
  ASSUME IInv, Release("R"), UNCHANGED <<owner, net, now, setup>>
  PROVE  IInv'
<1>1. /\ live' = [live EXCEPT !["R"] = FALSE]
      /\ path' = [path EXCEPT !["R"] = [s \in Slot |-> "Released"]]
      /\ issuer' = [issuer EXCEPT !["R"] = FALSE]
      /\ replay' = [s \in Slot |-> NewWindow]
      /\ window' = NewDelivered /\ dedup' = <<>>
      /\ lease' = None /\ preview' = Revoked
      /\ UNCHANGED <<next, counter, queue, sealed>>
      /\ UNCHANGED <<deliveries, accepted>>
  BY Zenon DEF Release, sending
<1>2. live \in [End -> BOOLEAN] /\ live'["R"] = FALSE /\ live'["S"] = live["S"]
  BY <1>1, Zenon DEF IInv, TypeOK, End
<1>3. TypeOK'
  <2>1. /\ live' \in [End -> BOOLEAN]
        /\ path' \in [End -> [Slot -> {"Absent", "Active", "Removed", "Released"}]]
        /\ issuer' \in [End -> BOOLEAN]
    BY <1>1, Zenon DEF IInv, TypeOK
  <2>2. window' \in DeliveredType
    BY <1>1, Numbers, SMTT(30) DEF NewDelivered, EmptyPrints, DeliveredType, DeliveredIn
  <2>3. replay' \in [Slot -> WindowType]
    BY <1>1, ReplayAssumption DEF NewWindow, WindowType
  <2>4. preview' \in [Holder -> PreviewType \cup {None}]
    BY <1>1, RevokedPreview, Zenon DEF IInv
  <2>5. DOMAIN dedup' \subseteq Id
    BY <1>1
  <2>. QED BY <1>1, <2>1, <2>2, <2>3, <2>4, <2>5, Zenon DEF IInv, TypeOK, Setup, DeliveredType,
               DeliveredIn
<1>4. PathLeft'
  BY <1>1, <1>2, Zenon DEF IInv, PathLeft, TypeOK, End
<1>5. CountersUsed' /\ IdsUsed'
  BY <1>1, <1>2, SenderFrame, Zenon
<1>6. FromSealed'
  <2>1. /\ \A s \in Slot : queue'[s] \in Seq(sealed')
        /\ net' \subseteq sealed'
    BY <1>1, Zenon DEF IInv, FromSealed
  <2>. QED BY <1>1, <2>1, PacketFrame, RevokedPreview, Zenon DEF IInv
<1>7. AcceptedRemembered' /\ DeliveredAccepted'
  BY <1>1, <1>2, Zenon DEF IInv, AcceptedRemembered, DeliveredAccepted
<1>8. DecisionCurrent'
  BY <1>2, Zenon DEF DecisionCurrent
<1>. QED BY <1>3, <1>4, <1>5, <1>6, <1>7, <1>8, Zenon DEF IInv

\* remove_path's look at the lease, on its own
LEMMA RevokeKeeps ==
  ASSUME TypeOK, NEW e \in End, Revoke(e)
  PROVE  /\ lease' \in Holder \cup {None}
         /\ preview' \in [Holder -> PreviewType \cup {None}]
         /\ \A h \in Holder :
              /\ preview'[h] # None => /\ preview[h] # None
                                       /\ preview'[h].packet = preview[h].packet
              /\ Accepts(h)' => /\ Accepts(h)
                                /\ preview'[h].decision = preview[h].decision
<1>1. CASE e = "R"
  <2>1. lease' = None /\ preview' = Revoked
    BY <1>1, Zenon DEF Revoke
  <2>2. \A h \in Holder : ~Accepts(h)'
    BY <2>1, RedundantAssumption, Zenon DEF Accepts, None
  <2>. QED BY <2>1, <2>2, RevokedPreview, Zenon
<1>2. CASE e # "R"
  <2>1. UNCHANGED <<lease, preview>>
    BY <1>2, Zenon DEF Revoke
  <2>. QED BY <2>1, Zenon DEF TypeOK, Accepts
<1>. QED BY <1>1, <1>2, Zenon

LEMMA RemovePathIInv ==
  ASSUME IInv, NEW e \in End, NEW s \in Slot, RemovePath(e, s)
  PROVE  IInv'
<1>1. /\ s \in ActiveSlots(e) /\ ActiveSlots(e) # {s}
      /\ path' = [path EXCEPT ![e][s] = "Removed"]
      /\ Revoke(e)
      /\ UNCHANGED <<live, issuer, owner, next, counter, sealed, net, window, dedup,
                     now, setup, deliveries, accepted>>
      /\ IF e = "S"
         THEN queue' = [queue EXCEPT ![s] = <<>>] /\ UNCHANGED replay
         ELSE replay' = [replay EXCEPT ![s] = NewWindow] /\ UNCHANGED queue
  BY Zenon DEF RemovePath, admission
<1>2. TypeOK
  BY Zenon DEF IInv
<1>3. queue' \in [Slot -> Seq(PacketType)] /\ \A t \in Slot : queue'[t] \in Seq(sealed)
  <2>1. /\ queue \in [Slot -> Seq(PacketType)] /\ \A t \in Slot : queue[t] \in Seq(sealed)
        /\ <<>> \in Seq(PacketType) /\ <<>> \in Seq(sealed)
    BY <1>2, QueueFacts, Zenon DEF IInv, FromSealed, TypeOK
  <2>2. UNCHANGED queue \/ queue' = [queue EXCEPT ![s] = <<>>]
    BY <1>1, Zenon
  <2>. QED BY <2>1, <2>2, Zenon
<1>4. TypeOK'
  <2>1. path' \in [End -> [Slot -> {"Absent", "Active", "Removed", "Released"}]]
    BY <1>1, <1>2, Zenon DEF TypeOK
  <2>2. replay' \in [Slot -> WindowType]
    <3>1. NewWindow \in WindowType /\ replay \in [Slot -> WindowType]
      BY <1>2, ReplayAssumption DEF NewWindow, WindowType, TypeOK
    <3>2. UNCHANGED replay \/ replay' = [replay EXCEPT ![s] = NewWindow]
      BY <1>1, Zenon
    <3>. QED BY <3>1, <3>2, Zenon
  <2>. QED BY <1>1, <1>2, <1>3, <2>1, <2>2, RevokeKeeps, Zenon DEF TypeOK, Setup
<1>5. PathLeft'
  <2>1. PICK t \in Slot : t # s /\ path[e][t] = "Active"
    BY <1>1, Zenon DEF ActiveSlots
  <2>2. path'[e][t] = "Active" /\ \A f \in End : f # e => path'[f] = path[f]
    BY <1>1, <1>2, <2>1, Zenon DEF TypeOK
  <2>. QED BY <1>1, <2>1, <2>2 DEF IInv, PathLeft
<1>6. CountersUsed' /\ IdsUsed'
  BY <1>1, SenderFrame, Zenon
<1>7. FromSealed'
  <2>1. net' \subseteq sealed'
    BY <1>1, Zenon DEF IInv, FromSealed
  <2>. QED BY <1>1, <1>2, <1>3, <2>1, PacketFrame, RevokeKeeps, Zenon
<1>8. AcceptedRemembered' /\ DeliveredAccepted'
  BY <1>1, ReceiverFrame, Zenon
<1>9. DecisionCurrent'
  BY <1>1, <1>2, DecisionFrame, RevokeKeeps, Zenon DEF Accepts
<1>. QED BY <1>4, <1>5, <1>6, <1>7, <1>8, <1>9, Zenon DEF IInv

LEMMA RemoveUnusedPathIInv ==
  ASSUME IInv, NEW e \in End, NEW s \in Slot, RemoveUnusedPath(e, s)
  PROVE  IInv'
<1>1. /\ Revoke(e)
      /\ UNCHANGED <<live, path, issuer, owner, next, counter, queue, sealed, net,
                     replay, window, dedup, now, setup, deliveries, accepted>>
  BY Zenon DEF RemoveUnusedPath, admission, sending
<1>2. TypeOK
  BY Zenon DEF IInv
<1>3. TypeOK'
  BY <1>1, <1>2, RevokeKeeps, Zenon DEF TypeOK, Setup
<1>4. PathLeft'
  BY <1>1, Zenon DEF IInv, PathLeft
<1>5. CountersUsed' /\ IdsUsed'
  BY <1>1, SenderFrame, Zenon
<1>6. FromSealed'
  <2>1. net' \subseteq sealed' /\ \A t \in Slot : queue'[t] \in Seq(sealed')
    BY <1>1, Zenon DEF IInv, FromSealed
  <2>. QED BY <1>1, <1>2, <2>1, PacketFrame, RevokeKeeps, Zenon
<1>7. AcceptedRemembered' /\ DeliveredAccepted'
  BY <1>1, ReceiverFrame, Zenon
<1>8. DecisionCurrent'
  BY <1>1, <1>2, DecisionFrame, RevokeKeeps, Zenon DEF Accepts
<1>. QED BY <1>3, <1>4, <1>5, <1>6, <1>7, <1>8, Zenon DEF IInv

\* Owners and admissions change hands without touching anything else.
LEMMA AdmissionIInv ==
  ASSUME IInv, NEW e \in End, IssueOwner(e) \/ MintAdmission(e) \/ DropOwner(e)
  PROVE  IInv'
<1>1. /\ UNCHANGED <<live, path, next, counter, queue, sealed, net, replay, window,
                     dedup, lease, preview, deliveries, accepted, now, setup>>
      /\ issuer' \in {issuer, [issuer EXCEPT ![e] = TRUE]}
      /\ \E w \in {"None", "Manager", "Admission"} : owner' = [owner EXCEPT ![e] = w]
  BY Zenon DEF IssueOwner, MintAdmission, DropOwner, sending, receiving
<1>2. TypeOK'
  <2>1. issuer' \in [End -> BOOLEAN] /\ owner' \in [End -> {"None", "Manager", "Admission"}]
    BY <1>1, Zenon DEF IInv, TypeOK
  <2>. QED BY <1>1, <2>1, Zenon DEF IInv, TypeOK, Setup
<1>3. PathLeft' /\ FromSealed'
  BY <1>1, Zenon DEF IInv, PathLeft, FromSealed
<1>4. CountersUsed' /\ IdsUsed'
  BY <1>1, SenderFrame, Zenon
<1>5. AcceptedRemembered' /\ DeliveredAccepted'
  BY <1>1, ReceiverFrame, Zenon
<1>6. DecisionCurrent'
  BY <1>1, DecisionFrame, Zenon DEF Accepts
<1>. QED BY <1>2, <1>3, <1>4, <1>5, <1>6, Zenon DEF IInv

LEMMA ActivateIInv ==
  ASSUME IInv, NEW e \in End, Activate(e)
  PROVE  IInv'
<1>1. /\ UNCHANGED <<live, next, counter, queue, sealed, net, replay, window, dedup,
                     preview, now, setup, deliveries, accepted>>
      /\ owner' = [owner EXCEPT ![e] = "None"]
      /\ issuer' \in {issuer, [issuer EXCEPT ![e] = FALSE]}
      /\ path' \in {path, [path EXCEPT ![e][1] = "Active"]}
      /\ lease' \in {lease, None}
  BY Zenon DEF Activate, sending
<1>2. TypeOK'
  <2>1. /\ issuer' \in [End -> BOOLEAN]
        /\ owner' \in [End -> {"None", "Manager", "Admission"}]
    BY <1>1, Zenon DEF IInv, TypeOK
  <2>2. path' \in [End -> [Slot -> {"Absent", "Active", "Removed", "Released"}]]
    <3>. DEFINE Kind == {"Absent", "Active", "Removed", "Released"}
    <3>1. path \in [End -> [Slot -> Kind]] /\ 1 \in Slot /\ "Active" \in Kind
      BY Zenon DEF IInv, TypeOK, Slot
    <3>. HIDE DEF Kind
    <3>2. path' \in [End -> [Slot -> Kind]]
      BY <1>1, <3>1
    <3>. QED BY <3>2, Zenon DEF Kind
  <2>3. lease' \in Holder \cup {None}
    BY <1>1, Zenon DEF IInv, TypeOK
  <2>. QED BY <1>1, <2>1, <2>2, <2>3, Zenon DEF IInv, TypeOK, Setup
<1>3. PathLeft'
  <2>1. \A f \in End, s \in Slot : path[f][s] = "Active" => path'[f][s] = "Active"
    BY <1>1 DEF IInv, TypeOK, Slot
  <2>. QED BY <1>1, <2>1, Zenon DEF IInv, PathLeft
<1>4. FromSealed'
  BY <1>1, Zenon DEF IInv, FromSealed
<1>5. CountersUsed' /\ IdsUsed'
  BY <1>1, SenderFrame, Zenon
<1>6. AcceptedRemembered' /\ DeliveredAccepted'
  BY <1>1, ReceiverFrame, Zenon
<1>7. DecisionCurrent'
  <2>1. \A h \in Holder : Accepts(h)' => Accepts(h)
    BY <1>1, RedundantAssumption, Zenon DEF Accepts, None
  <2>. QED BY <1>1, <2>1, DecisionFrame, Zenon
<1>. QED BY <1>2, <1>3, <1>4, <1>5, <1>6, <1>7, Zenon DEF IInv

-----------------------------------------------------------------------------
(* Sending *)

\* What outbound seals is new: its id and its counters are above all used ones.
LEMMA OutboundIInv ==
  ASSUME IInv, Outbound
  PROVE  /\ IInv'
         /\ next \in Id /\ next \notin {p.id : p \in sealed}
         /\ {p.id : p \in sealed'} = {p.id : p \in sealed} \cup {next}
<1>1. PICK other \in {next, OtherBytes} :
        /\ queue' = [s \in Slot |->
             IF s \in ActiveSlots("S")
             THEN Append(queue[s], Copy(s, IF s = 1 THEN other ELSE next)) ELSE queue[s]]
        /\ sealed' = sealed \cup {Copy(s, IF s = 1 THEN other ELSE next) :
                                    s \in ActiveSlots("S")}
  BY DEF Outbound
<1>. DEFINE new(s) == Copy(s, IF s = 1 THEN other ELSE next)
<1>2. /\ live["S"] /\ next # U64_MAX
      /\ \A s \in ActiveSlots("S") : CanReserve(counter[s])
      /\ counter' = [s \in Slot |-> IF s \in ActiveSlots("S")
                                    THEN counter[s] + 1 ELSE counter[s]]
      /\ next' = next + 1
      /\ UNCHANGED <<live, path, issuer, owner, net, replay, window, dedup, lease,
                     preview, deliveries, accepted, now, setup>>
  BY Zenon DEF Outbound, admission, receiving
<1>3. next \in Id /\ other \in Bytes /\ next \in Bytes
  BY <1>2, Numbers DEF IInv, TypeOK, Id, Bytes
<1>4. ActiveSlots("S") # {} /\ ActiveSlots("S") \subseteq Slot
  BY <1>2, Zenon DEF IInv, PathLeft, ActiveSlots, End
<1>5. ASSUME NEW s \in ActiveSlots("S")
      PROVE  /\ new(s) \in PacketType
             /\ new(s).id = next /\ new(s).slot = s /\ new(s).counter = counter[s]
             /\ counter[s] \in Counter
  <2>1. s \in Slot
    BY <1>4, Zenon
  <2>2. counter[s] \in Counter
    BY <2>1, <1>2, Numbers DEF IInv, TypeOK, CanReserve, Counter
  <2>. QED BY <2>1, <2>2, <1>3, Zenon DEF Copy, PacketType
<1>6. sealed' = sealed \cup {new(s) : s \in ActiveSlots("S")}
  BY <1>1, Zenon
<1>7. queue' = [s \in Slot |-> IF s \in ActiveSlots("S")
                               THEN Append(queue[s], new(s)) ELSE queue[s]]
  BY <1>1, Zenon
<1>. HIDE DEF new
<1>8. sealed' \subseteq PacketType /\ sealed \subseteq sealed'
  BY <1>5, <1>6 DEF IInv, TypeOK
<1>9. ASSUME NEW s \in Slot
      PROVE  queue'[s] \in Seq(PacketType) /\ queue'[s] \in Seq(sealed')
  <2>1. queue[s] \in Seq(PacketType) /\ queue[s] \in Seq(sealed')
    BY <1>8, QueueFacts, Zenon DEF IInv, TypeOK, FromSealed
  <2>2. CASE s \in ActiveSlots("S")
    <3>1. new(s) \in PacketType /\ new(s) \in sealed' /\ queue'[s] = Append(queue[s], new(s))
      BY <2>2, <1>5, <1>6, <1>7, Zenon
    <3>. QED BY <2>1, <3>1, QueueFacts, Zenon
  <2>3. CASE s \notin ActiveSlots("S")
    BY <2>1, <2>3, <1>7, Zenon
  <2>. QED BY <2>2, <2>3, Zenon
<1>10. TypeOK'
  <2>1. counter' \in [Slot -> 1 .. U64_MAX]
    BY <1>2, <1>5, Numbers DEF IInv, TypeOK, Counter
  <2>2. next' \in 1 .. U64_MAX
    BY <1>2, <1>3, Numbers
  <2>3. queue' \in [Slot -> Seq(PacketType)]
    BY <1>7, <1>9, Zenon
  <2>4. net' \subseteq PacketType
    BY <1>2, Zenon DEF IInv, TypeOK
  <2>. QED BY <1>2, <1>8, <2>1, <2>2, <2>3, <2>4, ZenonT(40) DEF IInv, TypeOK, Setup
<1>11. PathLeft'
  BY <1>2, Zenon DEF IInv, PathLeft
<1>12. CountersUsed'
  <2>. SUFFICES ASSUME NEW s \in Slot
                PROVE  /\ \A p \in SealedOn(s)' : p.counter < counter'[s]
                       /\ \A c \in 1 .. counter'[s] - 1 :
                            \E p \in SealedOn(s)' : p.counter = c
                       /\ \A p, q \in SealedOn(s)' : p.counter = q.counter => p = q
    BY Zenon DEF CountersUsed
  <2>1. /\ \A p \in SealedOn(s) : p.counter < counter[s]
        /\ \A c \in 1 .. counter[s] - 1 : \E p \in SealedOn(s) : p.counter = c
        /\ \A p, q \in SealedOn(s) : p.counter = q.counter => p = q
    BY Zenon DEF IInv, CountersUsed
  <2>2. counter[s] \in Nat /\ \A p \in SealedOn(s) : p.counter \in Nat
    <3>1. counter[s] \in 1 .. U64_MAX /\ sealed \subseteq PacketType
      BY Zenon DEF IInv, TypeOK
    <3>2. \A p \in SealedOn(s) : p.counter \in Counter
      BY <3>1, Zenon DEF SealedOn, PacketType
    <3>. QED BY <3>1, <3>2, Numbers DEF Counter
  <2>3. CASE s \in ActiveSlots("S")
    <3>1. SealedOn(s)' = SealedOn(s) \cup {new(s)}
      BY <2>3, <1>5, <1>6, Zenon DEF SealedOn
    <3>2. counter'[s] = counter[s] + 1 /\ new(s).counter = counter[s]
      BY <2>3, <1>2, <1>5, Zenon
    <3>3. \A p \in SealedOn(s)' : p.counter < counter'[s]
      BY <2>1, <2>2, <3>1, <3>2
    <3>4. \A c \in 1 .. counter'[s] - 1 : c \in 1 .. counter[s] - 1 \/ c = counter[s]
      BY <2>2, <3>2
    <3>5. \A p \in SealedOn(s) : p.counter # counter[s]
      BY <2>1, <2>2
    <3>. QED BY <2>1, <3>1, <3>2, <3>3, <3>4, <3>5, Zenon
  <2>4. CASE s \notin ActiveSlots("S")
    <3>1. SealedOn(s)' = SealedOn(s)
      BY <2>4, <1>5, <1>6 DEF SealedOn
    <3>. QED BY <2>1, <2>4, <3>1, <1>2
  <2>. QED BY <2>3, <2>4, Zenon
<1>13. {p.id : p \in sealed'} = {p.id : p \in sealed} \cup {next}
  <2>1. \A s \in ActiveSlots("S") : new(s).id = next
    BY <1>5, Zenon
  <2>. QED BY <2>1, <1>4, <1>6, Zenon
<1>14. Setup.seed \in Nat /\ next >= Setup.seed /\ {p.id : p \in sealed} = Setup.seed .. next - 1
  <2>1. Setup.seed \in 1 .. U64_MAX - 1
    BY RedundantAssumption, Zenon DEF IInv, TypeOK, Setup
  <2>. QED BY <2>1, <1>2, Numbers DEF IInv, IdsUsed
<1>15. IdsUsed'
  <2>1. (Setup.seed .. next - 1) \cup {next} = Setup.seed .. next
    BY <1>3, <1>14, Numbers, SMTT(30)
  <2>2. next \in Nat /\ next' = next + 1
    BY <1>2, <1>3, Numbers, Zenon
  <2>3. Setup.seed \in Nat /\ next >= Setup.seed
    BY <1>14, Zenon
  <2>4. next' >= Setup.seed /\ next' - 1 = next
    BY <2>2, <2>3
  <2>. QED BY <2>1, <2>4, <1>2, <1>13, <1>14, Zenon DEF IdsUsed, Setup
<1>16. FromSealed'
  <2>1. net \subseteq net' /\ net' \subseteq sealed'
    BY <1>2, <1>8, Zenon DEF IInv, FromSealed
  <2>. QED BY <1>2, <1>8, <1>9, <2>1, PacketFrame, Zenon
<1>17. AcceptedRemembered' /\ DeliveredAccepted'
  BY <1>2, ReceiverFrame, Zenon
<1>18. DecisionCurrent'
  BY <1>2, DecisionFrame, Zenon DEF Accepts
<1>19. next \notin {p.id : p \in sealed}
  BY <1>3, <1>14, Numbers
<1>. QED BY <1>3, <1>10, <1>11, <1>12, <1>13, <1>15, <1>16, <1>17, <1>18, <1>19, Zenon DEF IInv

\* The front of a queue goes on the wire, and then leaves the queue.
LEMMA TransmitIInv ==
  ASSUME IInv, NEW s \in Slot, Transmit(s) \/ ConfirmSent(s)
  PROVE  IInv'
<1>1. /\ queue[s] # <<>> /\ queue[s] \in Seq(PacketType) /\ queue[s] \in Seq(sealed)
      /\ queue \in [Slot -> Seq(PacketType)] /\ net \subseteq sealed
      /\ sealed \subseteq PacketType
  BY Zenon DEF Transmit, ConfirmSent, IInv, TypeOK, FromSealed
<1>2. /\ Head(queue[s]) \in sealed
      /\ Tail(queue[s]) \in Seq(PacketType) /\ Tail(queue[s]) \in Seq(sealed)
  BY <1>1, QueueFacts, Zenon
<1>3. /\ UNCHANGED <<live, path, issuer, owner, next, counter, sealed, replay, window,
                     dedup, lease, preview, deliveries, accepted, now, setup>>
      /\ net' \in {net, net \cup {Head(queue[s])}}
      /\ queue' \in {queue, [queue EXCEPT ![s] = Tail(queue[s])]}
  BY Zenon DEF Transmit, ConfirmSent, admission, sending, receiving
<1>4. /\ net \subseteq net' /\ net' \subseteq sealed
      /\ queue' \in [Slot -> Seq(PacketType)] /\ \A t \in Slot : queue'[t] \in Seq(sealed)
  BY <1>1, <1>2, <1>3, Zenon DEF IInv, FromSealed
<1>5. TypeOK'
  <2>1. net' \subseteq PacketType
    BY <1>1, <1>4, Zenon
  <2>. QED BY <1>3, <1>4, <2>1, Zenon DEF IInv, TypeOK, Setup
<1>6. PathLeft'
  BY <1>3, Zenon DEF IInv, PathLeft
<1>7. CountersUsed' /\ IdsUsed'
  BY <1>3, SenderFrame, Zenon
<1>8. FromSealed'
  BY <1>3, <1>4, PacketFrame, Zenon
<1>9. AcceptedRemembered' /\ DeliveredAccepted'
  BY <1>3, ReceiverFrame, Zenon
<1>10. DecisionCurrent'
  BY <1>3, DecisionFrame, Zenon DEF Accepts
<1>. QED BY <1>5, <1>6, <1>7, <1>8, <1>9, <1>10, Zenon DEF IInv

-----------------------------------------------------------------------------
(* Receiving *)

\* A preview decides with the window as it is.
LEMMA PreviewIInv ==
  ASSUME IInv, NEW h \in Holder, NEW p \in net, PreviewInbound(h, p)
  PROVE  IInv'
<1>. DEFINE v == [packet |-> p, token |-> Token(replay[p.slot], p.counter),
                  decision |-> IF Known(p) THEN "Equal" ELSE "New",
                  at |-> now, mobility |-> FALSE, active |-> TRUE]
<1>1. /\ UNCHANGED <<live, path, issuer, owner, next, counter, queue, sealed, net,
                     replay, window, dedup, now, setup, deliveries, accepted>>
      /\ lease' = h /\ preview' = [preview EXCEPT ![h] = v]
      /\ ~TooOld(window, p.id)
  BY Zenon DEF PreviewInbound, CanPreview, admission, sending
<1>2. p \in PacketType /\ preview \in [Holder -> PreviewType \cup {None}]
  BY Zenon DEF IInv, TypeOK
<1>3. v \in PreviewType
  <2>1. p.slot \in Slot /\ p.counter \in Counter
    BY <1>2, Zenon DEF PacketType
  <2>2. replay[p.slot] \in WindowType
    BY <2>1, Zenon DEF IInv, TypeOK
  <2>3. Token(replay[p.slot], p.counter) \in [counter : Counter, generation : 0 .. U64_MAX]
    BY <2>1, <2>2, Zenon DEF Token, WindowType
  <2>4. now \in Nat
    <3>1. Setup.time \in Nat /\ now \in 0 .. Setup.time
      BY RedundantAssumption, Zenon DEF IInv, TypeOK, Setup
    <3>. QED BY <3>1
  <2>. QED BY <1>2, <2>3, <2>4, Zenon DEF PreviewType
<1>4. v.packet = p /\ v.decision = IF Known(p) THEN "Equal" ELSE "New"
  OBVIOUS
<1>. HIDE DEF v
<1>5. preview' \in [Holder -> PreviewType \cup {None}]
  BY <1>1, <1>2, <1>3, Zenon
<1>6. TypeOK'
  BY <1>1, <1>5, Zenon DEF IInv, TypeOK, Setup
<1>7. PathLeft'
  BY <1>1, Zenon DEF IInv, PathLeft
<1>8. CountersUsed' /\ IdsUsed'
  BY <1>1, SenderFrame, Zenon
<1>9. FromSealed'
  BY <1>1, <1>2, <1>4, Zenon DEF IInv, FromSealed
<1>10. AcceptedRemembered' /\ DeliveredAccepted'
  BY <1>1, ReceiverFrame, Zenon
<1>11. DecisionCurrent'
  <2>1. \A g \in Holder : Accepts(g)' => g = h
    BY <1>1, Zenon DEF Accepts
  <2>2. preview'[h] = v
    BY <1>1, <1>2, Zenon
  <2>3. v.decision = "New" <=> ~Known(p)
    BY <1>4, Zenon
  <2>4. Known(p)' = Known(p) /\ TooOld(window, p.id)' = TooOld(window, p.id)
    BY <1>1, Zenon DEF Known
  <2>. QED BY <1>1, <1>4, <2>1, <2>2, <2>3, <2>4, Zenon DEF DecisionCurrent, Known
<1>. QED BY <1>6, <1>7, <1>8, <1>9, <1>10, <1>11, Zenon DEF IInv

\* A step that only changes the lease, the previews, the plaintext cache and the
\* clock, so that no preview becomes acceptable and none changes its packet
OnlyPreviews ==
  /\ UNCHANGED <<live, path, issuer, owner, next, counter, queue, sealed, net,
                 replay, window, setup, deliveries, accepted>>
  /\ DOMAIN dedup' \subseteq Id
  /\ lease' \in {lease, None}
  /\ now' \in 0 .. Setup.time
  /\ preview' \in [Holder -> PreviewType \cup {None}]
  /\ \A h \in Holder : preview'[h] # None =>
       /\ preview[h] # None
       /\ preview'[h].packet = preview[h].packet
       /\ preview'[h].decision = preview[h].decision
       /\ preview'[h].active = preview[h].active

LEMMA PreviewFrame ==
  ASSUME IInv, OnlyPreviews
  PROVE  IInv'
<1>1. UNCHANGED <<live, path, next, counter, queue, sealed, net, window, setup,
                  deliveries, accepted>>
  BY Zenon DEF OnlyPreviews
<1>2. TypeOK'
  <2>1. /\ DOMAIN dedup' \subseteq Id
        /\ lease' \in Holder \cup {None}
        /\ now' \in 0 .. Setups[setup'].time
        /\ preview' \in [Holder -> PreviewType \cup {None}]
    BY Zenon DEF IInv, TypeOK, OnlyPreviews, Setup
  <2>2. UNCHANGED <<issuer, owner, replay>>
    BY Zenon DEF OnlyPreviews
  <2>. QED BY <1>1, <2>1, <2>2, Zenon DEF IInv, TypeOK, Setup
<1>3. PathLeft'
  BY <1>1, Zenon DEF IInv, PathLeft
<1>4. CountersUsed' /\ IdsUsed'
  BY <1>1, SenderFrame, Zenon
<1>5. \A h \in Holder : preview'[h] # None =>
        /\ preview[h] # None
        /\ preview'[h].packet = preview[h].packet
        /\ preview'[h].decision = preview[h].decision
        /\ preview'[h].active = preview[h].active
  BY Zenon DEF OnlyPreviews
<1>6. FromSealed'
  BY <1>1, <1>5, Zenon DEF IInv, FromSealed
<1>7. AcceptedRemembered' /\ DeliveredAccepted'
  BY <1>1, ReceiverFrame, Zenon
<1>8. DecisionCurrent'
  <2>1. \A h \in Holder : lease' = h => lease = h
    BY RedundantAssumption, Zenon DEF OnlyPreviews, None
  <2>2. \A h \in Holder : Accepts(h)' => Accepts(h)
    BY <1>5, <2>1, Zenon DEF Accepts
  <2>. QED BY <1>1, <1>5, <2>2, DecisionFrame, Zenon DEF Accepts
<1>. QED BY <1>2, <1>3, <1>4, <1>6, <1>7, <1>8, Zenon DEF IInv

LEMMA PrepareIInv ==
  ASSUME IInv, NEW h \in Holder, PrepareMobility(h)
  PROVE  IInv'
<1>1. /\ UNCHANGED <<live, path, issuer, owner, next, counter, queue, sealed, net,
                     replay, window, dedup, lease, now, setup, deliveries, accepted>>
      /\ preview[h] # None
      /\ preview' = [preview EXCEPT ![h] = [preview[h] EXCEPT !.mobility = TRUE]]
  BY Zenon DEF PrepareMobility, Accepts, admission, sending
<1>2. preview \in [Holder -> PreviewType \cup {None}] /\ preview[h] \in PreviewType
  BY <1>1, Zenon DEF IInv, TypeOK
<1>3. ASSUME NEW v \in PreviewType
      PROVE  LET r == [v EXCEPT !.mobility = TRUE]
             IN  /\ r \in PreviewType
                 /\ r.packet = v.packet /\ r.decision = v.decision /\ r.active = v.active
  BY Zenon DEF PreviewType
<1>4. /\ preview' \in [Holder -> PreviewType \cup {None}]
      /\ \A g \in Holder : preview'[g] # None =>
           /\ preview[g] # None
           /\ preview'[g].packet = preview[g].packet
           /\ preview'[g].decision = preview[g].decision
           /\ preview'[g].active = preview[g].active
  BY <1>1, <1>2, <1>3, Zenon
<1>5. DOMAIN dedup' \subseteq Id /\ now' \in 0 .. Setup.time
  BY <1>1, Zenon DEF IInv, TypeOK
<1>. QED BY <1>1, <1>4, <1>5, PreviewFrame, Zenon DEF OnlyPreviews

LEMMA DropIInv ==
  ASSUME IInv, NEW h \in Holder, DropPreview(h)
  PROVE  IInv'
<1>1. /\ UNCHANGED <<live, path, issuer, owner, next, counter, queue, sealed, net,
                     replay, window, dedup, now, setup, deliveries, accepted>>
      /\ preview' = [preview EXCEPT ![h] = None]
      /\ lease' \in {lease, None}
  BY Zenon DEF DropPreview, admission, sending
<1>2. preview \in [Holder -> PreviewType \cup {None}]
  BY Zenon DEF IInv, TypeOK
<1>3. DOMAIN dedup' \subseteq Id /\ now' \in 0 .. Setup.time
  BY <1>1, Zenon DEF IInv, TypeOK
<1>. QED BY <1>1, <1>2, <1>3, PreviewFrame, Zenon DEF OnlyPreviews

\* tick and the clock
LEMMA TickIInv ==
  ASSUME IInv, ExpireTick \/ Pass
  PROVE  IInv'
<1>1. /\ UNCHANGED <<live, path, issuer, owner, next, counter, queue, sealed, net,
                     replay, window, preview, setup, deliveries, accepted>>
      /\ lease' \in {lease, None}
      /\ dedup' \in {dedup, Expired(dedup, now)}
      /\ UNCHANGED now \/ (now < Setup.time /\ now' = now + 1)
  <2>1. CASE ExpireTick
    BY <2>1, Zenon DEF ExpireTick, admission, sending
  <2>2. CASE Pass
    BY <2>2, Zenon DEF Pass, admission, sending, receiving
  <2>. QED BY <2>1, <2>2, Zenon
<1>2. /\ preview' \in [Holder -> PreviewType \cup {None}]
      /\ DOMAIN dedup \subseteq Id
  BY <1>1, Zenon DEF IInv, TypeOK
<1>3. DOMAIN Expired(dedup, now) \subseteq DOMAIN dedup
  BY Zenon DEF Expired, Restrict
<1>4. now' \in 0 .. Setup.time
  <2>1. now \in 0 .. Setup.time /\ Setup.time \in Nat
    BY RedundantAssumption, Zenon DEF IInv, TypeOK, Setup
  <2>. QED BY <1>1, <2>1
<1>5. DOMAIN dedup' \subseteq Id
  BY <1>1, <1>2, <1>3, Zenon
<1>. QED BY <1>1, <1>2, <1>4, <1>5, PreviewFrame, Zenon DEF OnlyPreviews

\* A commit of the leased preview, of either kind: the packet's counter goes
\* into the replay window, and a new delivery into the identity window.
Commits(h) ==
  /\ live["R"] /\ Accepts(h)
  /\ CanAccept(preview[h]) /\ Accept(preview[h])
  /\ lease' = None
  /\ preview' = [preview EXCEPT ![h] = None]
  /\ deliveries' \in {deliveries, Delivered(preview[h])}
  /\ UNCHANGED <<live, path, issuer, owner, next, counter, queue, sealed, net, now, setup>>

\* What the invariant says of the preview that is committed
LEMMA CommittedPreview ==
  ASSUME IInv, NEW h \in Holder, Commits(h)
  PROVE  LET v == preview[h]
         IN  /\ v \in PreviewType /\ v.packet \in sealed /\ v.packet \in net
             /\ v.packet.id \in Id /\ v.packet.bytes \in Bytes /\ v.packet.slot \in Slot
             /\ v.token.counter \in Counter
             /\ ~TooOld(window, v.packet.id)
             /\ v.decision = "New" <=> ~Seen(window, v.packet.id)
<1>. DEFINE v == preview[h]
<1>1. v # None /\ live["R"] /\ Accepts(h)
  BY Zenon DEF Commits, Accepts
<1>2. v \in PreviewType /\ v.packet \in net /\ v.packet \in sealed
  BY <1>1, Zenon DEF IInv, TypeOK, FromSealed
<1>3. /\ ~TooOld(window, v.packet.id)
      /\ v.decision = "New" <=> ~Seen(window, v.packet.id)
  BY <1>1, Zenon DEF IInv, DecisionCurrent, Known
<1>. HIDE DEF v
<1>4. v.packet \in PacketType /\ v.token.counter \in Counter
  BY <1>2, Zenon DEF PreviewType
<1>5. v.packet.id \in Id /\ v.packet.bytes \in Bytes /\ v.packet.slot \in Slot
  BY <1>4, Zenon DEF PacketType
<1>. QED BY <1>2, <1>3, <1>4, <1>5, Zenon DEF v

\* The window remembers a new delivery, which was not accepted before.
LEMMA CommittedWindow ==
  ASSUME IInv, NEW h \in Holder, Commits(h)
  PROVE  /\ window' \in DeliveredType /\ Remembers(window', accepted')
         /\ accepted' \subseteq [id : Id, bytes : Bytes]
         /\ DOMAIN dedup' \subseteq Id
         /\ preview[h].decision # "New" => UNCHANGED accepted
         /\ preview[h].decision = "New" =>
              /\ accepted' = accepted \cup {[id |-> preview[h].packet.id,
                                             bytes |-> preview[h].packet.bytes]}
              /\ \A a \in accepted : a.id # preview[h].packet.id
<1>. DEFINE v == preview[h]
            id == v.packet.id
            b == v.packet.bytes
            new == [id |-> id, bytes |-> b]
<1>1. /\ v.decision = "New" =>
           /\ window' = Insert(window, id, b)
           /\ dedup' = Cached(Evicted(Expired(dedup, v.at)), id, v.at)
           /\ accepted' = accepted \cup {new}
      /\ v.decision # "New" => dedup' = Expired(dedup, v.at) /\ UNCHANGED <<window, accepted>>
  BY Zenon DEF Commits, Accept
<1>2. /\ id \in Id /\ b \in Bytes /\ ~TooOld(window, id)
      /\ v.decision = "New" <=> ~Seen(window, id)
  BY CommittedPreview, Zenon
<1>3. /\ window \in DeliveredType /\ accepted \subseteq [id : Id, bytes : Bytes]
      /\ DOMAIN dedup \subseteq Id /\ Remembers(window, accepted)
  BY Zenon DEF IInv, TypeOK, DeliveredType, DeliveredIn, AcceptedRemembered, Commits
<1>. HIDE DEF v, id, b
<1>4. window \in DeliveredIn(Nat, Nat) /\ accepted \in SUBSET Delivery
  BY <1>3, Numbers DEF DeliveredType, DeliveredIn, Delivery
<1>5. id \in Positive /\ b \in Positive /\ id \in 0 .. U64_MAX - 1 /\ b \in 0 .. U64_MAX
  BY <1>2, Numbers
<1>6. CASE v.decision = "New"
  <2>1. /\ Remembers(window', accepted')
        /\ \A a \in accepted : a.id # id
    BY <1>1, <1>2, <1>3, <1>4, <1>5, <1>6, InsertRemembers
  <2>2. window' \in DeliveredType
    <3>1. 0 .. U64_MAX - 1 \in SUBSET Nat /\ NoPrint \in 0 .. U64_MAX
      BY Numbers
    <3>2. window \in DeliveredIn(0 .. U64_MAX - 1, 0 .. U64_MAX)
      BY <1>3, Zenon DEF DeliveredType
    <3>3. Insert(window, id, b) \in DeliveredIn(0 .. U64_MAX - 1, 0 .. U64_MAX)
      BY <1>5, <3>1, <3>2, InsertType, Zenon
    <3>. QED BY <1>1, <1>6, <3>3, Zenon DEF DeliveredType
  <2>3. DOMAIN dedup' \subseteq Id
    <3>1. \A f, t : DOMAIN Expired(f, t) \subseteq DOMAIN f
      BY Zenon DEF Expired, Restrict
    <3>2. \A f : DOMAIN Evicted(f) \subseteq DOMAIN f
      BY Zenon DEF Evicted, Restrict
    <3>3. \A f, t : DOMAIN Cached(f, id, t) = DOMAIN f \cup {id}
      BY Zenon DEF Cached
    <3>4. DOMAIN dedup' = DOMAIN Evicted(Expired(dedup, v.at)) \cup {id}
      BY <1>1, <1>6, <3>3, Zenon
    <3>. QED BY <1>2, <1>3, <3>1, <3>2, <3>4, Zenon
  <2>4. accepted' \subseteq [id : Id, bytes : Bytes]
    BY <1>1, <1>2, <1>3, <1>6
  <2>. QED BY <1>1, <1>6, <2>1, <2>2, <2>3, <2>4, Zenon DEF v, id, b
<1>7. CASE v.decision # "New"
  <2>1. DOMAIN dedup' \subseteq Id
    BY <1>1, <1>3, <1>7, Zenon DEF Expired, Restrict
  <2>. QED BY <1>1, <1>3, <1>7, <2>1, Zenon DEF v
<1>. QED BY <1>6, <1>7, Zenon

\* A new delivery did not reach the application before, and now does at most once.
LEMMA CommittedDelivery ==
  ASSUME IInv, NEW h \in Holder, Commits(h)
  PROVE  /\ DeliveredAccepted' /\ deliveries' \in [Id -> Nat]
         /\ preview[h].decision = "New" => deliveries[preview[h].packet.id] = 0
<1>. DEFINE v == preview[h]
            id == v.packet.id
            new == [id |-> id, bytes |-> v.packet.bytes]
<1>1. /\ deliveries \in [Id -> Nat]
      /\ \A i \in Id : deliveries[i] \in {0, 1}
      /\ \A i \in Id : deliveries[i] = 1 => \E a \in accepted : a.id = i
  BY Zenon DEF IInv, TypeOK, DeliveredAccepted
<1>2. /\ id \in Id
      /\ v.decision = "New" => /\ accepted' = accepted \cup {new}
                               /\ \A a \in accepted : a.id # id
      /\ v.decision # "New" => UNCHANGED accepted
  BY CommittedPreview, CommittedWindow, Zenon
<1>3. /\ deliveries' \in {deliveries, Delivered(v)}
      /\ Delivered(v) = IF v.decision = "New"
                        THEN [deliveries EXCEPT ![id] = deliveries[id] + 1] ELSE deliveries
  BY Zenon DEF Commits, Delivered
<1>4. new.id = id
  OBVIOUS
<1>. HIDE DEF v, id, new
<1>5. v.decision = "New" => deliveries[id] = 0
  BY <1>1, <1>2, Zenon
<1>6. v.decision = "New" => deliveries[id] + 1 = 1
  BY <1>5
<1>7. \/ UNCHANGED deliveries
      \/ v.decision = "New" /\ deliveries' = [deliveries EXCEPT ![id] = 1]
  BY <1>3, <1>6, Zenon
<1>8. CASE UNCHANGED deliveries
  <2>1. accepted \subseteq accepted'
    BY <1>2, Zenon
  <2>. QED BY <1>1, <1>5, <1>8, <2>1, Zenon DEF DeliveredAccepted, v, id
<1>9. CASE v.decision = "New" /\ deliveries' = [deliveries EXCEPT ![id] = 1]
  <2>1. /\ deliveries' \in [Id -> Nat] /\ deliveries'[id] = 1
        /\ \A i \in Id : i # id => deliveries'[i] = deliveries[i]
    BY <1>1, <1>2, <1>9, Zenon
  <2>2. new \in accepted' /\ accepted \subseteq accepted'
    BY <1>2, <1>9, Zenon
  <2>3. DeliveredAccepted'
    BY <1>1, <1>4, <2>1, <2>2, Zenon DEF DeliveredAccepted
  <2>. QED BY <1>5, <2>1, <2>3, Zenon DEF v, id
<1>. QED BY <1>7, <1>8, <1>9, Zenon

\* A committed counter leaves a replay window of the type.
LEMMA CommittedType ==
  ASSUME NEW w \in WindowType, NEW t, t.counter \in Counter, CanCommit(w, t)
  PROVE  Committed(w, t) \in WindowType
<1>. DEFINE c == t.counter
<1>1. /\ w.largest \in 0 .. U64_MAX - 1 /\ w.bits \subseteq 0 .. REPLAY_WINDOW - 1
      /\ w.generation \in 0 .. U64_MAX /\ w.generation < U64_MAX
      /\ c \in 1 .. U64_MAX - 1 /\ Check(w, c)
  BY SMTT(30) DEF WindowType, CanCommit, Counter
<1>2. w.generation + 1 \in 0 .. U64_MAX
  BY <1>1, ReplayAssumption
<1>. HIDE DEF c
<1>3. Mark(w, c) \in WindowType
  <2>1. CASE c > w.largest
    <3>1. ShiftLeft(w.bits, c - w.largest) \cup {0} \subseteq 0 .. REPLAY_WINDOW - 1
      BY ReplayAssumption DEF ShiftLeft
    <3>. QED BY <1>1, <2>1, <3>1 DEF Mark, WindowType
  <2>2. CASE ~(c > w.largest)
    <3>1. w.largest - c \in 0 .. REPLAY_WINDOW - 1
      BY <1>1, <2>2, ReplayAssumption DEF Check, SaturatingAdd
    <3>. QED BY <1>1, <2>2, <3>1, SMTT(30) DEF Mark, WindowType
  <2>. QED BY <2>1, <2>2
<1>4. Committed(w, t) = [Mark(w, c) EXCEPT !.generation = w.generation + 1]
  BY Zenon DEF Committed, c
<1>. QED BY <1>2, <1>3, <1>4, Zenon DEF WindowType

LEMMA CommittedReplay ==
  ASSUME IInv, NEW h \in Holder, Commits(h)
  PROVE  replay' \in [Slot -> WindowType]
<1>. DEFINE v == preview[h]
            s == v.packet.slot
            w == replay[s]
<1>1. /\ replay' = [replay EXCEPT ![s] = Committed(w, v.token)]
      /\ CanCommit(w, v.token)
  BY Zenon DEF Commits, Accept, CanAccept
<1>2. s \in Slot /\ v.token.counter \in Counter /\ replay \in [Slot -> WindowType]
  BY CommittedPreview, Zenon DEF IInv, TypeOK
<1>. HIDE DEF v, s
<1>3. Committed(w, v.token) \in WindowType
  BY <1>1, <1>2, CommittedType, Zenon
<1>. QED BY <1>1, <1>2, <1>3, Zenon

LEMMA CommitsIInv ==
  ASSUME IInv, NEW h \in Holder, Commits(h)
  PROVE  IInv'
<1>1. UNCHANGED <<live, path, next, counter, queue, sealed, net, setup>>
  BY Zenon DEF Commits
<1>2. preview' = [preview EXCEPT ![h] = None]
  BY Zenon DEF Commits
<1>3. /\ preview' \in [Holder -> PreviewType \cup {None}]
      /\ \A g \in Holder : preview'[g] # None => preview'[g] = preview[g]
  BY <1>2, Zenon DEF IInv, TypeOK
<1>4. TypeOK'
  <2>1. /\ window' \in [high : 0 .. U64_MAX - 1,
                        prints : [0 .. DELIVERED_WINDOW_IDS - 1 -> 0 .. U64_MAX]]
        /\ accepted' \subseteq [id : Id, bytes : Bytes] /\ DOMAIN dedup' \subseteq Id
    BY CommittedWindow, Zenon DEF DeliveredType, DeliveredIn
  <2>2. deliveries' \in [Id -> Nat] /\ replay' \in [Slot -> WindowType]
    BY CommittedDelivery, CommittedReplay, Zenon
  <2>3. UNCHANGED <<issuer, owner, now>> /\ lease' \in Holder \cup {None}
    BY Zenon DEF Commits
  <2>. QED BY <1>1, <1>3, <2>1, <2>2, <2>3, Zenon DEF IInv, TypeOK, Setup
<1>5. PathLeft'
  BY <1>1, Zenon DEF IInv, PathLeft
<1>6. CountersUsed' /\ IdsUsed'
  BY <1>1, SenderFrame, Zenon
<1>7. FromSealed'
  <2>1. ASSUME NEW a \in accepted'
        PROVE  \E p \in sealed : p.id = a.id /\ p.bytes = a.bytes
    <3>1. CASE a \in accepted
      BY <3>1, Zenon DEF IInv, FromSealed
    <3>2. CASE a \notin accepted
      <4>. DEFINE p == preview[h].packet
                  new == [id |-> p.id, bytes |-> p.bytes]
      <4>1. accepted' = accepted \/ accepted' = accepted \cup {new}
        BY CommittedWindow, Zenon
      <4>2. a = new
        BY <2>1, <3>2, <4>1, Zenon
      <4>3. new.id = p.id /\ new.bytes = p.bytes
        BY Zenon
      <4>4. p \in sealed
        BY CommittedPreview, Zenon
      <4>. QED BY <4>2, <4>3, <4>4, Zenon
    <3>. QED BY <3>1, <3>2, Zenon
  <2>. QED BY <1>1, <1>3, <2>1, Zenon DEF IInv, FromSealed
<1>8. AcceptedRemembered' /\ DeliveredAccepted'
  BY CommittedWindow, CommittedDelivery, Zenon DEF AcceptedRemembered
<1>9. DecisionCurrent'
  <2>1. \A g \in Holder : lease' # g
    BY RedundantAssumption, Zenon DEF Commits, None
  <2>. QED BY <2>1, Zenon DEF DecisionCurrent, Accepts
<1>. QED BY <1>4, <1>5, <1>6, <1>7, <1>8, <1>9, Zenon DEF IInv

LEMMA InboundCommits ==
  ASSUME NEW h \in Holder, CommitInbound(h)
  PROVE  Commits(h)
BY Zenon DEF CommitInbound, Commits, admission, sending

LEMMA CommitIInv ==
  ASSUME IInv, NEW h \in Holder, CommitInbound(h) \/ CommitMobility(h)
  PROVE  IInv'
<1>1. CommitMobility(h) => Commits(h)
  BY Zenon DEF CommitMobility, Commits, admission, sending
<1>. QED BY <1>1, InboundCommits, CommitsIInv, Zenon

-----------------------------------------------------------------------------
(* Every step *)

LEMMA StutterIInv ==
  ASSUME IInv, UNCHANGED vars
  PROVE  IInv'
<1>1. UNCHANGED <<live, path, issuer, owner, next, counter, queue, sealed, net, replay,
                  window, dedup, lease, preview, now, setup, deliveries, accepted>>
  BY Zenon DEF vars, admission, sending, receiving
<1>2. /\ DOMAIN dedup' \subseteq Id /\ now' \in 0 .. Setup.time
      /\ preview' \in [Holder -> PreviewType \cup {None}]
  BY <1>1, Zenon DEF IInv, TypeOK
<1>. QED BY <1>1, <1>2, PreviewFrame, Zenon DEF OnlyPreviews

LEMMA NextIInv == IInv /\ [Next]_vars => IInv'
<1>. SUFFICES ASSUME IInv, [Next]_vars PROVE IInv'
  OBVIOUS
<1>1. ASSUME NEW e \in End, Release(e), UNCHANGED <<owner, net, now, setup>>
      PROVE  IInv'
  BY <1>1, ReleaseSender, ReleaseReceiver, Zenon DEF End
<1>2. ASSUME NEW e \in End, Close(e) PROVE IInv'
  BY <1>1, <1>2, Zenon DEF Close
<1>3. ASSUME NEW e \in End, NEW s \in Slot,
             RemovePath(e, s) \/ RemoveLastPath(e, s) \/ RemoveUnusedPath(e, s)
      PROVE  IInv'
  <2>1. CASE RemoveLastPath(e, s)
    BY <1>1, <2>1, Zenon DEF RemoveLastPath
  <2>. QED BY <1>3, <2>1, RemovePathIInv, RemoveUnusedPathIInv, Zenon
<1>4. ASSUME NEW e \in End,
             IssueOwner(e) \/ MintAdmission(e) \/ DropOwner(e) \/ Activate(e)
      PROVE  IInv'
  BY <1>4, AdmissionIInv, ActivateIInv, Zenon
<1>5. ASSUME OutboundExhausted PROVE IInv'
  BY <1>5, <1>1, Zenon DEF OutboundExhausted, End
<1>6. ASSUME NEW p \in net, Diverge(p) PROVE IInv'
  BY <1>6, <1>1, Zenon DEF Diverge, End
<1>7. ASSUME NEW h \in Holder,
             \/ \E p \in net : PreviewInbound(h, p)
             \/ PrepareMobility(h) \/ CommitInbound(h) \/ CommitMobility(h)
             \/ DropPreview(h)
      PROVE  IInv'
  BY <1>7, PreviewIInv, PrepareIInv, CommitIInv, DropIInv, Zenon
<1>. QED BY <1>2, <1>3, <1>4, <1>5, <1>6, <1>7, OutboundIInv, TransmitIInv, TickIInv,
            StutterIInv, Zenon DEF Next

\* IInv holds in every reachable state of the two session ends.
THEOREM Invariance == Spec => []IInv
<1>. QED BY InitIInv, NextIInv, PTL DEF Spec

-----------------------------------------------------------------------------
(* What follows *)

\* Type correctness: no id and no counter leaves 1 .. u64::MAX.
THEOREM TypeCorrect == Spec => []TypeOK
<1>1. IInv => TypeOK
  BY Zenon DEF IInv
<1>. QED BY <1>1, Invariance, PTL

\* The delivered window of a live receiver knows exactly the accepted ids among
\* the latest DELIVERED_WINDOW_IDS, with the bytes they were accepted with.
THEOREM WindowIsExact == Spec => []WindowExact
<1>1. IInv => WindowExact
  BY Numbers, Zenon DEF IInv, AcceptedRemembered, Remembers, WindowExact
<1>. QED BY <1>1, Invariance, PTL

\* Whatever happens between preview_inbound and the commit, the decision of a
\* preview that can be committed is right.
THEOREM DecisionsStayCurrent == Spec => []DecisionCurrent
<1>1. IInv => DecisionCurrent
  BY ZenonT(40) DEF IInv
<1>. QED BY <1>1, Invariance, PTL

\* outbound uses every delivery id from the seed on and every counter of a
\* path, and no counter of a path for two packets.
THEOREM NothingIsLost == Spec => []NothingReservedInVain
<1>1. IInv => NothingReservedInVain
  <2>. SUFFICES ASSUME IInv, live["S"]
                PROVE  NothingReservedInVain
    BY Zenon DEF NothingReservedInVain
  <2>1. {p.id : p \in sealed} = Setup.seed .. next - 1
    BY ZenonT(40) DEF IInv, IdsUsed
  <2>2. ASSUME NEW s \in Slot
        PROVE  /\ {p.counter : p \in SealedOn(s)} = 1 .. counter[s] - 1
               /\ \A p, q \in SealedOn(s) : p.counter = q.counter => p = q
    <3>1. counter[s] \in 1 .. U64_MAX /\ sealed \subseteq PacketType
      BY Zenon DEF IInv, TypeOK
    <3>2. \A p \in SealedOn(s) : p.counter \in Nat \ {0}
      BY <3>1, Numbers DEF SealedOn, PacketType, Counter
    <3>3. /\ \A p \in SealedOn(s) : p.counter < counter[s]
          /\ \A c \in 1 .. counter[s] - 1 : \E p \in SealedOn(s) : p.counter = c
          /\ \A p, q \in SealedOn(s) : p.counter = q.counter => p = q
      BY Zenon DEF IInv, CountersUsed
    <3>. QED BY <3>1, <3>2, <3>3, Numbers
  <2>. QED BY <2>1, <2>2 DEF NothingReservedInVain, SealedOn
<1>. QED BY <1>1, Invariance, PTL

\* A peer that sends one plaintext per delivery id never makes preview_inbound
\* report divergent bytes, which would close the session.
THEOREM NoFalseDivergence == Spec => []NoDivergence
<1>1. IInv => NoDivergence
  <2>. SUFFICES ASSUME IInv, live["R"], \A p \in sealed : p.bytes = p.id,
                       NEW p \in net, Divergent(p)
                PROVE  FALSE
    BY Zenon DEF NoDivergence
  <2>. DEFINE b == window.prints[Index(p.id)]
  <2>1. p \in sealed /\ p \in PacketType /\ p.bytes = p.id
    BY Zenon DEF IInv, TypeOK, FromSealed
  <2>2. p.id \in Id
    BY <2>1, Zenon DEF PacketType
  <2>3. /\ p.id <= window.high /\ window.high - p.id < DELIVERED_WINDOW_IDS
        /\ b # NoPrint /\ b # p.bytes
    BY Zenon DEF Divergent, Known, Seen, Matches
  <2>4. window.high \in Nat /\ b \in Bytes
    <3>1. /\ window.high \in 0 .. U64_MAX - 1
          /\ window.prints \in [0 .. DELIVERED_WINDOW_IDS - 1 -> 0 .. U64_MAX]
      BY Zenon DEF IInv, TypeOK
    <3>2. Index(p.id) \in 0 .. DELIVERED_WINDOW_IDS - 1
      BY <2>2, Numbers, IndexType, Zenon DEF Positive
    <3>3. b \in 0 .. U64_MAX
      BY <3>1, <3>2, Zenon
    <3>4. b \in Bytes
      BY <3>3, <2>3, Numbers, ZenonT(40)
    <3>. QED BY <3>1, <3>4, Numbers
  <2>5. window.high - p.id \in 0 .. DELIVERED_WINDOW_IDS - 1
    <3>1. p.id \in Nat
      BY <2>2, Numbers
    <3>. QED BY <3>1, <2>3, <2>4, WindowAssumption, SMTT(30)
  <2>6. [id |-> p.id, bytes |-> b] \in accepted
    <3>1. p.id \in Positive /\ b \in Positive
      BY <2>2, <2>4, Numbers, Zenon
    <3>2. Remembers(window, accepted)
      BY Zenon DEF IInv, AcceptedRemembered
    <3>3. \A c \in Positive :
            window.prints[Index(p.id)] = c <=> [id |-> p.id, bytes |-> c] \in accepted
      BY <2>5, <3>1, <3>2, Zenon DEF Remembers
    <3>4. window.prints[Index(p.id)] = b
      OBVIOUS
    <3>. HIDE DEF b
    <3>. QED BY <3>1, <3>3, <3>4, Zenon
  <2>7. PICK q \in sealed : q.id = p.id /\ q.bytes = b
    BY <2>6, Zenon DEF IInv, FromSealed
  <2>. QED BY <2>1, <2>3, <2>7, Zenon
<1>. QED BY <1>1, Invariance, PTL

\* However copies arrive, the application is given a delivery id at most once.
THEOREM AtMostOnceDelivery == Spec => []DeliveredOnce
<1>1. IInv => DeliveredOnce
  BY DEF IInv, DeliveredAccepted, DeliveredOnce
<1>. QED BY <1>1, Invariance, PTL

-----------------------------------------------------------------------------
(* The two ends as an at-most-once channel of delivery ids *)

LEMMA OutboundSends ==
  ASSUME IInv, Outbound
  PROVE  Channel!Next
<1>1. /\ next \in Id /\ next \notin {p.id : p \in sealed}
      /\ {p.id : p \in sealed'} = {p.id : p \in sealed} \cup {next}
  BY OutboundIInv, Zenon
<1>2. UNCHANGED deliveries
  BY Zenon DEF Outbound, receiving
<1>3. \E id \in Id : Channel!Send(id)
  BY <1>1, <1>2, Zenon DEF Channel!Send
<1>. QED BY <1>3, Zenon DEF Channel!Next

LEMMA CommitDelivers ==
  ASSUME IInv, NEW h \in Holder, CommitInbound(h)
  PROVE  [Channel!Next]_(Channel!vars)
<1>. DEFINE v == preview[h]
            id == v.packet.id
<1>1. /\ v.packet \in sealed /\ id \in Id
      /\ v.decision = "New" => deliveries[id] = 0
  BY InboundCommits, CommittedPreview, CommittedDelivery, Zenon
<1>2. UNCHANGED sealed /\ deliveries' = Delivered(v)
  BY Zenon DEF CommitInbound, sending
<1>3. CASE v.decision = "New"
  <2>1. deliveries' = [deliveries EXCEPT ![id] = deliveries[id] + 1]
    BY <1>2, <1>3, Zenon DEF Delivered
  <2>2. deliveries[id] + 1 = 1 /\ deliveries[id] = 0
    BY <1>1, <1>3
  <2>3. deliveries' = [deliveries EXCEPT ![id] = 1]
    BY <2>1, <2>2, Zenon
  <2>4. id \in {p.id : p \in sealed}
    BY <1>1, Zenon
  <2>5. Channel!Deliver(id)
    BY <1>2, <2>2, <2>3, <2>4, Zenon DEF Channel!Deliver
  <2>. QED BY <1>1, <2>5, Zenon DEF Channel!Next
<1>4. CASE v.decision # "New"
  BY <1>2, <1>4, Zenon DEF Delivered, Channel!vars
<1>. QED BY <1>3, <1>4, Zenon

\* The redundant session implements the at-most-once channel: outbound is its
\* Send, committing a new delivery its Deliver, and every other step leaves
\* the channel as it is.
THEOREM Refinement == Spec => ImplementsAtMostOnce
<1>1. Init => Channel!Init
  BY Zenon DEF Init, Channel!Init
<1>2. IInv /\ [Next]_vars => [Channel!Next]_(Channel!vars)
  <2>. SUFFICES ASSUME IInv, [Next]_vars PROVE [Channel!Next]_(Channel!vars)
    OBVIOUS
  <2>. USE DEF sending, receiving, Channel!vars
  <2>1. ASSUME NEW e \in End, Release(e) PROVE UNCHANGED Channel!vars
    BY <2>1, Zenon DEF Release
  <2>2. ASSUME NEW e \in End,
               \/ Close(e)
               \/ \E s \in Slot : \/ RemovePath(e, s)
                                  \/ RemoveLastPath(e, s)
                                  \/ RemoveUnusedPath(e, s)
               \/ IssueOwner(e) \/ MintAdmission(e) \/ DropOwner(e) \/ Activate(e)
        PROVE  UNCHANGED Channel!vars
    <3>1. CASE Close(e) \/ \E s \in Slot : RemoveLastPath(e, s)
      BY <2>1, <3>1, Zenon DEF Close, RemoveLastPath
    <3>2. CASE \E s \in Slot : RemovePath(e, s) \/ RemoveUnusedPath(e, s)
      BY <3>2, Zenon DEF RemovePath, RemoveUnusedPath
    <3>3. CASE IssueOwner(e) \/ MintAdmission(e) \/ DropOwner(e)
      BY <3>3, Zenon DEF IssueOwner, MintAdmission, DropOwner
    <3>4. CASE Activate(e)
      BY <3>4, Zenon DEF Activate
    <3>. QED BY <2>2, <3>1, <3>2, <3>3, <3>4, Zenon
  <2>3. ASSUME OutboundExhausted \/ \E p \in net : Diverge(p) PROVE UNCHANGED Channel!vars
    BY <2>1, <2>3, Zenon DEF OutboundExhausted, Diverge, End
  <2>4. ASSUME NEW s \in Slot, Transmit(s) \/ ConfirmSent(s) PROVE UNCHANGED Channel!vars
    BY <2>4, Zenon DEF Transmit, ConfirmSent
  <2>5. ASSUME NEW h \in Holder,
               \/ \E p \in net : PreviewInbound(h, p)
               \/ PrepareMobility(h) \/ CommitMobility(h) \/ DropPreview(h)
        PROVE  UNCHANGED Channel!vars
    BY <2>5, Zenon DEF PreviewInbound, PrepareMobility, CommitMobility, DropPreview
  <2>6. ASSUME ExpireTick \/ Pass \/ UNCHANGED vars PROVE UNCHANGED Channel!vars
    BY <2>6, Zenon DEF ExpireTick, Pass, vars
  <2>. QED BY <2>2, <2>3, <2>4, <2>5, <2>6, OutboundSends, CommitDelivers, Zenon DEF Next
<1>. QED BY <1>1, <1>2, InitIInv, NextIInv, PTL
         DEF Spec, ImplementsAtMostOnce, Channel!Spec
==============================================================================
