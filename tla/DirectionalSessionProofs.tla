---------------------- MODULE DirectionalSessionProofs ----------------------
(***************************************************************************)
(* Proofs about DirectionalSession for every window width, jump limit,     *)
(* counter width, set of holders and number of sessions.                   *)
(***************************************************************************)
EXTENDS DirectionalSession, TLAPS

-----------------------------------------------------------------------------
(***************************************************************************)
(* What the operators of ReplayWindow do to any window and counter of the  *)
(* right type, for every width, jump limit and counter width.              *)
(***************************************************************************)

\* Window w remembers the set A of accepted counters: none of them is above
\* `largest`, and inside the window the bits are exactly the accepted ones.
Records(w, A) ==
  /\ A \subseteq Counter
  /\ \A c \in A : c <= w.largest
  /\ \A c \in Counter :
       c <= w.largest /\ w.largest - c < REPLAY_WINDOW
         => (w.largest - c \in w.bits <=> c \in A)

\* A counter that check accepts is inside the window or above it.
LEMMA CheckWindow ==
  ASSUME NEW w \in WindowType, NEW c \in 0 .. U64_MAX, Check(w, c)
  PROVE  c \in Counter /\ w.largest - c < REPLAY_WINDOW
<1>1. w.largest \in 0 .. U64_MAX - 1
  BY DEF WindowType
<1>. QED BY <1>1, ReplayAssumption DEF Check, Counter, SaturatingAdd

\* Marking an accepted counter yields a window again.
LEMMA MarkType ==
  ASSUME NEW w \in WindowType, NEW c \in 0 .. U64_MAX, Check(w, c)
  PROVE  Mark(w, c) \in WindowType /\ Mark(w, c).generation = w.generation
<1>0. c \in Counter /\ w.largest - c < REPLAY_WINDOW
  BY CheckWindow
<1>. USE <1>0
<1>1. CASE c > w.largest
  <2>1. ShiftLeft(w.bits, c - w.largest) \cup {0}
          \in SUBSET (0 .. REPLAY_WINDOW - 1)
    BY ReplayAssumption DEF ShiftLeft
  <2>. QED BY <1>1, <2>1 DEF Mark, WindowType, Counter
<1>2. CASE ~(c > w.largest)
  <2>1. w.largest - c \in 0 .. REPLAY_WINDOW - 1
    BY <1>2, ReplayAssumption DEF WindowType, Counter
  <2>2. w.bits \cup {w.largest - c} \in SUBSET (0 .. REPLAY_WINDOW - 1)
    BY <2>1 DEF WindowType
  <2>. QED BY <1>2, <2>2 DEF Mark, WindowType
<1>. QED BY <1>1, <1>2

\* Marking adds exactly the marked counter to what the window remembers, and
\* check only lets a counter through that was not remembered.
LEMMA MarkRecords ==
  ASSUME NEW w \in WindowType, NEW A, Records(w, A),
         NEW c \in 0 .. U64_MAX, Check(w, c)
  PROVE  c \notin A /\ Records(Mark(w, c), A \cup {c})
<1>0. c \in Counter /\ w.largest - c < REPLAY_WINDOW
  BY CheckWindow
<1>. USE <1>0
<1>a. w.largest \in 0 .. U64_MAX - 1 /\ w.bits \subseteq 0 .. REPLAY_WINDOW - 1
  BY DEF WindowType
<1>. USE <1>a
<1>1. c \notin A
  BY DEF Check, Records
<1>2. CASE c > w.largest
  <2>. DEFINE n == c - w.largest
              bits == ShiftLeft(w.bits, n) \cup {0}
  <2>1. Mark(w, c).largest = c /\ Mark(w, c).bits = bits
    BY <1>2 DEF Mark, WindowType
  <2>2. \A x \in A \cup {c} : x <= c
    BY <1>2 DEF Records, Counter
  <2>3. ASSUME NEW x \in Counter, x <= c, c - x < REPLAY_WINDOW
        PROVE  c - x \in bits <=> x \in A \cup {c}
    <3>1. CASE x = c
      BY <3>1 DEF Counter
    <3>2. CASE x # c /\ x > w.largest
      <4>1. x \notin A
        BY <3>2 DEF Records, Counter
      <4>2. c - x - n \notin w.bits
        BY <3>2 DEF Counter
      <4>. QED BY <3>2, <4>1, <4>2, <2>3 DEF ShiftLeft, Counter
    <3>3. CASE x <= w.largest
      <4>1. c - x - n = w.largest - x /\ n < REPLAY_WINDOW /\ c - x # 0
        BY <1>2, <2>3, <3>3, ReplayAssumption DEF Counter
      <4>2. w.largest - x < REPLAY_WINDOW
        BY <1>2, <2>3, <3>3, ReplayAssumption DEF Counter
      <4>3. w.largest - x \in w.bits <=> x \in A
        BY <4>2, <3>3 DEF Records
      <4>4. c - x \in 0 .. REPLAY_WINDOW - 1
        BY <2>3, ReplayAssumption DEF Counter
      <4>5. c - x \in bits <=> c - x - n \in w.bits
        BY <4>1, <4>4, ReplayAssumption DEF ShiftLeft, Counter
      <4>. QED BY <4>1, <4>3, <4>5, <1>2, <3>3 DEF Counter
    <3>. QED BY <3>1, <3>2, <3>3 DEF Counter
  <2>4. A \cup {c} \subseteq Counter
    BY DEF Records
  <2>. HIDE DEF bits
  <2>. QED BY <1>1, <2>1, <2>2, <2>3, <2>4 DEF Records
<1>3. CASE ~(c > w.largest)
  <2>1. /\ Mark(w, c).largest = w.largest
        /\ Mark(w, c).bits = w.bits \cup {w.largest - c}
    BY <1>3 DEF Mark, WindowType
  <2>2. ASSUME NEW x \in Counter, x <= w.largest,
               w.largest - x < REPLAY_WINDOW
        PROVE  w.largest - x \in w.bits \cup {w.largest - c}
                 <=> x \in A \cup {c}
    <3>1. w.largest - x = w.largest - c <=> x = c
      BY DEF Counter
    <3>2. w.largest - x \in w.bits <=> x \in A
      BY <2>2 DEF Records
    <3>. QED BY <3>1, <3>2
  <2>3. A \cup {c} \subseteq Counter
    BY DEF Records
  <2>4. c <= w.largest
    BY <1>3 DEF Counter
  <2>. QED BY <1>1, <2>1, <2>2, <2>3, <2>4 DEF Records
<1>. QED BY <1>2, <1>3

\* What check decides, in terms of what the window remembers.
LEMMA CheckExact ==
  ASSUME NEW w \in WindowType, NEW A, Records(w, A), NEW c \in 0 .. U64_MAX
  PROVE  Check(w, c) <=>
           /\ c \in Counter
           /\ c \notin A
           /\ w.largest = 0 \/ ( /\ c - w.largest <= REPLAY_JUMP_MAX
                                 /\ w.largest - c < REPLAY_WINDOW )
<1>a. w.largest \in 0 .. U64_MAX - 1
  BY DEF WindowType
<1>. USE <1>a
<1>1. ASSUME Check(w, c)
      PROVE  /\ c \in Counter /\ c \notin A
             /\ w.largest = 0 \/ ( /\ c - w.largest <= REPLAY_JUMP_MAX
                                   /\ w.largest - c < REPLAY_WINDOW )
  <2>1. c \in Counter /\ w.largest - c < REPLAY_WINDOW
    BY <1>1, CheckWindow
  <2>2. c \notin A
    BY <1>1, MarkRecords
  <2>3. w.largest > 0 => c - w.largest <= REPLAY_JUMP_MAX
    BY <1>1, ReplayAssumption DEF Check, SaturatingAdd
  <2>. QED BY <2>1, <2>2, <2>3
<1>2. ASSUME c \in Counter, c \notin A,
             w.largest = 0 \/ ( /\ c - w.largest <= REPLAY_JUMP_MAX
                                /\ w.largest - c < REPLAY_WINDOW )
      PROVE  Check(w, c)
  <2>1. c # 0 /\ c # U64_MAX
    BY <1>2 DEF Counter
  <2>2. w.largest > 0 => /\ c <= SaturatingAdd(w.largest, REPLAY_JUMP_MAX)
                         /\ SaturatingAdd(c, REPLAY_WINDOW) > w.largest
    BY <1>2, ReplayAssumption DEF SaturatingAdd, Counter
  <2>3. c <= w.largest => w.largest - c \notin w.bits
    BY <1>2 DEF Records, Counter
  <2>. QED BY <2>1, <2>2, <2>3 DEF Check
<1>. QED BY <1>1, <1>2

-----------------------------------------------------------------------------
(***************************************************************************)
(* The inductive invariant.  DeliveredOnce alone is not inductive: what    *)
(* keeps a delivered counter from being delivered again is that the live   *)
(* window remembers it, or that its session is gone for good.              *)
(***************************************************************************)

\* The counters of the live session that were delivered.
Accepted == {c \in Counter : deliveries[<<owner, c>>] # 0}

\* Only packets of this session or an earlier one exist, and the sender's
\* next counter is above every counter used under the live session.
SentBelowNext ==
  \A p \in net : /\ p.session <= owner
                 /\ p.session = owner => p.counter < next

\* Nothing was delivered under a session that does not exist yet.
FutureUndelivered ==
  \A s \in Session : s > owner =>
    \A c \in 0 .. U64_MAX : deliveries[<<s, c>>] = 0

\* A preview was made from a packet in the network.
PreviewSent ==
  \A h \in Holder : preview[h] # None =>
    \E p \in net : /\ p.session = preview[h].owner
                   /\ p.counter = preview[h].counter

\* Only valid counters were delivered.
DeliveredValid ==
  \A p \in Packet : deliveries[p] # 0 => p[2] \in Counter

IInv ==
  /\ TypeOK
  /\ NonceUnique
  /\ DeliveredOnce
  /\ SentBelowNext
  /\ FutureUndelivered
  /\ PreviewSent
  /\ DeliveredValid
  /\ Records(replay, Accepted)

LEMMA InitIInv == Init => IInv
<1>. SUFFICES ASSUME Init PROVE IInv
  OBVIOUS
<1>. USE ReplayAssumption, SessionsAssumption
<1>1. TypeOK
  BY DEF Init, TypeOK, NewWindow, WindowType, Session, Packet, Preview
<1>2. NonceUnique /\ SentBelowNext /\ PreviewSent
  BY DEF Init, NonceUnique, SentBelowNext, PreviewSent
<1>3. DeliveredOnce /\ DeliveredValid
  BY DEF Init, DeliveredOnce, DeliveredValid
<1>4. FutureUndelivered
  BY DEF Init, FutureUndelivered, Packet
<1>5. Records(replay, Accepted)
  <2>1. Accepted = {}
    BY DEF Init, Accepted, Packet, Session, Counter
  <2>2. \A c \in Counter : ~(c <= replay.largest)
    BY DEF Init, NewWindow, Counter
  <2>. QED BY <2>1, <2>2 DEF Records
<1>. QED BY <1>1, <1>2, <1>3, <1>4, <1>5 DEF IInv

\* Steps that leave the delivery state alone keep what the window records.
LEMMA AcceptedFrame ==
  ASSUME IInv, owner' = owner, replay' = replay, deliveries' = deliveries
  PROVE  /\ Records(replay, Accepted)'
         /\ DeliveredOnce' /\ DeliveredValid' /\ FutureUndelivered'
<1>1. Accepted' = Accepted
  BY DEF Accepted
<1>2. Records(replay, Accepted)'
  BY <1>1 DEF IInv, Records
<1>. QED BY <1>2 DEF IInv, DeliveredOnce, DeliveredValid, FutureUndelivered

LEMMA EncryptIInv == IInv /\ Encrypt => IInv'
<1>. SUFFICES ASSUME IInv, Encrypt PROVE IInv'
  OBVIOUS
<1>. USE ReplayAssumption
<1>. DEFINE pkt == [session |-> owner, counter |-> next, plain |-> sends]
<1>0. TypeOK /\ net' = net \cup {pkt} /\ next' = next + 1 /\ next # U64_MAX
  BY DEF IInv, Encrypt, CanReserve
<1>1. pkt \in [session : Session, counter : Counter, plain : Nat]
  BY <1>0 DEF TypeOK, Counter
<1>2. TypeOK'
  BY <1>0, <1>1 DEF TypeOK, Encrypt
<1>3. SentBelowNext'
  <2>1. ASSUME NEW p \in net' PROVE p.session <= owner /\ (p.session = owner => p.counter < next + 1)
    <3>1. CASE p = pkt
      BY <3>1, <1>0 DEF TypeOK, Session
    <3>2. CASE p \in net
      BY <3>2, <1>0 DEF TypeOK, IInv, SentBelowNext, Counter
    <3>. QED BY <1>0, <2>1, <3>1, <3>2
  <2>. QED BY <2>1, <1>0 DEF SentBelowNext, Encrypt
<1>4. NonceUnique'
  <2>1. \A p \in net : ~(p.session = pkt.session /\ p.counter = pkt.counter)
    BY <1>0 DEF IInv, SentBelowNext, TypeOK, Counter
  <2>. HIDE DEF pkt
  <2>. QED BY <2>1, <1>0 DEF NonceUnique, IInv
<1>5. PreviewSent'
  BY <1>0 DEF IInv, PreviewSent, Encrypt
<1>. QED BY <1>2, <1>3, <1>4, <1>5, AcceptedFrame DEF IInv, Encrypt

LEMMA PreviewIInv ==
  ASSUME IInv, NEW h \in Holder, NEW pkt \in net, PreviewPacket(h, pkt)
  PROVE  IInv'
<1>. DEFINE new == [counter |-> pkt.counter, generation |-> replay.generation,
                    owner |-> owner]
<1>0. TypeOK /\ preview' = [preview EXCEPT ![h] = new]
  BY DEF IInv, PreviewPacket
<1>1. new \in Preview
  BY <1>0, ReplayAssumption DEF TypeOK, Preview, WindowType, Counter
<1>2. TypeOK'
  <2>. HIDE DEF new
  <2>. QED BY <1>0, <1>1 DEF TypeOK, PreviewPacket
<1>3. PreviewSent'
  <2>1. ASSUME NEW k \in Holder, preview'[k] # None
        PROVE  \E p \in net : /\ p.session = preview'[k].owner
                              /\ p.counter = preview'[k].counter
    <3>1. CASE k = h
      BY <3>1, <1>0 DEF TypeOK, PreviewPacket
    <3>2. CASE k # h
      BY <3>2, <2>1, <1>0 DEF TypeOK, IInv, PreviewSent
    <3>. QED BY <3>1, <3>2
  <2>. QED BY <2>1 DEF PreviewSent, PreviewPacket
<1>4. NonceUnique' /\ SentBelowNext'
  BY DEF IInv, NonceUnique, SentBelowNext, PreviewPacket
<1>. QED BY <1>2, <1>3, <1>4, AcceptedFrame DEF IInv, PreviewPacket

\* Emptying a holder, for the steps that only do that.
LEMMA EmptyIInv ==
  ASSUME IInv, NEW h \in Holder, RefuseCommit(h) \/ DropPreview(h)
  PROVE  IInv'
<1>0. /\ TypeOK
      /\ preview' = [preview EXCEPT ![h] = None]
      /\ UNCHANGED <<next, sends, net, owner, replay, deliveries>>
  BY DEF IInv, RefuseCommit, DropPreview
<1>1. TypeOK'
  BY <1>0 DEF TypeOK
<1>2. PreviewSent'
  BY <1>0 DEF PreviewSent, IInv, TypeOK
<1>3. NonceUnique' /\ SentBelowNext'
  BY <1>0 DEF IInv, NonceUnique, SentBelowNext
<1>. QED BY <1>0, <1>1, <1>2, <1>3, AcceptedFrame DEF IInv

LEMMA CommitIInv ==
  ASSUME IInv, NEW h \in Holder, Commit(h)
  PROVE  /\ IInv'
         /\ <<owner, preview[h].counter>> \in Packet
         /\ deliveries[<<owner, preview[h].counter>>] = 0
<1>. DEFINE c == preview[h].counter
            pk == <<owner, c>>
<1>0. /\ TypeOK
      /\ preview[h] # None
      /\ preview[h] \in Preview
      /\ preview[h].owner = owner
      /\ Check(replay, c)
      /\ replay.generation < U64_MAX
      /\ replay' = Committed(replay, preview[h])
      /\ deliveries' = [deliveries EXCEPT ![pk] = @ + 1]
      /\ preview' = [preview EXCEPT ![h] = None]
      /\ UNCHANGED <<next, sends, net, owner>>
  BY DEF IInv, Commit, CanCommitPreview, CanCommit, TypeOK
<1>1. c \in 0 .. U64_MAX /\ pk \in Packet
  BY <1>0 DEF Preview, Packet, TypeOK
<1>2. /\ Mark(replay, c) \in WindowType
      /\ Mark(replay, c).generation = replay.generation
  BY <1>0, <1>1, MarkType DEF TypeOK
<1>3. c \notin Accepted /\ Records(Mark(replay, c), Accepted \cup {c})
  BY <1>0, <1>1, MarkRecords DEF IInv, TypeOK
<1>4. c \in Counter
  BY <1>0, <1>1, CheckWindow DEF TypeOK
<1>5. deliveries[pk] = 0
  BY <1>3, <1>4 DEF Accepted
<1>6. /\ deliveries' \in [Packet -> Nat]
      /\ deliveries'[pk] = 1
      /\ \A p \in Packet : p # pk => deliveries'[p] = deliveries[p]
  <2>. HIDE DEF pk
  <2>. QED BY <1>0, <1>1, <1>5 DEF TypeOK
<1>7. /\ replay' \in WindowType
      /\ replay'.largest = Mark(replay, c).largest
      /\ replay'.bits = Mark(replay, c).bits
  BY <1>0, <1>2, ReplayAssumption DEF Committed, WindowType
<1>8. TypeOK'
  BY <1>0, <1>6, <1>7 DEF TypeOK
<1>9. Records(replay, Accepted)'
  <2>1. Accepted' = Accepted \cup {c}
    <3>1. ASSUME NEW x \in Counter
          PROVE  deliveries'[<<owner', x>>] # 0
                   <=> deliveries[<<owner, x>>] # 0 \/ x = c
      <4>1. <<owner, x>> \in Packet
        BY <1>0, ReplayAssumption DEF Packet, TypeOK, Counter
      <4>2. x # c => <<owner, x>> # pk
        OBVIOUS
      <4>. QED BY <4>1, <4>2, <1>6, <1>0
    <3>. QED BY <3>1, <1>4 DEF Accepted
  <2>. QED BY <2>1, <1>3, <1>7 DEF Records
<1>10. DeliveredOnce' /\ DeliveredValid'
  <2>1. pk[2] = c
    OBVIOUS
  <2>. HIDE DEF pk
  <2>. QED BY <2>1, <1>6, <1>4 DEF IInv, DeliveredOnce, DeliveredValid
<1>11. FutureUndelivered'
  <2>1. ASSUME NEW s \in Session, s > owner, NEW x \in 0 .. U64_MAX
        PROVE  deliveries'[<<s, x>>] = 0
    <3>1. <<s, x>> \in Packet /\ <<s, x>> # pk
      BY <2>1, <1>0 DEF Packet, TypeOK, Session
    <3>. QED BY <3>1, <2>1, <1>6 DEF IInv, FutureUndelivered
  <2>. QED BY <2>1, <1>0 DEF FutureUndelivered
<1>12. PreviewSent'
  BY <1>0 DEF PreviewSent, IInv, TypeOK
<1>13. NonceUnique' /\ SentBelowNext'
  BY <1>0 DEF IInv, NonceUnique, SentBelowNext
<1>. QED BY <1>1, <1>5, <1>8, <1>9, <1>10, <1>11, <1>12, <1>13 DEF IInv

LEMMA ReplaceIInv == IInv /\ Replace => IInv'
<1>. SUFFICES ASSUME IInv, Replace PROVE IInv'
  OBVIOUS
<1>. USE ReplayAssumption, SessionsAssumption
<1>0. TypeOK /\ owner' = owner + 1 /\ owner' \in Session /\ owner \in Session
  BY DEF IInv, Replace, TypeOK, Session
<1>1. TypeOK'
  BY <1>0 DEF TypeOK, Replace, NewWindow, WindowType
<1>2. SentBelowNext'
  BY <1>0 DEF SentBelowNext, IInv, Replace, Session, TypeOK
<1>3. FutureUndelivered'
  BY <1>0 DEF FutureUndelivered, IInv, Replace, Session
<1>4. Records(replay, Accepted)'
  <2>1. Accepted' = {}
    BY <1>0 DEF Accepted, IInv, FutureUndelivered, Replace, Session, Counter
  <2>2. \A c \in Counter : ~(c <= replay'.largest)
    BY DEF Replace, NewWindow, Counter
  <2>. QED BY <2>1, <2>2 DEF Records
<1>5. /\ NonceUnique' /\ PreviewSent' /\ DeliveredOnce' /\ DeliveredValid'
  BY DEF IInv, NonceUnique, PreviewSent, DeliveredOnce, DeliveredValid, Replace
<1>. QED BY <1>1, <1>2, <1>3, <1>4, <1>5 DEF IInv

LEMMA StutterIInv == IInv /\ UNCHANGED vars => IInv'
<1>. SUFFICES ASSUME IInv, UNCHANGED vars PROVE IInv'
  OBVIOUS
<1>1. TypeOK' /\ NonceUnique' /\ SentBelowNext' /\ PreviewSent'
  BY DEF IInv, vars, TypeOK, NonceUnique, SentBelowNext, PreviewSent
<1>. QED BY <1>1, AcceptedFrame DEF IInv, vars

LEMMA NextIInv == IInv /\ [Next]_vars => IInv'
BY EncryptIInv, PreviewIInv, EmptyIInv, CommitIInv, ReplaceIInv, StutterIInv
   DEF Next

\* IInv holds in every reachable state of the session.
THEOREM Invariance == Spec => []IInv
<1>. QED BY InitIInv, NextIInv, PTL DEF Spec

-----------------------------------------------------------------------------

\* Type correctness of DirectionalSession.
THEOREM TypeCorrect == Spec => []TypeOK
<1>1. IInv => TypeOK
  BY DEF IInv
<1>. QED BY <1>1, Invariance, PTL

\* Counters::reserve never lets a nonce be used twice.
THEOREM NonceUniqueness == Spec => []NonceUnique
<1>1. IInv => NonceUnique
  BY DEF IInv
<1>. QED BY <1>1, Invariance, PTL

\* No packet is committed twice, whatever previews are outstanding.
THEOREM AtMostOnceDelivery == Spec => []DeliveredOnce
<1>1. IInv => DeliveredOnce
  BY DEF IInv
<1>. QED BY <1>1, Invariance, PTL

\* ReplayWindow::check refuses a counter for the documented reasons only.
THEOREM WindowIsExact == Spec => []WindowExact
<1>1. IInv => WindowExact
  <2>. SUFFICES ASSUME IInv PROVE WindowExact
    OBVIOUS
  <2>1. replay \in WindowType /\ Records(replay, Accepted)
        /\ owner \in Session /\ deliveries \in [Packet -> Nat]
    BY DEF IInv, TypeOK
  <2>2. ASSUME NEW c \in Counter
        PROVE  c \notin Accepted <=> deliveries[<<owner, c>>] = 0
    BY DEF Accepted
  <2>. QED BY <2>1, <2>2, CheckExact DEF WindowExact
<1>. QED BY <1>1, Invariance, PTL

-----------------------------------------------------------------------------

\* The set of packet identities in the network, the abstract `sent`.
SentIds == {<<p.session, p.counter>> : p \in net}

LEMMA EncryptSends ==
  ASSUME IInv, Encrypt
  PROVE  Channel!Send(<<owner, next>>) /\ <<owner, next>> \in Packet
<1>1. \A p \in net : <<p.session, p.counter>> # <<owner, next>>
  BY DEF IInv, SentBelowNext, TypeOK, Counter
<1>2. SentIds' = SentIds \cup {<<owner, next>>}
  <2>. DEFINE pkt == [session |-> owner, counter |-> next, plain |-> sends]
  <2>1. net' = net \cup {pkt}
    BY DEF Encrypt
  <2>2. <<pkt.session, pkt.counter>> = <<owner, next>>
    OBVIOUS
  <2>. HIDE DEF pkt
  <2>. QED BY <2>1, <2>2 DEF SentIds
<1>3. <<owner, next>> \notin SentIds
  BY <1>1 DEF SentIds
<1>4. <<owner, next>> \in Packet
  BY DEF IInv, TypeOK, Packet
<1>. QED BY <1>2, <1>3, <1>4 DEF Channel!Send, SentIds, Encrypt

LEMMA CommitDelivers ==
  ASSUME IInv, NEW h \in Holder, Commit(h)
  PROVE  /\ Channel!Deliver(<<owner, preview[h].counter>>)
         /\ <<owner, preview[h].counter>> \in Packet
<1>. DEFINE pk == <<owner, preview[h].counter>>
<1>1. pk \in Packet /\ deliveries[pk] = 0
  BY CommitIInv
<1>2. pk \in SentIds
  BY DEF IInv, PreviewSent, Commit, CanCommitPreview, SentIds
<1>3. deliveries' = [deliveries EXCEPT ![pk] = 1]
  BY <1>1 DEF Commit, IInv, TypeOK
<1>4. SentIds' = SentIds
  BY DEF SentIds, Commit
<1>. QED BY <1>1, <1>2, <1>3, <1>4 DEF Channel!Deliver, SentIds

\* The session implements the at-most-once channel: each commit of a preview
\* delivers a packet that was sent and not delivered before, each encryption
\* sends a new one, every other step is invisible above the session.
THEOREM Refinement == Spec => ImplementsAtMostOnce
<1>1. Init => Channel!Init
  BY DEF Init, Channel!Init
<1>2. IInv /\ [Next]_vars => [Channel!Next]_(Channel!vars)
  <2>. SUFFICES ASSUME IInv, [Next]_vars PROVE [Channel!Next]_(Channel!vars)
    OBVIOUS
  <2>1. CASE Encrypt
    <3>. DEFINE id == <<owner, next>>
    <3>1. Channel!Send(id) /\ id \in Packet
      BY <2>1, EncryptSends
    <3>. HIDE DEF id
    <3>2. Channel!Next
      BY <3>1 DEF Channel!Next, Channel!Send
    <3>. QED BY <3>2
  <2>2. ASSUME NEW h \in Holder, NEW pkt \in net, PreviewPacket(h, pkt)
        PROVE  UNCHANGED Channel!vars
    BY <2>2 DEF PreviewPacket, Channel!vars
  <2>3. ASSUME NEW h \in Holder, Commit(h)
        PROVE  Channel!Next
    BY <2>3, CommitDelivers DEF Channel!Next
  <2>4. ASSUME NEW h \in Holder, RefuseCommit(h) \/ DropPreview(h)
        PROVE  UNCHANGED Channel!vars
    BY <2>4 DEF RefuseCommit, DropPreview, Channel!vars
  <2>5. CASE Replace
    BY <2>5 DEF Replace, Channel!vars
  <2>6. CASE UNCHANGED vars
    BY <2>6 DEF vars, Channel!vars
  <2>. QED BY <2>1, <2>2, <2>3, <2>4, <2>5, <2>6 DEF Next
<1>. QED BY <1>1, <1>2, Invariance, PTL
         DEF Spec, ImplementsAtMostOnce, Channel!Spec
=============================================================================
