--------------------------- MODULE HandshakeProofs ---------------------------
(***************************************************************************)
(* Safety of the handshake for every number of attempts, SCIDs, bindings,  *)
(* acknowledgements, rotations and restarts, every timeout and limit, and  *)
(* every way the network delivers, repeats or reorders packets.            *)
(***************************************************************************)
EXTENDS Handshake, FiniteSetTheorems, TLAPS

-----------------------------------------------------------------------------
(* Types *)

\* Counters a packet may carry, and the next one to send.
Counter == 1 .. COUNTER_MAX
Sendable == 1 .. COUNTER_MAX + 1
Deadline == 0 .. MaxTime + OPEN_TIMEOUT

CookieT == [key : Nat, binding : Binding, scid : Scid, attempt : Attempt,
            boot : Nat, bucket : Nat]
TranscriptT == [scid : Scid, attempt : Attempt, boot : Nat, ack : Nat]

OpenT == [type : {"OPEN"}, scid : Scid, attempt : Attempt]
VerifyT == [type : {"VERIFY_COOKIE"}, scid : Scid, attempt : Attempt,
            boot : Nat, cookie : CookieT]
AuthT == [type : {"OPEN_AUTH"}, scid : Scid, attempt : Attempt,
          boot : Nat, cookie : CookieT]
AckT == [type : {"OPEN_ACK"}, scid : Scid, transcript : TranscriptT]
ProtectedT == [type : {"SESSION_ACCEPT", "SESSION_DATA", "CLOSE"}, scid : Scid,
               from : {"client", "server"}, transcript : TranscriptT, counter : Counter]
PacketT == OpenT \cup VerifyT \cup AuthT \cup AckT \cup ProtectedT

ClientT ==
  [state : {"Idle", "CookieWait", "AuthWait", "Established", "Released"},
   scid : Scid \cup {None}, deadline : Deadline, auth : AuthT \cup {None},
   transcript : TranscriptT \cup {None}, next : Sendable, seen : SUBSET Counter,
   heard : Nat]
PendingT == [scid : Scid, opening : AuthT, binding : Binding, ack : Nat \ {0}, deadline : Nat]
SessionT == [scid : Scid, opening : AuthT, binding : Binding, ack : Nat \ {0},
             lastActive : Nat, heard : Nat, next : Sendable, seen : SUBSET Counter]
BootstrapT == [end : {"client", "server"}, transcript : TranscriptT, next : Sendable]

Typed ==
  /\ client \in [Attempt -> ClientT]
  /\ boot \in Nat /\ acks \in Nat /\ now \in Nat
  /\ boot <= MaxRestarts /\ acks <= MaxAcks /\ now <= MaxTime
  /\ cookieKey.current \in 1 .. MaxRotations + 1
  /\ cookieKey \in [current : Nat, previous : Nat, rotated : Nat]
  /\ pending \subseteq PendingT /\ established \subseteq SessionT
  /\ net \subseteq PacketT
  /\ taken \subseteq TranscriptT \X Counter
  /\ bootstraps \in Seq(BootstrapT)

LEMMA Constants ==
  /\ OPEN_TIMEOUT \in Nat /\ PENDING_TIMEOUT \in Nat
  /\ BUCKET \in Nat /\ BUCKET > 0
  /\ COUNTER_MAX \in Nat /\ COUNTER_MAX > 0
  /\ {MaxTime, MaxAcks, MaxRotations, MaxRestarts} \subseteq Nat
BY HandshakeAssumption

LEMMA Counters ==
  /\ 1 \in Counter /\ 1 \in Sendable /\ 2 \in Sendable /\ Counter \subseteq Nat
  /\ \A n \in Sendable : n \in Nat /\ (~(n > COUNTER_MAX) => n \in Counter /\ n + 1 \in Sendable)
BY Constants DEF Counter, Sendable

LEMMA Deadlines ==
  0 \in Deadline /\ Deadline \subseteq Nat
    /\ \A n \in Nat : n <= MaxTime => n + OPEN_TIMEOUT \in Deadline
BY Constants DEF Deadline

\* The type of a packet says which record it is.
LEMMA PacketKinds ==
  ASSUME NEW m \in PacketT
  PROVE  /\ m.type = "OPEN" => m \in OpenT
         /\ m.type = "VERIFY_COOKIE" => m \in VerifyT
         /\ m.type = "OPEN_AUTH" => m \in AuthT
         /\ m.type = "OPEN_ACK" => m \in AckT
         /\ m.type \in {"SESSION_ACCEPT", "SESSION_DATA", "CLOSE"} => m \in ProtectedT
BY Zenon DEF PacketT, OpenT, VerifyT, AuthT, AckT, ProtectedT

\* What the assignments of the machines do to a client.
LEMMA ClientUpdates ==
  ASSUME NEW c \in ClientT
  PROVE  /\ \A x \in Scid, d \in Deadline :
              LET e == [c EXCEPT !.state = "CookieWait", !.scid = x, !.deadline = d]
              IN  e \in ClientT /\ e.state = "CookieWait"
         /\ \A x \in AuthT :
              LET e == [c EXCEPT !.state = "AuthWait", !.auth = x]
              IN  e \in ClientT /\ e.state = "AuthWait" /\ e.auth = x
         /\ \A x \in Sendable :
              LET e == [c EXCEPT !.next = x]
              IN  /\ e \in ClientT /\ e.state = c.state /\ e.transcript = c.transcript
                  /\ e.auth = c.auth
         /\ \A x \in SUBSET Counter, h \in Nat :
              LET e == [c EXCEPT !.seen = x, !.heard = h]
              IN  /\ e \in ClientT /\ e.state = c.state /\ e.transcript = c.transcript
                  /\ e.auth = c.auth
<1>1. ASSUME NEW x \in Scid, NEW d \in Deadline
      PROVE  LET e == [c EXCEPT !.state = "CookieWait", !.scid = x, !.deadline = d]
             IN  e \in ClientT /\ e.state = "CookieWait"
  BY Zenon DEF ClientT
<1>2. ASSUME NEW x \in AuthT
      PROVE  LET e == [c EXCEPT !.state = "AuthWait", !.auth = x]
             IN  e \in ClientT /\ e.state = "AuthWait" /\ e.auth = x
  BY Zenon DEF ClientT
<1>3. ASSUME NEW x \in Sendable
      PROVE  LET e == [c EXCEPT !.next = x]
             IN  /\ e \in ClientT /\ e.state = c.state /\ e.transcript = c.transcript
                 /\ e.auth = c.auth
  BY Zenon DEF ClientT
<1>4. ASSUME NEW x \in SUBSET Counter, NEW h \in Nat
      PROVE  LET e == [c EXCEPT !.seen = x, !.heard = h]
             IN  /\ e \in ClientT /\ e.state = c.state /\ e.transcript = c.transcript
                 /\ e.auth = c.auth
  BY Zenon DEF ClientT
<1> QED BY <1>1, <1>2, <1>3, <1>4, Zenon

LEMMA ClientValues ==
  /\ Idle \in ClientT /\ Idle.state = "Idle"
  /\ Released \in ClientT /\ Released.state = "Released"
  /\ \A t \in TranscriptT, h \in Nat :
       LET e == [Idle EXCEPT !.state = "Established", !.transcript = t,
                             !.next = 2, !.heard = h]
       IN  e \in ClientT /\ e.state = "Established" /\ e.transcript = t
<1>1. Idle \in ClientT /\ Idle.state = "Idle"
  BY Counters, Deadlines DEF Idle, ClientT
<1>2. Released \in ClientT /\ Released.state = "Released"
  BY <1>1, Zenon DEF Released, ClientT
<1>3. ASSUME NEW t \in TranscriptT, NEW h \in Nat
      PROVE  LET e == [Idle EXCEPT !.state = "Established", !.transcript = t,
                             !.next = 2, !.heard = h]
             IN  e \in ClientT /\ e.state = "Established" /\ e.transcript = t
  <2>1. 2 \in Sendable
    BY Counters, Zenon
  <2> QED BY <1>1, <2>1, Zenon DEF ClientT
<1> QED BY <1>1, <1>2, <1>3, Zenon

\* A session keeps what identifies it when its counters move on.
Continues(s, t) ==
  /\ t \in SessionT
  /\ t.scid = s.scid /\ t.opening = s.opening /\ t.binding = s.binding /\ t.ack = s.ack
  /\ s.seen \subseteq t.seen

LEMMA SessionUpdates ==
  ASSUME NEW s \in SessionT
  PROVE  /\ s.next <= COUNTER_MAX => Continues(s, [s EXCEPT !.next = @ + 1])
         /\ \A c \in Counter, l \in Nat, h \in Nat :
              LET t == [s EXCEPT !.seen = @ \cup {c}, !.lastActive = l, !.heard = h]
              IN  Continues(s, t) /\ c \in t.seen
<1>1. ASSUME s.next <= COUNTER_MAX
      PROVE  Continues(s, [s EXCEPT !.next = @ + 1])
  <2>1. s.next + 1 \in Sendable
    BY <1>1, HandshakeAssumption DEF SessionT, Sendable
  <2> QED BY <2>1, Zenon DEF SessionT, Continues
<1>2. ASSUME NEW c \in Counter, NEW l \in Nat, NEW h \in Nat
      PROVE  LET t == [s EXCEPT !.seen = @ \cup {c}, !.lastActive = l, !.heard = h]
             IN  Continues(s, t) /\ c \in t.seen
  <2>1. s.seen \cup {c} \in SUBSET Counter
    BY Zenon DEF SessionT
  <2> QED BY <2>1, Zenon DEF SessionT, Continues
<1> QED BY <1>1, <1>2, Zenon

-----------------------------------------------------------------------------
(* Type correctness *)

\* The packets the machines make are well formed.
LEMMA MadePackets ==
  /\ \A a \in Attempt, x \in Scid : Open(a, x) \in PacketT
  /\ \A c \in CookieT : VerifyCookie(c) \in PacketT
  /\ \A a \in Attempt, v \in VerifyT : OpenAuth(a, v) \in AuthT
  /\ \A m \in AuthT, n \in Nat : Transcript(m, n) \in TranscriptT
  /\ \A t \in TranscriptT : OpenAck(t) \in PacketT
  /\ \A t \in TranscriptT, n \in Counter, f \in {"client", "server"},
        k \in {"SESSION_ACCEPT", "SESSION_DATA", "CLOSE"} :
        Protected(k, f, t, n) \in PacketT
  /\ \A t \in TranscriptT : Accept(t) \in PacketT
<1>1. \A a \in Attempt, x \in Scid : Open(a, x) \in PacketT
  BY Zenon DEF Open, OpenT, PacketT
<1>2. \A c \in CookieT : VerifyCookie(c) \in PacketT
  BY Zenon DEF VerifyCookie, CookieT, VerifyT, PacketT
<1>3. \A a \in Attempt, v \in VerifyT : OpenAuth(a, v) \in AuthT
  BY Zenon DEF OpenAuth, VerifyT, AuthT
<1>4. \A m \in AuthT, n \in Nat : Transcript(m, n) \in TranscriptT
  BY Zenon DEF Transcript, AuthT, TranscriptT
<1>5. \A t \in TranscriptT : OpenAck(t) \in PacketT
  BY Zenon DEF OpenAck, TranscriptT, AckT, PacketT
<1>6. \A t \in TranscriptT, n \in Counter, f \in {"client", "server"},
         k \in {"SESSION_ACCEPT", "SESSION_DATA", "CLOSE"} :
         Protected(k, f, t, n) \in PacketT
  BY Zenon DEF Protected, TranscriptT, ProtectedT, PacketT
<1>7. \A t \in TranscriptT : Accept(t) \in PacketT
  BY <1>6, Counters, Zenon DEF Accept
<1> QED BY <1>1, <1>2, <1>3, <1>4, <1>5, <1>6, <1>7, Zenon

LEMMA EntryTranscripts ==
  ASSUME NEW e \in PendingT \cup SessionT
  PROVE  TranscriptOf(e) \in TranscriptT /\ TranscriptOf(e).ack = e.ack
BY MadePackets, Zenon DEF TranscriptOf, Transcript, PendingT, SessionT, TranscriptT

LEMMA TypedInit == Init => Typed
<1> SUFFICES ASSUME Init PROVE Typed
  OBVIOUS
<1>1. client \in [Attempt -> ClientT]
  BY ClientValues, Zenon DEF Init
<1>2. cookieKey \in [current : Nat, previous : Nat, rotated : Nat]
  BY Zenon DEF Init
<1>3. bootstraps \in Seq(BootstrapT)
  BY DEF Init
<1>4. /\ 0 <= MaxRestarts /\ 0 <= MaxAcks /\ 0 <= MaxTime
      /\ 1 \in 1 .. MaxRotations + 1
  BY Constants
<1> QED BY <1>1, <1>2, <1>3, <1>4, Zenon DEF Init, Typed

\* A client's step changes its own state and sends packets.
LEMMA ClientChange ==
  ASSUME Typed, NEW a \in Attempt, NEW c \in ClientT,
         client' = [client EXCEPT ![a] = c], net' \subseteq PacketT,
         UNCHANGED <<server, now, taken, bootstraps>>
  PROVE  Typed'
<1>1. client' \in [Attempt -> ClientT]
  BY Zenon DEF Typed
<1> QED BY <1>1, Zenon DEF Typed, server

\* The client's actions.
LEMMA ClientTyped ==
  ASSUME Typed, NEW a \in Attempt,
         \/ \E scid \in Scid : Start(a, scid)
         \/ ClientExpire(a) \/ ClientSend(a) \/ ClientClose(a)
         \/ \E m \in ToClient :
              \/ ReceiveVerify(a, m) \/ RejectVerify(a, m) \/ ReceiveAck(a, m)
              \/ ClientReceiveData(a, m) \/ ClientReceiveClose(a, m),
         client[a].state = "AuthWait" => client[a].auth # None,
         client[a].state = "Established" => client[a].transcript # None
  PROVE  Typed'
<1>0. client[a] \in ClientT /\ client \in [Attempt -> ClientT] /\ now \in Nat
  BY Zenon DEF Typed
<1>a. client[a].next \in Sendable /\ client[a].seen \in SUBSET Counter
  BY <1>0, Zenon DEF ClientT
<1>b. client[a].state = "Established" => client[a].transcript \in TranscriptT
  BY <1>0, Zenon DEF ClientT
<1>c. client[a].state = "AuthWait" => client[a].auth \in AuthT
  BY <1>0, Zenon DEF ClientT
<1>d. ToClient \subseteq net /\ net \subseteq PacketT
  BY Zenon DEF ToClient, Typed
<1>1. CASE \E scid \in Scid : Start(a, scid)
  <2>1. PICK scid \in Scid : Start(a, scid)
    BY <1>1, Zenon
  <2>2. now + OPEN_TIMEOUT \in Deadline
    BY Deadlines, Zenon DEF Typed
  <2>3. [client[a] EXCEPT !.state = "CookieWait", !.scid = scid,
                          !.deadline = now + OPEN_TIMEOUT] \in ClientT
    BY <1>0, <2>2, ClientUpdates, Zenon
  <2>4. net' \subseteq PacketT
    BY <1>d, <2>1, MadePackets, Zenon DEF Start
  <2> QED BY <2>1, <2>3, <2>4, ClientChange, Zenon DEF Start
<1>2. CASE ClientExpire(a)
  BY <1>2, <1>d, ClientValues, ClientChange, Zenon DEF ClientExpire
<1>3. CASE ClientSend(a)
  <2> DEFINE c == [client[a] EXCEPT !.next = client[a].next + 1]
  <2>1. UNCHANGED <<server, now, taken, bootstraps>>
    BY <1>3, Zenon DEF ClientSend
  <2>2. CASE client[a].next > COUNTER_MAX
    BY <1>3, <1>d, <2>1, <2>2, ClientValues, ClientChange, Zenon DEF ClientSend
  <2>3. CASE ~(client[a].next > COUNTER_MAX)
    <3>1. client[a].next \in Counter /\ client[a].next + 1 \in Sendable
      BY <1>a, <2>3, Counters, Zenon
    <3>2. c \in ClientT
      BY <1>0, <3>1, ClientUpdates, Zenon
    <3>3. client' = [client EXCEPT ![a] = c]
      BY <1>0, <1>3, <2>3, Zenon DEF ClientSend
    <3>4. Protected("SESSION_DATA", "client", client[a].transcript, client[a].next) \in PacketT
      BY <1>3, <1>b, <3>1, MadePackets, Zenon DEF ClientSend
    <3>5. net' \subseteq PacketT
      BY <1>3, <1>d, <2>3, <3>4, Zenon DEF ClientSend
    <3> HIDE DEF c
    <3> QED BY <2>1, <3>2, <3>3, <3>5, ClientChange, Zenon
  <2> QED BY <2>2, <2>3, Zenon
<1>4. CASE ClientClose(a)
  <2>1. net' \subseteq PacketT
    BY <1>4, <1>a, <1>b, <1>d, Counters, MadePackets, Zenon DEF ClientClose
  <2> QED BY <1>4, <2>1, ClientValues, ClientChange, Zenon DEF ClientClose
<1>5. ASSUME NEW m \in ToClient, ReceiveVerify(a, m)
      PROVE  Typed'
  <2>1. m \in VerifyT
    BY <1>5, <1>d, PacketKinds, Zenon DEF ReceiveVerify, ValidVerify
  <2>2. OpenAuth(a, m) \in AuthT /\ OpenAuth(a, m) \in PacketT
    BY <2>1, MadePackets, Zenon DEF PacketT
  <2>3. [client[a] EXCEPT !.state = "AuthWait", !.auth = OpenAuth(a, m)] \in ClientT
    BY <1>0, <2>2, ClientUpdates, Zenon
  <2>4. net' \subseteq PacketT
    BY <1>5, <1>d, <2>2, Zenon DEF ReceiveVerify
  <2> QED BY <1>5, <2>3, <2>4, ClientChange, Zenon DEF ReceiveVerify
<1>6. ASSUME NEW m \in ToClient, RejectVerify(a, m)
      PROVE  Typed'
  BY <1>6, <1>d, ClientValues, ClientChange, Zenon DEF RejectVerify
<1>7. ASSUME NEW m \in ToClient, ReceiveAck(a, m)
      PROVE  Typed'
  <2> DEFINE t == Transcript(client[a].auth, m.transcript.ack)
  <2>1. m \in AckT /\ client[a].auth \in AuthT
    BY <1>7, <1>c, <1>d, PacketKinds, Zenon DEF ReceiveAck, ValidAck
  <2>2. m.transcript.ack \in Nat
    BY <2>1, Zenon DEF AckT, TranscriptT
  <2>3. t \in TranscriptT
    BY <2>1, <2>2, MadePackets, Zenon
  <2>4. [Idle EXCEPT !.state = "Established", !.transcript = t,
                     !.next = 2, !.heard = now] \in ClientT
    BY <1>0, <2>3, ClientValues, Zenon
  <2>5. net' \subseteq PacketT
    BY <1>7, <1>d, <2>3, MadePackets, Zenon DEF ReceiveAck
  <2> QED BY <1>7, <2>4, <2>5, ClientChange, Zenon DEF ReceiveAck
<1>8. ASSUME NEW m \in ToClient, ClientReceiveData(a, m)
      PROVE  Typed'
  <2>1. m.counter \in Counter
    BY <1>8, <1>d, PacketKinds, Zenon DEF ClientReceiveData, Opens, ProtectedT
  <2>2. client[a].seen \cup {m.counter} \in SUBSET Counter
    BY <1>a, <2>1, Zenon
  <2>3. [client[a] EXCEPT !.seen = client[a].seen \cup {m.counter}, !.heard = now] \in ClientT
    BY <1>0, <2>2, ClientUpdates, Zenon
  <2> QED BY <1>8, <1>d, <2>3, ClientChange, Zenon DEF ClientReceiveData
<1>9. ASSUME NEW m \in ToClient, ClientReceiveClose(a, m)
      PROVE  Typed'
  BY <1>9, <1>d, ClientValues, ClientChange, Zenon DEF ClientReceiveClose
<1> QED BY <1>1, <1>2, <1>3, <1>4, <1>5, <1>6, <1>7, <1>8, <1>9, Zenon

\* Live entries are entries.
LEMMA LiveEntries == LivePending \subseteq pending /\ LiveEstablished \subseteq established
BY Zenon DEF LivePending, LiveEstablished

\* Taking the session out of either machine.
LEMMA BootstrapTyped ==
  ASSUME Typed,
         \/ \E a \in Attempt : ClientBootstrap(a) /\ client[a].transcript # None
         \/ \E s \in established : ServerBootstrap(s)
  PROVE  Typed'
<1>1. ASSUME NEW a \in Attempt, ClientBootstrap(a), client[a].transcript # None
      PROVE  Typed'
  <2>1. client[a].transcript \in TranscriptT /\ client[a].next \in Sendable
    BY <1>1, Zenon DEF Typed, ClientT
  <2>2. Bootstrap("client", client[a].transcript, client[a].next) \in BootstrapT
    BY <2>1, Zenon DEF Bootstrap, BootstrapT
  <2>3. bootstraps' \in Seq(BootstrapT)
    BY <1>1, <2>2 DEF ClientBootstrap, Typed
  <2>4. client' \in [Attempt -> ClientT]
    BY <1>1, ClientValues, Zenon DEF ClientBootstrap, Typed
  <2> QED BY <1>1, <2>3, <2>4, Zenon DEF ClientBootstrap, Typed, server
<1>2. ASSUME NEW s \in established, ServerBootstrap(s)
      PROVE  Typed'
  <2>1. s \in SessionT
    BY Zenon DEF Typed
  <2>2. TranscriptOf(s) \in TranscriptT /\ s.next \in Sendable
    BY <2>1, EntryTranscripts, Zenon DEF SessionT
  <2>3. Bootstrap("server", TranscriptOf(s), s.next) \in BootstrapT
    BY <2>2, Zenon DEF Bootstrap, BootstrapT
  <2>4. bootstraps' \in Seq(BootstrapT)
    BY <1>2, <2>3 DEF ServerBootstrap, Typed
  <2> QED BY <1>2, <2>4, Zenon DEF ServerBootstrap, Typed
<1> QED BY <1>1, <1>2, Zenon

\* The server's handshake.
LEMMA HandshakeTyped ==
  ASSUME Typed,
         \/ \E m \in net, b \in Binding : ReceiveOpen(m, b) \/ ReceiveOpenAuth(m, b)
         \/ \E m \in net, p \in pending : ReceiveAccept(p, m)
  PROVE  Typed'
<1>0. /\ net \subseteq PacketT /\ now \in Nat /\ boot \in Nat /\ acks \in Nat
      /\ pending \subseteq PendingT /\ established \subseteq SessionT
  BY Zenon DEF Typed
<1>1. ASSUME NEW m \in net, NEW b \in Binding, ReceiveOpen(m, b)
      PROVE  Typed'
  <2>1. m \in OpenT
    BY <1>0, <1>1, PacketKinds, Zenon DEF ReceiveOpen
  <2>2. cookieKey.current \in Nat
    BY Zenon DEF Typed
  <2>3. now \div BUCKET \in Nat
    BY <1>0, Constants
  <2>4. Cookie(m, b, cookieKey.current, now \div BUCKET) \in CookieT
    BY <1>0, <2>1, <2>2, <2>3, Zenon DEF Cookie, CookieT, OpenT
  <2>5. net' \subseteq PacketT
    BY <1>0, <1>1, <2>4, MadePackets, Zenon DEF ReceiveOpen
  <2> QED BY <1>1, <2>5, Zenon DEF ReceiveOpen, Typed, server
<1>2. ASSUME NEW m \in net, NEW b \in Binding, ReceiveOpenAuth(m, b)
      PROVE  Typed'
  <2>1. m \in AuthT
    BY <1>0, <1>2, PacketKinds, Zenon DEF ReceiveOpenAuth
  <2>2. /\ NextAck(m) \in Nat \ {0} /\ NextAck(m) \in Nat
        /\ acks' \in Nat /\ acks' <= MaxAcks
    BY <1>0, <1>2, Constants DEF ReceiveOpenAuth, NextAck
  <2>3. now + PENDING_TIMEOUT \in Nat
    BY <1>0, Constants
  <2>4. [scid |-> m.scid, opening |-> m, binding |-> b, ack |-> NextAck(m),
         deadline |-> now + PENDING_TIMEOUT] \in PendingT
    BY <2>1, <2>2, <2>3, Zenon DEF PendingT, AuthT
  <2>5. pending' \subseteq PendingT /\ established' \subseteq SessionT
    BY <1>0, <1>2, <2>4, LiveEntries, Zenon DEF ReceiveOpenAuth
  <2>6. net' \subseteq PacketT
    BY <1>0, <1>2, <2>1, <2>2, MadePackets, Zenon DEF ReceiveOpenAuth
  <2> QED BY <1>2, <2>2, <2>5, <2>6, Zenon DEF ReceiveOpenAuth, Typed
<1>3. ASSUME NEW m \in net, NEW p \in pending, ReceiveAccept(p, m)
      PROVE  Typed'
  <2>1. m.counter \in Counter /\ p \in PendingT
    BY <1>0, <1>3, PacketKinds, Zenon DEF ReceiveAccept, ProtectedT
  <2>2. [scid |-> p.scid, opening |-> p.opening, binding |-> p.binding,
         ack |-> p.ack, lastActive |-> now, heard |-> now,
         next |-> 1, seen |-> {m.counter}] \in SessionT
    BY <1>0, <2>1, Counters, Zenon DEF PendingT, SessionT
  <2>3. pending' \subseteq PendingT /\ established' \subseteq SessionT
    BY <1>0, <1>3, <2>2, LiveEntries, Zenon DEF ReceiveAccept
  <2>4. TranscriptOf(p) \in TranscriptT
    BY <2>1, EntryTranscripts, Zenon
  <2>5. taken' \subseteq TranscriptT \X Counter
    BY <1>3, <2>1, <2>4 DEF ReceiveAccept, Typed
  <2> QED BY <1>3, <2>3, <2>5, Zenon DEF ReceiveAccept, Typed
<1> QED BY <1>1, <1>2, <1>3, Zenon

\* The server's protected traffic, timers and keys.
LEMMA TrafficTyped ==
  ASSUME Typed,
         \/ \E m \in net, s \in established :
              ReceiveData(s, m) \/ ReceiveControl(s, m) \/ ServerReceiveClose(s, m)
         \/ \E s \in established : ServerSend(s) \/ ServerClose(s)
         \/ ServerExpire \/ RotateKey \/ Restart \/ Pass
  PROVE  Typed'
<1>0. /\ net \subseteq PacketT /\ now \in Nat /\ boot \in Nat /\ cookieKey.current \in Nat
      /\ pending \subseteq PendingT /\ established \subseteq SessionT
  BY Zenon DEF Typed
<1>1. ASSUME NEW m \in net, NEW s \in established, NEW l \in Nat,
             m.type \in {"SESSION_DATA", "CLOSE"}
      PROVE  /\ [s EXCEPT !.seen = @ \cup {m.counter}, !.lastActive = l, !.heard = now]
                  \in SessionT
             /\ <<m.transcript, m.counter>> \in TranscriptT \X Counter
  <2>1. m \in ProtectedT /\ s \in SessionT
    BY <1>0, <1>1, PacketKinds, Zenon
  <2>2. m.counter \in Counter /\ m.transcript \in TranscriptT
    BY <2>1, Zenon DEF ProtectedT
  <2>3. Continues(s, [s EXCEPT !.seen = @ \cup {m.counter}, !.lastActive = l, !.heard = now])
    BY <1>0, <2>1, <2>2, SessionUpdates, Zenon
  <2> QED BY <2>2, <2>3, Zenon DEF Continues
<1>2. ASSUME NEW m \in net, NEW s \in established,
             ReceiveData(s, m) \/ ReceiveControl(s, m)
      PROVE  Typed'
  <2>1. s.lastActive \in Nat
    BY <1>0, Zenon DEF SessionT
  <2>2. PICK l \in Nat : Take(s, m, l)
    BY <1>0, <1>2, <2>1, Zenon DEF ReceiveData, ReceiveControl
  <2>3. m.type = "SESSION_DATA"
    BY <1>2, Zenon DEF ReceiveData, ReceiveControl, Authentic
  <2>a. [s EXCEPT !.seen = @ \cup {m.counter}, !.lastActive = l, !.heard = now] \in SessionT
    BY <1>1, <2>3, Zenon
  <2>b. /\ pending' = LivePending
        /\ established' = (LiveEstablished \ {s}) \cup
             {[s EXCEPT !.seen = @ \cup {m.counter}, !.lastActive = l, !.heard = now]}
    BY <2>2, Zenon DEF Take
  <2>4. pending' \subseteq PendingT /\ established' \subseteq SessionT
    BY <1>0, <2>a, <2>b, LiveEntries, Zenon
  <2>5. taken' \subseteq TranscriptT \X Counter
    BY <1>1, <2>1, <2>2, <2>3, Zenon DEF Take, Typed
  <2> QED BY <2>2, <2>4, <2>5, Zenon DEF Take, Typed
<1>3. ASSUME NEW m \in net, NEW s \in established, ServerReceiveClose(s, m)
      PROVE  Typed'
  <2>1. taken' \subseteq TranscriptT \X Counter
    BY <1>0, <1>1, <1>3, Zenon DEF ServerReceiveClose, Authentic, Typed
  <2>2. pending' \subseteq PendingT /\ established' \subseteq SessionT
    BY <1>0, <1>3, LiveEntries, Zenon DEF ServerReceiveClose
  <2> QED BY <1>3, <2>1, <2>2, Zenon DEF ServerReceiveClose, Typed
<1>4. ASSUME NEW s \in established, ~(s.next > COUNTER_MAX)
      PROVE  /\ s.next \in Counter /\ TranscriptOf(s) \in TranscriptT
             /\ [s EXCEPT !.next = @ + 1] \in SessionT
  <2>1. s \in SessionT
    BY <1>0, Zenon
  <2>2. s.next \in Counter /\ s.next <= COUNTER_MAX
    BY <1>4, <2>1, Constants DEF SessionT, Sendable, Counter
  <2>3. Continues(s, [s EXCEPT !.next = @ + 1])
    BY <2>1, <2>2, SessionUpdates, Zenon
  <2> QED BY <2>1, <2>2, <2>3, EntryTranscripts, Zenon DEF Continues
<1>5. ASSUME NEW s \in established, ServerSend(s)
      PROVE  Typed'
  <2>1. net' \subseteq PacketT
    <3>1. ~(s.next > COUNTER_MAX) =>
            Protected("SESSION_DATA", "server", TranscriptOf(s), s.next) \in PacketT
      BY <1>4, MadePackets, Zenon
    <3> QED BY <1>0, <1>5, <3>1, Zenon DEF ServerSend
  <2>2. established' \subseteq SessionT
    BY <1>0, <1>4, <1>5, Zenon DEF ServerSend
  <2> QED BY <1>5, <2>1, <2>2, Zenon DEF ServerSend, Typed
<1>6. ASSUME NEW s \in established, ServerClose(s)
      PROVE  Typed'
  <2>1. net' \subseteq PacketT
    BY <1>0, <1>4, <1>6, MadePackets, Zenon DEF ServerClose
  <2> QED BY <1>6, <2>1, Zenon DEF ServerClose, Typed
<1>7. CASE ServerExpire
  BY <1>7, LiveEntries, Zenon DEF ServerExpire, Typed
<1>8. CASE RotateKey
  <2>1. cookieKey' \in [current : Nat, previous : Nat, rotated : Nat]
    <3>1. cookieKey.current \in Nat /\ cookieKey.current + 1 \in Nat /\ now \in Nat
      BY <1>0 DEF Typed
    <3> QED BY <1>8, <3>1, Zenon DEF RotateKey
  <2>2. cookieKey'.current \in 1 .. MaxRotations + 1
    BY <1>0, <1>8, Constants DEF RotateKey
  <2> QED BY <1>8, <2>1, <2>2, Zenon DEF RotateKey, Typed
<1>9. CASE Restart
  <2>1. cookieKey' \in [current : Nat, previous : Nat, rotated : Nat] /\ boot' \in Nat
    BY <1>0, <1>9 DEF Restart
  <2>2. cookieKey'.current \in 1 .. MaxRotations + 1 /\ boot' <= MaxRestarts
    BY <1>0, <1>9, Constants DEF Restart
  <2> QED BY <1>9, <2>1, <2>2, Zenon DEF Restart, Typed
<1>10. CASE Pass
  <2>1. now' \in Nat /\ now' <= MaxTime
    BY <1>0, <1>10, Constants DEF Pass
  <2> QED BY <1>10, <2>1, Zenon DEF Pass, Typed, server
<1> QED BY <1>2, <1>3, <1>5, <1>6, <1>7, <1>8, <1>9, <1>10, Zenon

-----------------------------------------------------------------------------
(* The steps, as far as the session tables can tell them apart *)

\* No entry is added or changed, and no packet accepted.
Shrinks ==
  /\ pending' \subseteq pending /\ established' \subseteq established
  /\ acks' = acks /\ taken' = taken /\ net \subseteq net'

\* The session s goes on as t, or is dropped, perhaps after taking a packet.
Updates(s, t) ==
  /\ Continues(s, t)
  /\ pending' \subseteq pending /\ established' \subseteq (established \ {s}) \cup {t}
  /\ acks' = acks /\ net \subseteq net'
  /\ taken' = taken \/ \E c \in t.seen : taken' = taken \cup {<<TranscriptOf(s), c>>}
  /\ \/ t.lastActive = s.lastActive /\ t.heard = s.heard
     \/ t.lastActive \in {s.lastActive, now} /\ t.heard = now

LEMMA StepKinds ==
  ASSUME Typed, [Next]_vars
  PROVE  \/ Shrinks
         \/ \E s \in established, t \in SessionT : Updates(s, t)
         \/ \E m \in net, b \in Binding : ReceiveOpenAuth(m, b)
         \/ \E m \in net, p \in pending : ReceiveAccept(p, m)
<1>0. /\ established \subseteq SessionT /\ net \subseteq PacketT /\ now \in Nat
      /\ LivePending \subseteq pending /\ LiveEstablished \subseteq established
  BY LiveEntries, Zenon DEF Typed
<1>1. ASSUME NEW a \in Attempt,
             \/ \E scid \in Scid : Start(a, scid)
             \/ ClientExpire(a) \/ ClientSend(a) \/ ClientClose(a) \/ ClientBootstrap(a)
      PROVE  Shrinks
  BY <1>1, Zenon DEF Start, ClientExpire, ClientSend, ClientClose, ClientBootstrap, Shrinks, server
<1>2. ASSUME NEW a \in Attempt, NEW m \in ToClient,
             \/ ReceiveVerify(a, m) \/ RejectVerify(a, m) \/ ReceiveAck(a, m)
             \/ ClientReceiveData(a, m) \/ ClientReceiveClose(a, m)
      PROVE  Shrinks
  BY <1>2, Zenon DEF ReceiveVerify, RejectVerify, ReceiveAck, ClientReceiveData,
              ClientReceiveClose, Shrinks, server
<1>3. ASSUME NEW m \in net, NEW b \in Binding, ReceiveOpen(m, b)
      PROVE  Shrinks
  BY <1>3, Zenon DEF ReceiveOpen, Shrinks, server
<1>4. ASSUME NEW s \in established, NEW m \in net, NEW l \in Nat,
             m.type \in {"SESSION_DATA", "CLOSE"}, m.transcript = TranscriptOf(s)
      PROVE  LET t == [s EXCEPT !.seen = @ \cup {m.counter}, !.lastActive = l, !.heard = now]
             IN  t \in SessionT /\ Continues(s, t) /\ m.counter \in t.seen
  <2>1. m.counter \in Counter /\ s \in SessionT
    BY <1>0, <1>4, PacketKinds, Zenon DEF ProtectedT
  <2>2. LET t == [s EXCEPT !.seen = @ \cup {m.counter}, !.lastActive = l, !.heard = now]
        IN  Continues(s, t) /\ m.counter \in t.seen
    BY <1>0, <2>1, SessionUpdates, Zenon
  <2> QED BY <2>2, Zenon DEF Continues
<1>5. ASSUME NEW m \in net, NEW s \in established,
             ReceiveData(s, m) \/ ReceiveControl(s, m) \/ ServerReceiveClose(s, m)
      PROVE  \E t \in SessionT : Updates(s, t)
  <2>1. s.lastActive \in Nat
    BY <1>0, Zenon DEF SessionT
  <2>2. PICK l \in Nat : /\ l \in {s.lastActive, now}
                         /\ Take(s, m, l) \/ ServerReceiveClose(s, m)
    BY <1>0, <1>5, <2>1, Zenon DEF ReceiveData, ReceiveControl
  <2> DEFINE t == [s EXCEPT !.seen = @ \cup {m.counter}, !.lastActive = l, !.heard = now]
  <2>3. m.type \in {"SESSION_DATA", "CLOSE"} /\ m.transcript = TranscriptOf(s)
    BY <1>5, Zenon DEF ReceiveData, ReceiveControl, ServerReceiveClose, Authentic
  <2>4. t \in SessionT /\ Continues(s, t) /\ m.counter \in t.seen
    BY <1>4, <2>3, Zenon
  <2>a. t.lastActive = l /\ t.heard = now
    <3>1. s \in SessionT
      BY <1>0, Zenon
    <3> QED BY <3>1, Zenon DEF SessionT
  <2>5. /\ pending' = LivePending /\ acks' = acks /\ net' = net
        /\ established' \subseteq (LiveEstablished \ {s}) \cup {t}
        /\ taken' = taken \cup {<<m.transcript, m.counter>>}
    BY <2>2, Zenon DEF Take, ServerReceiveClose
  <2> HIDE DEF t
  <2>6. Updates(s, t)
    BY <1>0, <2>2, <2>3, <2>4, <2>a, <2>5, Zenon DEF Updates
  <2> QED BY <2>4, <2>6, Zenon
<1>6. ASSUME NEW s \in established, ServerSend(s)
      PROVE  Shrinks \/ \E t \in SessionT : Updates(s, t)
  <2> DEFINE t == [s EXCEPT !.next = @ + 1]
  <2>1. CASE s.next > COUNTER_MAX
    BY <1>6, <2>1, Zenon DEF ServerSend, Shrinks
  <2>2. CASE ~(s.next > COUNTER_MAX)
    <3>a. s \in SessionT /\ s.next <= COUNTER_MAX
      BY <1>0, <2>2, Constants DEF SessionT, Sendable
    <3>b. Continues(s, t) /\ t.lastActive = s.lastActive /\ t.heard = s.heard
      BY <3>a, SessionUpdates, Zenon DEF SessionT
    <3>1. /\ established' = (established \ {s}) \cup {t} /\ net \subseteq net'
          /\ pending' = pending /\ acks' = acks /\ taken' = taken
      BY <1>6, <2>2, Zenon DEF ServerSend
    <3> HIDE DEF t
    <3>2. Updates(s, t)
      BY <3>b, <3>1, Zenon DEF Updates
    <3> QED BY <3>b, <3>2, Zenon DEF Continues
  <2> QED BY <2>1, <2>2, Zenon
<1>7. ASSUME NEW s \in established, ServerClose(s) \/ ServerBootstrap(s)
      PROVE  Shrinks
  BY <1>7, Zenon DEF ServerClose, ServerBootstrap, Shrinks
<1>8. CASE ServerExpire \/ RotateKey \/ Restart \/ Pass \/ UNCHANGED vars
  BY <1>0, <1>8, Zenon DEF ServerExpire, RotateKey, Restart, Pass, Shrinks, vars, server
<1> QED BY <1>1, <1>2, <1>3, <1>5, <1>6, <1>7, <1>8, Zenon DEF Next

-----------------------------------------------------------------------------
(* The inductive invariant *)

\* A packet carries what its sender put into it, and an OPEN_AUTH a cookie that
\* the server has sent out.
PacketInv ==
  \A m \in net :
    /\ m.type = "OPEN_AUTH" => VerifyCookie(m.cookie) \in net
    /\ m.type = "VERIFY_COOKIE" => m = VerifyCookie(m.cookie)
    /\ m.type = "OPEN_ACK" => m = OpenAck(m.transcript)
    /\ m.type = "SESSION_ACCEPT" => m = Accept(m.transcript)

\* A client that has come so far holds its own opening or transcript.
ClientInv ==
  \A a \in Attempt :
    /\ client[a].state = "AuthWait" => client[a].auth # None /\ client[a].auth.attempt = a
    /\ client[a].state = "Established" =>
         /\ client[a].transcript # None /\ client[a].transcript.attempt = a
         /\ OpenAck(client[a].transcript) \in net
         /\ Accept(client[a].transcript) \in net

\* Every entry has an acknowledgement of its own, already made.
AckInv ==
  /\ \A e \in pending \cup established : e.ack <= acks
  /\ \A e, f \in pending \cup established : e.ack = f.ack => e = f

Finished == \A s \in established : Accept(TranscriptOf(s)) \in net

\* An accepted packet belongs to no pending entry, and the session that has
\* its transcript, if any is left, has marked it.
TakenInv ==
  \A x \in taken :
    /\ x[1].ack <= acks
    /\ \A p \in pending : p.ack # x[1].ack
    /\ \A s \in established : TranscriptOf(s) = x[1] => x[2] \in s.seen

\* Whoever handed out the bootstrap b has no entry of its transcript any more.
Spent(b, entries, made, clients) ==
  /\ b.end = "server" => /\ b.transcript.ack <= made
                         /\ \A e \in entries : e.ack # b.transcript.ack
  /\ b.end = "client" => clients[b.transcript.attempt].state = "Released"

BootstrapInv ==
  \A i \in DOMAIN bootstraps : Spent(bootstraps[i], pending \cup established, acks, client)

IInv ==
  /\ Typed /\ PacketInv /\ ClientInv
  /\ AckInv /\ OneEntryPerScid /\ RoutableBinding /\ Finished
  /\ TakenInv
  /\ BootstrapInv /\ BootstrapOnce

LEMMA InitIInv == Init => IInv
<1> SUFFICES ASSUME Init PROVE IInv
  OBVIOUS
<1>1. Typed
  BY TypedInit, Zenon
<1>2. ClientInv
  <2>1. \A a \in Attempt : client[a].state = "Idle"
    BY ClientValues, Zenon DEF Init
  <2> QED BY <2>1, Zenon DEF ClientInv
<1>3. BootstrapInv /\ BootstrapOnce
  <2>1. DOMAIN bootstraps = {}
    BY DEF Init
  <2> QED BY <2>1, Zenon DEF BootstrapInv, BootstrapOnce
<1>4. PacketInv /\ AckInv /\ OneEntryPerScid /\ RoutableBinding /\ Finished /\ TakenInv
  BY Zenon DEF Init, PacketInv, AckInv, OneEntryPerScid, RoutableBinding, Finished, TakenInv
<1> QED BY <1>1, <1>2, <1>3, <1>4, Zenon DEF IInv

LEMMA TypedStep == ASSUME Typed, ClientInv, [Next]_vars PROVE Typed'
<1>1. ASSUME NEW a \in Attempt
      PROVE  /\ client[a].state = "AuthWait" => client[a].auth # None
             /\ client[a].state = "Established" => client[a].transcript # None
  BY Zenon DEF ClientInv
<1>2. ASSUME NEW a \in Attempt, ClientBootstrap(a)
      PROVE  client[a].transcript # None
  BY <1>1, <1>2, Zenon DEF ClientBootstrap
<1>3. CASE UNCHANGED vars
  BY <1>3, Zenon DEF vars, server, Typed
<1> QED BY <1>1, <1>2, <1>3, ClientTyped, BootstrapTyped, HandshakeTyped, TrafficTyped, Zenon DEF Next

\* Packets that say nothing about a cookie or a transcript of others.
LEMMA PacketAdded ==
  ASSUME PacketInv, NEW x, net' = net \cup {x},
         x.type = "OPEN_AUTH" => VerifyCookie(x.cookie) \in net,
         x.type = "VERIFY_COOKIE" => x = VerifyCookie(x.cookie),
         x.type = "OPEN_ACK" => x = OpenAck(x.transcript),
         x.type = "SESSION_ACCEPT" => x = Accept(x.transcript)
  PROVE  PacketInv'
BY Zenon DEF PacketInv

LEMMA ProtectedAdded ==
  ASSUME PacketInv, NEW k \in {"SESSION_DATA", "CLOSE"}, NEW f, NEW t, NEW n,
         net' = net \cup {Protected(k, f, t, n)}
  PROVE  PacketInv'
<1>1. Protected(k, f, t, n).type = k
  BY Zenon DEF Protected
<1> QED BY <1>1, PacketAdded, Zenon

LEMMA PacketStep == ASSUME PacketInv, [Next]_vars PROVE PacketInv'
<1>1. CASE net' = net
  BY <1>1, Zenon DEF PacketInv
<1>2. ASSUME NEW a \in Attempt, NEW scid \in Scid, Start(a, scid)
      PROVE  PacketInv'
  <2>1. Open(a, scid).type = "OPEN"
    BY Zenon DEF Open
  <2> QED BY <1>2, <2>1, PacketAdded, Zenon DEF Start
<1>3. ASSUME NEW a \in Attempt, ClientSend(a)
      PROVE  PacketInv'
  BY <1>1, <1>3, ProtectedAdded, Zenon DEF ClientSend
<1>4. ASSUME NEW a \in Attempt, ClientClose(a)
      PROVE  PacketInv'
  <2>1. CASE client[a].next > COUNTER_MAX
    BY <1>1, <1>4, <2>1, Zenon DEF ClientClose
  <2>2. CASE ~(client[a].next > COUNTER_MAX)
    BY <1>4, <2>2, ProtectedAdded, Zenon DEF ClientClose
  <2> QED BY <2>1, <2>2, Zenon
<1>5. ASSUME NEW a \in Attempt, NEW m \in ToClient, ReceiveVerify(a, m)
      PROVE  PacketInv'
  <2>1. m \in net /\ m.type = "VERIFY_COOKIE"
    BY <1>5, Zenon DEF ToClient, ReceiveVerify, ValidVerify
  <2>2. VerifyCookie(m.cookie) \in net
    BY <2>1, Zenon DEF PacketInv
  <2>3. OpenAuth(a, m).type = "OPEN_AUTH" /\ OpenAuth(a, m).cookie = m.cookie
    BY Zenon DEF OpenAuth
  <2> QED BY <1>5, <2>2, <2>3, PacketAdded, Zenon DEF ReceiveVerify
<1>6. ASSUME NEW a \in Attempt, NEW m \in ToClient, ReceiveAck(a, m)
      PROVE  PacketInv'
  <2> DEFINE t == Transcript(client[a].auth, m.transcript.ack)
  <2>1. Accept(t).type = "SESSION_ACCEPT" /\ Accept(t).transcript = t
    BY Zenon DEF Accept, Protected
  <2>2. net' = net \cup {Accept(t)}
    BY <1>6, Zenon DEF ReceiveAck
  <2> HIDE DEF t
  <2> QED BY <2>1, <2>2, PacketAdded, Zenon
<1>7. ASSUME NEW m \in net, NEW b \in Binding, ReceiveOpen(m, b)
      PROVE  PacketInv'
  <2> DEFINE c == Cookie(m, b, cookieKey.current, now \div BUCKET)
  <2>1. VerifyCookie(c).type = "VERIFY_COOKIE" /\ VerifyCookie(c).cookie = c
    BY Zenon DEF VerifyCookie
  <2>2. net' = net \cup {VerifyCookie(c)}
    BY <1>7, Zenon DEF ReceiveOpen
  <2> HIDE DEF c
  <2> QED BY <2>1, <2>2, PacketAdded, Zenon
<1>8. ASSUME NEW m \in net, NEW b \in Binding, ReceiveOpenAuth(m, b)
      PROVE  PacketInv'
  <2> DEFINE t == Transcript(m, NextAck(m))
  <2>1. OpenAck(t).type = "OPEN_ACK" /\ OpenAck(t).transcript = t
    BY Zenon DEF OpenAck
  <2>2. net' = net \cup {OpenAck(t)}
    BY <1>8, Zenon DEF ReceiveOpenAuth
  <2> HIDE DEF t
  <2> QED BY <2>1, <2>2, PacketAdded, Zenon
<1>9. ASSUME NEW s \in established, ServerSend(s)
      PROVE  PacketInv'
  BY <1>1, <1>9, ProtectedAdded, Zenon DEF ServerSend
<1>10. ASSUME NEW s \in established, ServerClose(s)
       PROVE  PacketInv'
  <2>1. CASE s.next > COUNTER_MAX
    BY <1>1, <1>10, <2>1, Zenon DEF ServerClose
  <2>2. CASE ~(s.next > COUNTER_MAX)
    BY <1>10, <2>2, ProtectedAdded, Zenon DEF ServerClose
  <2> QED BY <2>1, <2>2, Zenon
<1>11. ASSUME NEW a \in Attempt,
              \/ ClientExpire(a) \/ ClientBootstrap(a)
              \/ \E m \in ToClient :
                   RejectVerify(a, m) \/ ClientReceiveData(a, m) \/ ClientReceiveClose(a, m)
       PROVE  net' = net
  BY <1>11, Zenon DEF ClientExpire, ClientBootstrap, RejectVerify, ClientReceiveData,
               ClientReceiveClose
<1>12. ASSUME \/ \E m \in net, p \in pending : ReceiveAccept(p, m)
              \/ \E m \in net, s \in established :
                   ReceiveData(s, m) \/ ReceiveControl(s, m) \/ ServerReceiveClose(s, m)
              \/ \E s \in established : ServerBootstrap(s)
              \/ ServerExpire \/ RotateKey \/ Restart \/ Pass \/ UNCHANGED vars
       PROVE  net' = net
  BY <1>12, Zenon DEF ReceiveAccept, ReceiveData, ReceiveControl, Take, ServerReceiveClose,
               ServerBootstrap, ServerExpire, RotateKey, Restart, Pass, vars
<1> QED BY <1>1, <1>2, <1>3, <1>4, <1>5, <1>6, <1>7, <1>8, <1>9, <1>10, <1>11, <1>12, Zenon DEF Next

\* The network keeps every packet.
LEMMA NetGrows == ASSUME [Next]_vars, Typed PROVE net \subseteq net'
BY StepKinds, Zenon DEF Shrinks, Updates, ReceiveOpenAuth, ReceiveAccept

\* How a client's state may change; a released client stays released.
ClientMoves(a) ==
  \/ client'[a] = client[a]
  \/ client[a].state # "Released" /\ client'[a].state \in {"CookieWait", "Released"}
  \/ /\ client[a].state # "Released" /\ client'[a].state = "AuthWait"
     /\ client'[a].auth # None /\ client'[a].auth.attempt = a
  \/ /\ client[a].state = "AuthWait" /\ client'[a].state = "Established"
     /\ client'[a].transcript # None
     /\ client'[a].transcript.attempt = client[a].auth.attempt
     /\ OpenAck(client'[a].transcript) \in net'
     /\ Accept(client'[a].transcript) \in net'
  \/ /\ client[a].state = "Established" /\ client'[a].state = "Established"
     /\ client'[a].transcript = client[a].transcript

LEMMA ClientSteps ==
  ASSUME Typed, PacketInv, ClientInv, [Next]_vars, NEW a \in Attempt
  PROVE  ClientMoves(a)
<1>0. client \in [Attempt -> ClientT] /\ client[a] \in ClientT /\ now \in Nat
  BY Zenon DEF Typed
<1>1. ASSUME NEW b \in Attempt, NEW c, client' = [client EXCEPT ![b] = c], b # a
      PROVE  ClientMoves(a)
  BY <1>0, <1>1, Zenon DEF ClientMoves
<1>2. ASSUME NEW c, client' = [client EXCEPT ![a] = c]
      PROVE  client'[a] = c
  BY <1>0, <1>2, Zenon
<1>3. ASSUME NEW b \in Attempt, NEW scid \in Scid, Start(b, scid)
      PROVE  ClientMoves(a)
  <2> DEFINE c == [client[b] EXCEPT !.state = "CookieWait", !.scid = scid,
                                    !.deadline = now + OPEN_TIMEOUT]
  <2>1. client' = [client EXCEPT ![b] = c] /\ client[b].state = "Idle"
    BY <1>3, Zenon DEF Start
  <2>2. now + OPEN_TIMEOUT \in Deadline /\ client[b] \in ClientT
    BY <1>0, Deadlines, Zenon DEF Typed
  <2>3. c.state = "CookieWait"
    BY <2>2, Zenon DEF ClientT
  <2> HIDE DEF c
  <2> QED BY <1>1, <1>2, <2>1, <2>3, Zenon DEF ClientMoves
<1>4. ASSUME NEW b \in Attempt, client' = [client EXCEPT ![b] = Released],
             client[b].state # "Released"
      PROVE  ClientMoves(a)
  BY <1>1, <1>2, <1>4, ClientValues, Zenon DEF ClientMoves
<1>5. ASSUME NEW b \in Attempt, ClientSend(b)
      PROVE  ClientMoves(a)
  <2> DEFINE c == [client[b] EXCEPT !.next = client[b].next + 1]
  <2>1. client[b] \in ClientT
    BY <1>0, Zenon
  <2>2. c.state = client[b].state /\ c.transcript = client[b].transcript
    BY <2>1, Zenon DEF ClientT
  <2>3. [client EXCEPT ![b].next = @ + 1] = [client EXCEPT ![b] = c]
    BY <1>0, Zenon
  <2>4. client' = [client EXCEPT ![b] = Released] \/ client' = [client EXCEPT ![b] = c]
    BY <1>5, <2>3, Zenon DEF ClientSend
  <2>5. client[b].state = "Established"
    BY <1>5, Zenon DEF ClientSend
  <2> HIDE DEF c
  <2> QED BY <1>1, <1>2, <1>4, <2>2, <2>4, <2>5, Zenon DEF ClientMoves
<1>6. ASSUME NEW b \in Attempt, NEW m \in ToClient, ReceiveVerify(b, m)
      PROVE  ClientMoves(a)
  <2> DEFINE c == [client[b] EXCEPT !.state = "AuthWait", !.auth = OpenAuth(b, m)]
  <2>1. m \in net /\ m.type = "VERIFY_COOKIE"
    BY <1>6, Zenon DEF ToClient, ReceiveVerify, ValidVerify
  <2>2. OpenAuth(b, m) \in AuthT /\ OpenAuth(b, m).attempt = b
    BY <2>1, PacketKinds, MadePackets, Zenon DEF Typed, OpenAuth
  <2>3. OpenAuth(b, m) # None
    BY <2>2 DEF None, AuthT
  <2>a. client[b] \in ClientT
    BY <1>0, Zenon
  <2>4. c.state = "AuthWait" /\ c.auth = OpenAuth(b, m)
    BY <2>a, Zenon DEF ClientT
  <2>5. client' = [client EXCEPT ![b] = c] /\ client[b].state = "CookieWait"
    BY <1>6, Zenon DEF ReceiveVerify
  <2> HIDE DEF c
  <2> QED BY <1>1, <1>2, <2>2, <2>3, <2>4, <2>5, Zenon DEF ClientMoves
<1>7. ASSUME NEW b \in Attempt, NEW m \in ToClient, ReceiveAck(b, m)
      PROVE  ClientMoves(a)
  <2> DEFINE t == Transcript(client[b].auth, m.transcript.ack)
             c == [Idle EXCEPT !.state = "Established", !.transcript = t,
                               !.next = 2, !.heard = now]
  <2>1. m \in net /\ m.type = "OPEN_ACK" /\ client[b].state = "AuthWait"
        /\ m.transcript = t
    BY <1>7, Zenon DEF ToClient, ReceiveAck, ValidAck
  <2>2. client[b].auth \in AuthT /\ m \in AckT
    BY <1>0, <2>1, PacketKinds, Zenon DEF Typed, ClientInv, ClientT
  <2>3. m.transcript.ack \in Nat
    BY <2>2, Zenon DEF AckT, TranscriptT
  <2>4. t \in TranscriptT /\ t.attempt = client[b].auth.attempt
    BY <2>2, <2>3, MadePackets, Zenon DEF Transcript
  <2>5. t # None
    BY <2>4 DEF None, TranscriptT
  <2>6. c.state = "Established" /\ c.transcript = t
    BY <1>0, <2>4, ClientValues, Zenon
  <2>7. OpenAck(t) \in net
    BY <2>1, Zenon DEF PacketInv
  <2>8. client' = [client EXCEPT ![b] = c] /\ net' = net \cup {Accept(t)}
    BY <1>7, Zenon DEF ReceiveAck
  <2> HIDE DEF c, t
  <2>9. CASE b = a
    <3>1. client'[a] = c
      BY <1>2, <2>8, <2>9, Zenon
    <3>2. OpenAck(t) \in net' /\ Accept(t) \in net'
      BY <2>7, <2>8, Zenon
    <3> QED BY <2>1, <2>4, <2>5, <2>6, <2>9, <3>1, <3>2, Zenon DEF ClientMoves
  <2>10. CASE b # a
    BY <1>1, <2>8, <2>10, Zenon
  <2> QED BY <2>9, <2>10, Zenon
<1>8. ASSUME NEW b \in Attempt, NEW m \in ToClient, ClientReceiveData(b, m)
      PROVE  ClientMoves(a)
  <2> DEFINE c == [client[b] EXCEPT !.seen = client[b].seen \cup {m.counter}, !.heard = now]
  <2>1. m \in net /\ m.type = "SESSION_DATA" /\ client[b].state = "Established"
    BY <1>8, Zenon DEF ToClient, ClientReceiveData, Opens
  <2>2. m.counter \in Counter
    BY <2>1, PacketKinds, Zenon DEF Typed, ProtectedT
  <2>3. client[b] \in ClientT /\ client[b].seen \cup {m.counter} \in SUBSET Counter
    BY <1>0, <2>2, Zenon DEF ClientT
  <2>4. c.state = client[b].state /\ c.transcript = client[b].transcript
    BY <2>3, Zenon DEF ClientT
  <2>5. client' = [client EXCEPT ![b] = c]
    BY <1>8, Zenon DEF ClientReceiveData
  <2> HIDE DEF c
  <2> QED BY <1>1, <1>2, <2>1, <2>4, <2>5, Zenon DEF ClientMoves
<1>9. ASSUME NEW b \in Attempt,
             \/ ClientExpire(b) \/ ClientClose(b) \/ ClientBootstrap(b)
             \/ \E m \in ToClient : RejectVerify(b, m) \/ ClientReceiveClose(b, m)
      PROVE  ClientMoves(a)
  BY <1>4, <1>9, Zenon DEF ClientExpire, Expires, ClientClose, ClientBootstrap, RejectVerify,
                    ClientReceiveClose, Opens
<1>10. CASE client' = client
  BY <1>10, Zenon DEF ClientMoves
<1>11. ASSUME \/ \E m \in net, b \in Binding : ReceiveOpen(m, b) \/ ReceiveOpenAuth(m, b)
              \/ \E m \in net, p \in pending : ReceiveAccept(p, m)
              \/ \E m \in net, s \in established :
                   ReceiveData(s, m) \/ ReceiveControl(s, m) \/ ServerReceiveClose(s, m)
              \/ \E s \in established : ServerSend(s) \/ ServerClose(s) \/ ServerBootstrap(s)
              \/ ServerExpire \/ RotateKey \/ Restart \/ Pass \/ UNCHANGED vars
       PROVE  client' = client
  BY <1>11, Zenon DEF ReceiveOpen, ReceiveOpenAuth, ReceiveAccept, ReceiveData, ReceiveControl, Take,
               ServerReceiveClose, ServerSend, ServerClose, ServerBootstrap, ServerExpire,
               RotateKey, Restart, Pass, vars
<1> QED BY <1>3, <1>5, <1>6, <1>7, <1>8, <1>9, <1>10, <1>11, Zenon DEF Next

LEMMA ClientStep ==
  ASSUME Typed, PacketInv, ClientInv, [Next]_vars
  PROVE  ClientInv'
<1> SUFFICES ASSUME NEW a \in Attempt
             PROVE  /\ client'[a].state = "AuthWait" =>
                         client'[a].auth # None /\ client'[a].auth.attempt = a
                    /\ client'[a].state = "Established" =>
                         /\ client'[a].transcript # None /\ client'[a].transcript.attempt = a
                         /\ OpenAck(client'[a].transcript) \in net'
                         /\ Accept(client'[a].transcript) \in net'
  BY Zenon DEF ClientInv, OpenAck, Accept, Protected
<1>1. ClientMoves(a) /\ net \subseteq net'
  BY ClientSteps, NetGrows, Zenon
<1> QED BY <1>1, Zenon DEF ClientMoves, ClientInv

-----------------------------------------------------------------------------
(* The session tables *)

Entries == pending \cup established

\* The entry e is the session f went on as.
Same(e, f) ==
  e.scid = f.scid /\ e.opening = f.opening /\ e.binding = f.binding /\ e.ack = f.ack

\* Every entry of the next state is one of this state, gone on at most once.
Carried ==
  /\ \A e \in Entries' : \E f \in Entries : Same(e, f)
  /\ \A e, f \in Entries', g \in Entries : Same(e, g) /\ Same(f, g) => e = f
  /\ acks' = acks /\ net \subseteq net'

LEMMA TablesDisjoint == ASSUME NEW p \in PendingT, NEW s \in SessionT PROVE p # s
<1>1. "deadline" \in DOMAIN p /\ "deadline" \notin DOMAIN s
  BY Zenon DEF PendingT, SessionT
<1> QED BY <1>1, Zenon

\* The session promoted by receive_accept.
Promoted(p, m) ==
  [scid |-> p.scid, opening |-> p.opening, binding |-> p.binding, ack |-> p.ack,
   lastActive |-> now, heard |-> now, next |-> 1, seen |-> {m.counter}]

LEMMA Promotion ==
  ASSUME Typed, NEW m \in net, NEW p \in pending, ReceiveAccept(p, m)
  PROVE  /\ pending' \subseteq pending \ {p}
         /\ established' \subseteq established \cup {Promoted(p, m)}
         /\ Same(Promoted(p, m), p) /\ Promoted(p, m).seen = {m.counter}
         /\ TranscriptOf(Promoted(p, m)) = TranscriptOf(p)
         /\ m.transcript = TranscriptOf(p)
         /\ acks' = acks /\ net' = net /\ taken' = taken \cup {<<TranscriptOf(p), m.counter>>}
<1>1. Same(Promoted(p, m), p) /\ Promoted(p, m).seen = {m.counter}
  BY Zenon DEF Promoted, Same
<1>2. TranscriptOf(Promoted(p, m)) = TranscriptOf(p)
  BY <1>1, Zenon DEF Same, TranscriptOf
<1>3. /\ pending' \subseteq pending \ {p}
      /\ established' \subseteq established \cup {Promoted(p, m)}
  BY LiveEntries, Zenon DEF ReceiveAccept, Promoted
<1> QED BY <1>1, <1>2, <1>3, Zenon DEF ReceiveAccept, CanPromote

LEMMA CarriedStep ==
  ASSUME Typed, AckInv, [Next]_vars
  PROVE  Carried \/ \E m \in net, b \in Binding : ReceiveOpenAuth(m, b)
<1>0. \A p \in pending, s \in established : p # s
  BY TablesDisjoint, Zenon DEF Typed
<1>a. \A e, f \in Entries : Same(e, f) => e = f
  BY Zenon DEF AckInv, Entries, Same
<1>b. \A e \in Entries : Same(e, e)
  BY Zenon DEF Same
<1>1. CASE Shrinks
  <2>1. Entries' \subseteq Entries
    BY <1>1, Zenon DEF Shrinks, Entries
  <2> QED BY <1>1, <1>a, <1>b, <2>1, Zenon DEF Shrinks, Carried
<1>2. ASSUME NEW s \in established, NEW t \in SessionT, Updates(s, t)
      PROVE  Carried
  <2>1. Entries' \subseteq (Entries \ {s}) \cup {t}
    BY <1>0, <1>2, Zenon DEF Updates, Entries
  <2>2. Same(t, s) /\ s \in Entries
    BY <1>2, Zenon DEF Updates, Continues, Same, Entries
  <2>3. \A g \in Entries : Same(t, g) => g = s
    BY <1>a, <2>2, Zenon DEF Same
  <2> QED BY <1>2, <1>a, <1>b, <2>1, <2>2, <2>3, Zenon DEF Updates, Carried
<1>3. ASSUME NEW m \in net, NEW p \in pending, ReceiveAccept(p, m)
      PROVE  Carried
  <2> DEFINE t == Promoted(p, m)
  <2>0. /\ pending' \subseteq pending \ {p} /\ established' \subseteq established \cup {t}
        /\ Same(t, p) /\ acks' = acks /\ net' = net
    BY <1>3, Promotion, Zenon
  <2> HIDE DEF t
  <2>1. Entries' \subseteq (Entries \ {p}) \cup {t}
    BY <1>0, <2>0, Zenon DEF Entries
  <2>2. p \in Entries
    BY Zenon DEF Entries
  <2>3. \A g \in Entries : Same(t, g) => g = p
    BY <1>a, <2>0, <2>2, Zenon DEF Same
  <2> QED BY <1>a, <1>b, <2>0, <2>1, <2>2, <2>3, Zenon DEF Carried
<1> QED BY <1>1, <1>2, <1>3, StepKinds, Zenon

\* What receive_open_auth adds.
LEMMA Opening ==
  ASSUME Typed, PacketInv, NEW m \in net, NEW b \in Binding, ReceiveOpenAuth(m, b)
  PROVE  /\ acks \in Nat /\ acks' = acks + 1 /\ net \subseteq net' /\ taken' = taken
         /\ pending' \subseteq PendingT /\ established' \subseteq established
         /\ \A e \in Entries' : \/ e \in Entries /\ e.scid # m.scid
                                \/ /\ e \in pending' /\ e.scid = m.scid /\ e.ack = acks + 1
                                   /\ VerifyCookie(e.opening.cookie) \in net
                                   /\ e.opening.cookie.binding = e.binding
         /\ \A e, f \in Entries' : e.ack = acks + 1 /\ f.ack = acks + 1
                                   /\ e \notin Entries /\ f \notin Entries => e = f
<1> DEFINE n == [scid |-> m.scid, opening |-> m, binding |-> b, ack |-> acks + 1,
                 deadline |-> now + PENDING_TIMEOUT]
<1>1. m \in AuthT /\ acks \in Nat /\ now + PENDING_TIMEOUT \in Nat
  <2>1. m.type = "OPEN_AUTH"
    BY Zenon DEF ReceiveOpenAuth
  <2>2. m \in PacketT /\ acks \in Nat /\ now \in Nat
    BY Zenon DEF Typed
  <2>3. m \in AuthT
    BY <2>1, <2>2, PacketKinds, Zenon
  <2> QED BY <2>2, <2>3, Constants
<1>2. n \in PendingT
  BY <1>1 DEF PendingT, AuthT
<1>3. m.cookie.binding = b
  <2>1. \A k, c : Cookie(m, b, k, c).binding = b
    BY Zenon DEF Cookie
  <2>2. \E k, c : m.cookie = Cookie(m, b, k, c)
    BY Zenon DEF ReceiveOpenAuth, CookieMatches
  <2> QED BY <2>1, <2>2, Zenon
<1>4. VerifyCookie(m.cookie) \in net
  BY Zenon DEF PacketInv, ReceiveOpenAuth
<1>5. n.scid = m.scid /\ n.opening = m /\ n.binding = b /\ n.ack = acks + 1
  OBVIOUS
<1>6. /\ pending' = LivePending \cup {n} /\ established' = LiveEstablished
      /\ \A e \in LivePending \cup LiveEstablished : e.scid # m.scid
      /\ acks' = acks + 1 /\ net \subseteq net' /\ taken' = taken
  BY Zenon DEF ReceiveOpenAuth, NextAck, FreeScid
<1> HIDE DEF n
<1>7. pending' \subseteq PendingT /\ established' \subseteq established
  BY <1>2, <1>6, LiveEntries, Zenon DEF Typed
<1>8. \A e \in Entries' : (e \in Entries /\ e.scid # m.scid) \/ (e = n /\ e \in pending')
  BY <1>6, LiveEntries, Zenon DEF Entries
<1> QED BY <1>1, <1>3, <1>4, <1>5, <1>6, <1>7, <1>8, Zenon

LEMMA EntryStep ==
  ASSUME Typed, PacketInv, AckInv, OneEntryPerScid, RoutableBinding, [Next]_vars
  PROVE  AckInv' /\ OneEntryPerScid' /\ RoutableBinding'
<1>0. /\ \A e \in Entries : e.ack \in Nat /\ e.ack <= acks
      /\ \A e, f \in Entries : e.ack = f.ack \/ e.scid = f.scid => e = f
      /\ \A e \in Entries : /\ VerifyCookie(e.opening.cookie) \in net
                            /\ e.opening.cookie.binding = e.binding
  BY Zenon DEF Typed, AckInv, OneEntryPerScid, RoutableBinding, Entries, PendingT, SessionT
<1> SUFFICES /\ \A e \in Entries' : e.ack <= acks'
             /\ \A e, f \in Entries' : e.ack = f.ack \/ e.scid = f.scid => e = f
             /\ \A e \in Entries' : /\ VerifyCookie(e.opening.cookie) \in net'
                                    /\ e.opening.cookie.binding = e.binding
  BY Zenon DEF AckInv, OneEntryPerScid, RoutableBinding, Entries, VerifyCookie
<1>1. CASE Carried
  <2>1. ASSUME NEW e \in Entries', NEW f \in Entries', e.ack = f.ack \/ e.scid = f.scid
        PROVE  e = f
    <3>1. PICK g \in Entries : Same(e, g)
      BY <1>1, Zenon DEF Carried
    <3>2. PICK h \in Entries : Same(f, h)
      BY <1>1, Zenon DEF Carried
    <3>3. g = h
      BY <1>0, <2>1, <3>1, <3>2 DEF Same
    <3> QED BY <1>1, <3>1, <3>2, <3>3, Zenon DEF Carried
  <2>2. ASSUME NEW e \in Entries'
        PROVE  /\ e.ack <= acks' /\ VerifyCookie(e.opening.cookie) \in net'
               /\ e.opening.cookie.binding = e.binding
    <3>1. PICK g \in Entries : Same(e, g)
      BY <1>1, Zenon DEF Carried
    <3>2. e.opening = g.opening /\ e.binding = g.binding /\ e.ack = g.ack
      BY <3>1, Zenon DEF Same
    <3>3. acks' = acks /\ net \subseteq net'
      BY <1>1, Zenon DEF Carried
    <3>4. /\ g.ack <= acks /\ VerifyCookie(g.opening.cookie) \in net
          /\ g.opening.cookie.binding = g.binding
      BY <1>0, Zenon
    <3>5. e.ack <= acks' /\ e.opening.cookie.binding = e.binding
      BY <3>2, <3>3, <3>4, Zenon
    <3>6. VerifyCookie(e.opening.cookie) \in net'
      BY <3>2, <3>3, <3>4, Zenon
    <3> QED BY <3>5, <3>6, Zenon
  <2> QED BY <2>1, <2>2, Zenon
<1>2. ASSUME NEW m \in net, NEW b \in Binding, ReceiveOpenAuth(m, b)
      PROVE  /\ \A e \in Entries' : e.ack <= acks'
             /\ \A e, f \in Entries' : e.ack = f.ack \/ e.scid = f.scid => e = f
             /\ \A e \in Entries' : /\ VerifyCookie(e.opening.cookie) \in net'
                                    /\ e.opening.cookie.binding = e.binding
  <2>1. /\ acks \in Nat /\ acks' = acks + 1 /\ net \subseteq net'
        /\ \A e \in Entries' : \/ e \in Entries /\ e.scid # m.scid
                               \/ /\ e.scid = m.scid /\ e.ack = acks + 1
                                  /\ VerifyCookie(e.opening.cookie) \in net
                                  /\ e.opening.cookie.binding = e.binding
        /\ \A e, f \in Entries' : e.ack = acks + 1 /\ f.ack = acks + 1
                                  /\ e \notin Entries /\ f \notin Entries => e = f
    BY <1>2, Opening, Zenon
  <2>2. \A e \in Entries : e.ack # acks + 1
    BY <1>0, <2>1
  <2> QED BY <1>0, <2>1, <2>2
<1> QED BY <1>1, <1>2, CarriedStep, Zenon

LEMMA FinishedStep ==
  ASSUME Typed, PacketInv, Finished, [Next]_vars
  PROVE  Finished'
<1> SUFFICES \A s \in established' : Accept(TranscriptOf(s)) \in net'
  BY Zenon DEF Finished, Accept, Protected, TranscriptOf, Transcript
<1>0. \A s \in established : Accept(TranscriptOf(s)) \in net
  BY Zenon DEF Finished
<1>1. CASE Shrinks
  BY <1>0, <1>1, Zenon DEF Shrinks
<1>2. ASSUME NEW s \in established, NEW t \in SessionT, Updates(s, t)
      PROVE  \A u \in established' : Accept(TranscriptOf(u)) \in net'
  <2>1. TranscriptOf(t) = TranscriptOf(s)
    BY <1>2, Zenon DEF Updates, Continues, TranscriptOf
  <2> QED BY <1>0, <1>2, <2>1, Zenon DEF Updates
<1>3. ASSUME NEW m \in net, NEW b \in Binding, ReceiveOpenAuth(m, b)
      PROVE  \A u \in established' : Accept(TranscriptOf(u)) \in net'
  BY <1>0, <1>3, Opening, Zenon
<1>4. ASSUME NEW m \in net, NEW p \in pending, ReceiveAccept(p, m)
      PROVE  \A u \in established' : Accept(TranscriptOf(u)) \in net'
  <2>1. m = Accept(TranscriptOf(p))
    <3>1. m.type = "SESSION_ACCEPT" /\ m.transcript = TranscriptOf(p)
      BY <1>4, Zenon DEF ReceiveAccept, CanPromote
    <3> QED BY <3>1, Zenon DEF PacketInv
  <2>2. /\ established' \subseteq established \cup {Promoted(p, m)} /\ net' = net
        /\ TranscriptOf(Promoted(p, m)) = TranscriptOf(p)
    BY <1>4, Promotion, Zenon
  <2> QED BY <1>0, <2>1, <2>2, Zenon
<1> QED BY <1>1, <1>2, <1>3, <1>4, StepKinds, Zenon

\* The accepted packet x is out of reach of every entry.
Used(x, waiting, sessions, made) ==
  /\ x[1].ack <= made
  /\ \A p \in waiting : p.ack # x[1].ack
  /\ \A s \in sessions : TranscriptOf(s) = x[1] => x[2] \in s.seen

LEMMA TakenStep ==
  ASSUME Typed, PacketInv, AckInv, TakenInv, [Next]_vars
  PROVE  TakenInv'
<1> SUFFICES \A x \in taken' : Used(x, pending', established', acks')
  BY Zenon DEF TakenInv, Used, TranscriptOf, Transcript
<1>0. /\ \A x \in taken : Used(x, pending, established, acks) /\ x[1].ack \in Nat
      /\ acks \in Nat
  BY Zenon DEF TakenInv, Used, Typed, TranscriptT
<1>a. /\ \A p \in pending, s \in established : p # s
      /\ \A e \in pending \cup established : e.ack <= acks /\ TranscriptOf(e).ack = e.ack
      /\ \A e, f \in pending \cup established : e.ack = f.ack => e = f
  BY TablesDisjoint, EntryTranscripts, Zenon DEF AckInv, Typed
<1>1. CASE Shrinks
  BY <1>0, <1>1, Zenon DEF Shrinks, Used
<1>2. ASSUME NEW s \in established, NEW t \in SessionT, Updates(s, t), NEW x \in taken'
      PROVE  Used(x, pending', established', acks')
  <2>1. TranscriptOf(t) = TranscriptOf(s) /\ s.seen \subseteq t.seen
    BY <1>2, Zenon DEF Updates, Continues, TranscriptOf
  <2>2. /\ pending' \subseteq pending /\ established' \subseteq (established \ {s}) \cup {t}
        /\ acks' = acks
    BY <1>2, Zenon DEF Updates
  <2>3. CASE x \in taken
    BY <1>0, <2>1, <2>2, <2>3, Zenon DEF Used
  <2>4. CASE x \notin taken
    <3>1. PICK c \in t.seen : x = <<TranscriptOf(s), c>>
      BY <1>2, <2>4, Zenon DEF Updates
    <3>2. x[1] = TranscriptOf(s) /\ x[2] = c /\ x[1].ack = s.ack /\ s.ack <= acks
      BY <1>a, <3>1, Zenon
    <3>3. \A p \in pending : p.ack # s.ack
      BY <1>a, Zenon
    <3>4. \A r \in established : TranscriptOf(r) = TranscriptOf(s) => r = s
      BY <1>a, Zenon
    <3> QED BY <2>2, <3>2, <3>3, <3>4, Zenon DEF Used
  <2> QED BY <2>3, <2>4, Zenon
<1>3. ASSUME NEW m \in net, NEW b \in Binding, ReceiveOpenAuth(m, b), NEW x \in taken'
      PROVE  Used(x, pending', established', acks')
  <2>1. /\ acks' = acks + 1 /\ taken' = taken /\ established' \subseteq established
        /\ \A p \in pending' : p \in pending \/ p.ack = acks + 1
    <3>1. \A p \in pending' : p \in PendingT /\ (p \in Entries \/ p.ack = acks + 1)
      BY <1>3, Opening, Zenon DEF Entries
    <3>2. \A p \in PendingT : p \notin established
      BY TablesDisjoint, Zenon DEF Typed
    <3> QED BY <1>3, <3>1, <3>2, Opening, Zenon DEF Entries
  <2>2. Used(x, pending, established, acks) /\ x[1].ack \in Nat
    BY <1>0, <2>1, Zenon
  <2>3. x[1].ack <= acks + 1 /\ x[1].ack # acks + 1
    BY <1>0, <2>2 DEF Used
  <2> QED BY <2>1, <2>2, <2>3, Zenon DEF Used
<1>4. ASSUME NEW m \in net, NEW p \in pending, ReceiveAccept(p, m), NEW x \in taken'
      PROVE  Used(x, pending', established', acks')
  <2> DEFINE t == Promoted(p, m)
  <2>1. /\ pending' \subseteq pending \ {p} /\ established' \subseteq established \cup {t}
        /\ t.seen = {m.counter} /\ TranscriptOf(t) = TranscriptOf(p)
        /\ acks' = acks /\ taken' = taken \cup {<<TranscriptOf(p), m.counter>>}
    BY <1>4, Promotion, Zenon
  <2> HIDE DEF t
  <2>2. p.ack <= acks /\ TranscriptOf(p).ack = p.ack
    BY <1>a, Zenon
  <2>3. CASE x \in taken
    BY <1>0, <2>1, <2>2, <2>3, Zenon DEF Used
  <2>4. CASE x = <<TranscriptOf(p), m.counter>>
    <3>1. x[1] = TranscriptOf(p) /\ x[2] = m.counter
      BY <2>4, Zenon
    <3>2. \A r \in established : TranscriptOf(r) # TranscriptOf(p)
      BY <1>a, Zenon
    <3>3. \A q \in pending \ {p} : q.ack # p.ack
      BY <1>a, Zenon
    <3> QED BY <2>1, <2>2, <3>1, <3>2, <3>3, Zenon DEF Used
  <2> QED BY <1>4, <2>1, <2>3, <2>4, Zenon
<1> QED BY <1>1, <1>2, <1>3, <1>4, StepKinds, Zenon

-----------------------------------------------------------------------------
(* Bootstraps *)

\* No step brings back an acknowledgement number that has left the tables, and
\* a released client stays released.
LEMMA SpentStep ==
  ASSUME Typed, PacketInv, ClientInv, AckInv, [Next]_vars,
         NEW b \in BootstrapT, Spent(b, Entries, acks, client)
  PROVE  Spent(b, Entries', acks', client')
<1>0. b.transcript.ack \in Nat /\ b.transcript.attempt \in Attempt /\ acks \in Nat
  BY Zenon DEF Typed, BootstrapT, TranscriptT
<1>1. ASSUME b.end = "client"
      PROVE  client'[b.transcript.attempt].state = "Released"
  BY <1>0, <1>1, ClientSteps, Zenon DEF ClientMoves, Spent
<1>2. ASSUME b.end = "server"
      PROVE  /\ b.transcript.ack <= acks'
             /\ \A e \in Entries' : e.ack # b.transcript.ack
  <2>1. b.transcript.ack <= acks /\ \A e \in Entries : e.ack # b.transcript.ack
    BY <1>2, Zenon DEF Spent
  <2>2. CASE Carried
    <3>1. acks' = acks /\ \A e \in Entries' : \E f \in Entries : e.ack = f.ack
      BY <2>2, Zenon DEF Carried, Same
    <3> QED BY <2>1, <3>1, Zenon
  <2>3. ASSUME NEW m \in net, NEW d \in Binding, ReceiveOpenAuth(m, d)
        PROVE  /\ b.transcript.ack <= acks'
               /\ \A e \in Entries' : e.ack # b.transcript.ack
    <3>1. acks' = acks + 1 /\ \A e \in Entries' : e \in Entries \/ e.ack = acks + 1
      BY <2>3, Opening, Zenon
    <3>2. b.transcript.ack <= acks + 1 /\ b.transcript.ack # acks + 1
      <4>1. b.transcript.ack <= acks
        BY <2>1, Zenon
      <4> QED BY <1>0, <4>1
    <3> QED BY <2>1, <3>1, <3>2, Zenon
  <2> QED BY <2>2, <2>3, CarriedStep, Zenon
<1> QED BY <1>1, <1>2, Zenon DEF Spent

LEMMA Appended ==
  ASSUME NEW q \in Seq(BootstrapT), NEW x \in BootstrapT
  PROVE  \A i \in DOMAIN Append(q, x) : \/ i \in DOMAIN q /\ Append(q, x)[i] = q[i]
                                        \/ i = Len(q) + 1 /\ Append(q, x)[i] = x
OBVIOUS

\* One bootstrap more, of a transcript its end has not handed out yet.
LEMMA HandedOut ==
  ASSUME Typed, PacketInv, ClientInv, AckInv, BootstrapInv, BootstrapOnce, [Next]_vars,
         NEW x \in BootstrapT, bootstraps' = Append(bootstraps, x),
         ~ Spent(x, Entries, acks, client), Spent(x, Entries', acks', client'),
         x.end \in {"client", "server"}
  PROVE  BootstrapInv' /\ BootstrapOnce'
<1>a. bootstraps \in Seq(BootstrapT) /\ acks \in Nat
  BY Zenon DEF Typed
<1>0. /\ bootstraps \in Seq(BootstrapT) /\ acks \in Nat
      /\ \A i \in DOMAIN bootstraps : bootstraps[i] \in BootstrapT
  BY <1>a
<1>1. \A i \in DOMAIN bootstraps' : \/ i \in DOMAIN bootstraps /\ bootstraps'[i] = bootstraps[i]
                                    \/ i = Len(bootstraps) + 1 /\ bootstraps'[i] = x
  BY <1>0, Appended, Zenon
<1>2. \A i \in DOMAIN bootstraps : Spent(bootstraps[i], Entries, acks, client)
  BY Zenon DEF BootstrapInv, Entries
<1>3. \A i \in DOMAIN bootstraps' : Spent(bootstraps'[i], Entries', acks', client')
  BY <1>0, <1>1, <1>2, SpentStep, Zenon
<1>4. \A i \in DOMAIN bootstraps :
        ~ (bootstraps[i].end = x.end /\ bootstraps[i].transcript = x.transcript)
  BY <1>2, Zenon DEF Spent
<1>5. \A i, j \in DOMAIN bootstraps' :
        bootstraps'[i].end = bootstraps'[j].end
          /\ bootstraps'[i].transcript = bootstraps'[j].transcript => i = j
  BY <1>1, <1>4 DEF BootstrapOnce
<1> QED BY <1>3, <1>5, Zenon DEF BootstrapInv, BootstrapOnce, Spent, Entries

\* Only take_profile3_bootstrap hands out a bootstrap.
LEMMA BootstrapSources ==
  ASSUME [Next]_vars
  PROVE  \/ bootstraps' = bootstraps
         \/ \E a \in Attempt : ClientBootstrap(a)
         \/ \E s \in established : ServerBootstrap(s)
<1>1. ASSUME NEW a \in Attempt,
             \/ \E scid \in Scid : Start(a, scid)
             \/ ClientExpire(a) \/ ClientSend(a) \/ ClientClose(a)
             \/ \E m \in ToClient :
                  \/ ReceiveVerify(a, m) \/ RejectVerify(a, m) \/ ReceiveAck(a, m)
                  \/ ClientReceiveData(a, m) \/ ClientReceiveClose(a, m)
      PROVE  bootstraps' = bootstraps
  BY <1>1, Zenon DEF Start, ClientExpire, ClientSend, ClientClose, ReceiveVerify, RejectVerify,
              ReceiveAck, ClientReceiveData, ClientReceiveClose
<1>2. ASSUME \/ \E m \in net, b \in Binding : ReceiveOpen(m, b) \/ ReceiveOpenAuth(m, b)
             \/ \E m \in net, p \in pending : ReceiveAccept(p, m)
             \/ \E m \in net, s \in established :
                  ReceiveData(s, m) \/ ReceiveControl(s, m) \/ ServerReceiveClose(s, m)
             \/ \E s \in established : ServerSend(s) \/ ServerClose(s)
             \/ ServerExpire \/ RotateKey \/ Restart \/ Pass \/ UNCHANGED vars
      PROVE  bootstraps' = bootstraps
  BY <1>2, Zenon DEF ReceiveOpen, ReceiveOpenAuth, ReceiveAccept, ReceiveData, ReceiveControl, Take,
              ServerReceiveClose, ServerSend, ServerClose, ServerExpire, RotateKey, Restart,
              Pass, vars
<1> QED BY <1>1, <1>2, Zenon DEF Next

LEMMA BootstrapStep ==
  ASSUME Typed, PacketInv, ClientInv, AckInv, BootstrapInv, BootstrapOnce, [Next]_vars
  PROVE  BootstrapInv' /\ BootstrapOnce'
<1>1. CASE bootstraps' = bootstraps
  <2>a. \A i \in DOMAIN bootstraps : bootstraps[i] \in BootstrapT
    BY DEF Typed
  <2>1. \A i \in DOMAIN bootstraps : Spent(bootstraps[i], Entries, acks, client)
    BY Zenon DEF BootstrapInv, Entries
  <2>2. \A i \in DOMAIN bootstraps : Spent(bootstraps[i], Entries', acks', client')
    BY <2>a, <2>1, SpentStep, Zenon
  <2> QED BY <1>1, <2>2, Zenon DEF BootstrapInv, BootstrapOnce, Spent, Entries
<1>2. ASSUME NEW a \in Attempt, ClientBootstrap(a)
      PROVE  BootstrapInv' /\ BootstrapOnce'
  <2> DEFINE x == Bootstrap("client", client[a].transcript, client[a].next)
  <2>1. /\ client[a].state = "Established" /\ client' = [client EXCEPT ![a] = Released]
        /\ bootstraps' = Append(bootstraps, x)
    BY <1>2, Zenon DEF ClientBootstrap
  <2>2. /\ client[a] \in ClientT /\ client[a].transcript # None
        /\ client[a].transcript.attempt = a /\ client'[a] = Released
    BY <2>1, Zenon DEF Typed, ClientInv
  <2>a. client[a].transcript \in TranscriptT /\ client[a].next \in Sendable
    BY <2>2, Zenon DEF ClientT
  <2>3. x.end = "client" /\ x.transcript.attempt = a /\ x \in BootstrapT
    BY <2>2, <2>a, Zenon DEF Bootstrap, BootstrapT
  <2> HIDE DEF x
  <2>4. ~ Spent(x, Entries, acks, client) /\ Spent(x, Entries', acks', client')
    <3>1. client[a].state # "Released" /\ client'[a].state = "Released"
      BY <2>1, <2>2, ClientValues, Zenon
    <3> QED BY <2>3, <3>1, Zenon DEF Spent
  <2> QED BY <2>1, <2>3, <2>4, HandedOut, Zenon
<1>3. ASSUME NEW s \in established, ServerBootstrap(s)
      PROVE  BootstrapInv' /\ BootstrapOnce'
  <2> DEFINE x == Bootstrap("server", TranscriptOf(s), s.next)
  <2>1. /\ established' = established \ {s} /\ pending' = pending /\ acks' = acks
        /\ bootstraps' = Append(bootstraps, x)
    BY <1>3, Zenon DEF ServerBootstrap
  <2>2. /\ s \in SessionT /\ s.next \in Sendable /\ s.ack <= acks
        /\ TranscriptOf(s) \in TranscriptT /\ TranscriptOf(s).ack = s.ack
    BY EntryTranscripts, Zenon DEF Typed, AckInv, SessionT
  <2>3. x.end = "server" /\ x.transcript.ack = s.ack /\ x \in BootstrapT
    BY <2>2, Zenon DEF Bootstrap, BootstrapT
  <2> HIDE DEF x
  <2>4. s \in Entries /\ \A e \in Entries' : e.ack # s.ack
    BY <2>1, TablesDisjoint, Zenon DEF Typed, AckInv, Entries
  <2>5. ~ Spent(x, Entries, acks, client) /\ Spent(x, Entries', acks', client')
    BY <2>1, <2>2, <2>3, <2>4, Zenon DEF Spent
  <2> QED BY <2>1, <2>3, <2>5, HandedOut, Zenon
<1> QED BY <1>1, <1>2, <1>3, BootstrapSources, Zenon

-----------------------------------------------------------------------------
(* The theorems *)

LEMMA NextIInv == ASSUME IInv, [Next]_vars PROVE IInv'
<1>1. Typed' /\ PacketInv' /\ ClientInv'
  BY TypedStep, PacketStep, ClientStep, Zenon DEF IInv
<1>2. AckInv' /\ OneEntryPerScid' /\ RoutableBinding'
  BY EntryStep, Zenon DEF IInv
<1>3. Finished' /\ TakenInv'
  BY FinishedStep, TakenStep, Zenon DEF IInv
<1>4. BootstrapInv' /\ BootstrapOnce'
  BY BootstrapStep, Zenon DEF IInv
<1> QED BY <1>1, <1>2, <1>3, <1>4, Zenon DEF IInv

\* Every reachable state satisfies the inductive invariant.
THEOREM Invariance == Spec => []IInv
BY InitIInv, NextIInv, PTL DEF Spec

\* A SCID names one session (receive_open_auth, receive_accept).
THEOREM ScidNamesOneSession == Spec => []OneEntryPerScid
<1>1. IInv => OneEntryPerScid
  BY Zenon DEF IInv
<1> QED BY <1>1, Invariance, PTL

\* Client and server agree on the transcript of a session either of them holds
\* as established (receive_ack, receive_accept).
THEOREM EndsAgree == Spec => []Agreement
<1>1. IInv => Agreement
  BY Zenon DEF IInv, ClientInv, Finished, Agreement
<1> QED BY <1>1, Invariance, PTL

\* A session's binding is the one its cookie was issued to (receive_open_auth).
THEOREM BindingIsRoutable == Spec => []RoutableBinding
<1>1. IInv => RoutableBinding
  BY Zenon DEF IInv
<1> QED BY <1>1, Invariance, PTL

\* No end hands out two bootstraps of one transcript (take_profile3_bootstrap).
THEOREM KeysLeaveOnce == Spec => []BootstrapOnce
<1>1. IInv => BootstrapOnce
  BY Zenon DEF IInv
<1> QED BY <1>1, Invariance, PTL

LEMMA MarkedPackets ==
  ASSUME NEW S, NEW y
  PROVE  y \in Marked(S) <=> \E s \in S : \E n \in s.seen : y = <<TranscriptOf(s), n>>
BY DEF Marked

LEMMA AcceptedOnceStep ==
  ASSUME IInv, [Next]_vars
  PROVE  (Marked(established') \ Marked(established)) \cap taken = {}
<1> SUFFICES ASSUME NEW u \in established', NEW n \in u.seen,
                    <<TranscriptOf(u), n>> \in taken
             PROVE  <<TranscriptOf(u), n>> \in Marked(established)
  BY MarkedPackets
<1>0. /\ \A p \in pending : p.ack # TranscriptOf(u).ack
      /\ \A s \in established : TranscriptOf(s) = TranscriptOf(u) => n \in s.seen
  BY Zenon DEF IInv, TakenInv
<1> SUFFICES \E s \in established : TranscriptOf(s) = TranscriptOf(u)
  BY <1>0, MarkedPackets, Zenon
<1>a. Typed /\ PacketInv
  BY Zenon DEF IInv
<1>1. CASE u \in established
  BY <1>1, Zenon
<1>2. ASSUME NEW s \in established, NEW t \in SessionT, Updates(s, t)
      PROVE  \E r \in established : TranscriptOf(r) = TranscriptOf(u)
  <2>1. TranscriptOf(t) = TranscriptOf(s)
    BY <1>2, Zenon DEF Updates, Continues, TranscriptOf
  <2> QED BY <1>2, <2>1, Zenon DEF Updates
<1>3. ASSUME NEW m \in net, NEW p \in pending, ReceiveAccept(p, m)
      PROVE  u \in established
  <2>1. p.ack = TranscriptOf(p).ack
    BY <1>a, EntryTranscripts, Zenon DEF Typed
  <2>2. /\ established' \subseteq established \cup {Promoted(p, m)}
        /\ TranscriptOf(Promoted(p, m)) = TranscriptOf(p)
    BY <1>3, <1>a, Promotion, Zenon
  <2> QED BY <1>0, <2>1, <2>2, Zenon
<1>4. ASSUME NEW m \in net, NEW b \in Binding, ReceiveOpenAuth(m, b)
      PROVE  u \in established
  BY <1>4, <1>a, Opening, Zenon
<1>5. CASE Shrinks
  BY <1>1, <1>5, Zenon DEF Shrinks
<1> QED BY <1>1, <1>2, <1>3, <1>4, <1>5, <1>a, StepKinds, Zenon

\* No protected packet is accepted twice, across expiry, close, restart and
\* replayed handshakes (commit_data, receive_accept).
THEOREM PacketsAcceptedOnce == Spec => AcceptedOnce
<1>1. IInv /\ [Next]_vars
        => [(Marked(established') \ Marked(established)) \cap taken = {}]_vars
  BY AcceptedOnceStep, Zenon
<1> QED BY <1>1, Invariance, PTL DEF Spec, AcceptedOnce

-----------------------------------------------------------------------------
(* Cookies and the rotation of their keys *)

LEMMA Quotient ==
  ASSUME NEW n \in Nat, NEW b \in Nat \ {0}
  PROVE  n \div b \in Nat /\ (n \div b) * b <= n /\ n < (n \div b) * b + b
OBVIOUS

LEMMA Product ==
  ASSUME NEW x \in Nat, NEW y \in Nat, NEW b \in Nat, x <= y
  PROVE  x * b <= y * b
OBVIOUS

\* Two times whose buckets are at most one apart are less than two buckets apart.
LEMMA NearBuckets ==
  ASSUME NEW n \in Nat, NEW k \in Nat, NEW b \in Nat \ {0}, k \div b <= (n \div b) + 1
  PROVE  k < n + 2 * b
<1> DEFINE x == n \div b
           y == k \div b
<1>1. x \in Nat /\ y \in Nat /\ x * b <= n /\ k < y * b + b /\ y <= x + 1
  BY Quotient, Zenon
<1> HIDE DEF x, y
<1>2. y * b <= (x + 1) * b
  BY <1>1, Product
<1>3. (x + 1) * b = x * b + b /\ x * b \in Nat /\ y * b \in Nat
  BY <1>1
<1> QED BY <1>1, <1>2, <1>3

LEMMA LaterBucket ==
  ASSUME NEW n \in Nat, NEW k \in Nat, NEW b \in Nat \ {0}, n <= k
  PROVE  n \div b <= k \div b
<1> DEFINE x == n \div b
           y == k \div b
<1>1. x \in Nat /\ y \in Nat /\ x * b <= n /\ k < y * b + b
  BY Quotient, Zenon
<1> HIDE DEF x, y
<1>2. ASSUME y + 1 <= x
      PROVE  FALSE
  <2>1. (y + 1) * b <= x * b
    BY <1>1, <1>2, Product
  <2>2. (y + 1) * b = y * b + b /\ x * b \in Nat /\ y * b \in Nat
    BY <1>1
  <2> QED BY <1>1, <2>1, <2>2
<1> QED BY <1>1, <1>2 DEF x, y

\* How old a cookie of this boot is, seen from the key it was made with: made
\* with a replaced key it is from before the last rotation, and with a key
\* replaced earlier it is out of its two buckets already.
Dated(c) ==
  /\ c.bucket <= now \div BUCKET
  /\ c.key <= cookieKey.current
  /\ c.key < cookieKey.current => c.bucket <= cookieKey.rotated \div BUCKET
  /\ c.key < cookieKey.previous => c.bucket + 2 <= cookieKey.rotated \div BUCKET

CookieInv ==
  /\ cookieKey.previous + 1 = cookieKey.current /\ cookieKey.rotated <= now
  /\ \A m \in net : m.type = "VERIFY_COOKIE" =>
       m.boot <= boot /\ (m.boot = boot => Dated(m.cookie))

\* Only receive_open makes cookies, and only receive_open_auth acknowledgements.
LEMMA PacketSources ==
  ASSUME [Next]_vars
  PROVE  \/ \E m \in net, b \in Binding : ReceiveOpen(m, b) \/ ReceiveOpenAuth(m, b)
         \/ RotateKey \/ Restart \/ Pass
         \/ /\ boot' = boot /\ cookieKey' = cookieKey /\ now' = now
            /\ \A x \in net' : x.type \in {"VERIFY_COOKIE", "OPEN_ACK"} => x \in net
<1> DEFINE Quiet == /\ boot' = boot /\ cookieKey' = cookieKey /\ now' = now
                    /\ \A x \in net' : x.type \in {"VERIFY_COOKIE", "OPEN_ACK"} => x \in net
<1>1. /\ \A a, x : Open(a, x).type = "OPEN"
      /\ \A a, x : OpenAuth(a, x).type = "OPEN_AUTH"
      /\ \A t : OpenAck(t).type = "OPEN_ACK" /\ Accept(t).type = "SESSION_ACCEPT"
      /\ \A k, f, t, n : Protected(k, f, t, n).type = k
  BY Zenon DEF Open, OpenAuth, OpenAck, Accept, Protected
<1>2. ASSUME NEW a \in Attempt,
             \/ \E scid \in Scid : Start(a, scid)
             \/ ClientExpire(a) \/ ClientSend(a) \/ ClientClose(a) \/ ClientBootstrap(a)
      PROVE  Quiet
  <2>1. boot' = boot /\ cookieKey' = cookieKey /\ now' = now
    BY <1>2, Zenon DEF Start, ClientExpire, ClientSend, ClientClose, ClientBootstrap, server
  <2>2. \/ net' = net
        \/ \E scid : net' = net \cup {Open(a, scid)}
        \/ \E k \in {"SESSION_DATA", "CLOSE"} : \E f, t, n :
             net' = net \cup {Protected(k, f, t, n)}
    BY <1>2, Zenon DEF Start, ClientExpire, ClientSend, ClientClose, ClientBootstrap
  <2>3. \A x \in net' : x.type \in {"VERIFY_COOKIE", "OPEN_ACK"} => x \in net
    BY <1>1, <2>2
  <2> QED BY <2>1, <2>3, Zenon
<1>3. ASSUME NEW a \in Attempt, NEW m \in ToClient,
             \/ ReceiveVerify(a, m) \/ RejectVerify(a, m) \/ ReceiveAck(a, m)
             \/ ClientReceiveData(a, m) \/ ClientReceiveClose(a, m)
      PROVE  Quiet
  BY <1>1, <1>3 DEF ReceiveVerify, RejectVerify, ReceiveAck, ClientReceiveData,
                    ClientReceiveClose, server
<1>4. ASSUME NEW m \in net, NEW p \in pending, ReceiveAccept(p, m)
      PROVE  Quiet
  BY <1>4, Zenon DEF ReceiveAccept
<1>5. ASSUME \/ \E m \in net, s \in established :
                  ReceiveData(s, m) \/ ReceiveControl(s, m) \/ ServerReceiveClose(s, m)
             \/ \E s \in established : ServerSend(s) \/ ServerClose(s) \/ ServerBootstrap(s)
             \/ ServerExpire \/ UNCHANGED vars
      PROVE  Quiet
  <2>1. CASE \E m \in net, s \in established :
               ReceiveData(s, m) \/ ReceiveControl(s, m) \/ ServerReceiveClose(s, m)
    BY <2>1, Zenon DEF ReceiveData, ReceiveControl, Take, ServerReceiveClose
  <2>2. ASSUME NEW s \in established, ServerSend(s)
        PROVE  Quiet
    <3>1. boot' = boot /\ cookieKey' = cookieKey /\ now' = now
      BY <2>2, Zenon DEF ServerSend
    <3>2. net' = net \/ \E f, t, n : net' = net \cup {Protected("SESSION_DATA", f, t, n)}
      BY <2>2, Zenon DEF ServerSend
    <3>3. \A x \in net' : x.type \in {"VERIFY_COOKIE", "OPEN_ACK"} => x \in net
      BY <1>1, <3>2
    <3> QED BY <3>1, <3>3, Zenon
  <2>3. ASSUME NEW s \in established, ServerClose(s)
        PROVE  Quiet
    <3>1. boot' = boot /\ cookieKey' = cookieKey /\ now' = now
      BY <2>3, Zenon DEF ServerClose
    <3>2. net' = net \/ \E f, t, n : net' = net \cup {Protected("CLOSE", f, t, n)}
      BY <2>3, Zenon DEF ServerClose
    <3>3. \A x \in net' : x.type \in {"VERIFY_COOKIE", "OPEN_ACK"} => x \in net
      BY <1>1, <3>2
    <3> QED BY <3>1, <3>3, Zenon
  <2>4. CASE (\E s \in established : ServerBootstrap(s)) \/ ServerExpire \/ UNCHANGED vars
    BY <2>4, Zenon DEF ServerBootstrap, ServerExpire, vars, server
  <2> QED BY <1>5, <2>1, <2>2, <2>3, <2>4, Zenon
<1> QED BY <1>2, <1>3, <1>4, <1>5, Zenon DEF Next

LEMMA CookieInit == ASSUME Init PROVE CookieInv
<1>1. net = {} /\ cookieKey = [current |-> 1, previous |-> 0, rotated |-> 0] /\ now = 0
  BY Zenon DEF Init
<1> QED BY <1>1 DEF CookieInv

\* An old cookie stays dated when only the clock or nothing it speaks of moves.
LEMMA DatedLater ==
  ASSUME NEW c \in CookieT, Dated(c), now \in Nat, now' \in Nat, now <= now',
         cookieKey' = cookieKey
  PROVE  Dated(c)'
<1>1. BUCKET \in Nat \ {0}
  BY Constants
<1>2. now \div BUCKET <= now' \div BUCKET
  BY <1>1, LaterBucket, Zenon
<1>3. now \div BUCKET \in Nat /\ now' \div BUCKET \in Nat /\ c.bucket \in Nat
  BY <1>1, Quotient, Zenon DEF CookieT
<1>4. c.bucket <= now' \div BUCKET
  BY <1>2, <1>3 DEF Dated
<1> QED BY <1>4, Zenon DEF Dated

LEMMA CookieStep ==
  ASSUME IInv, CookieInv, [Next]_vars
  PROVE  CookieInv'
<1>0. /\ net \subseteq PacketT /\ now \in Nat /\ boot \in Nat
      /\ cookieKey \in [current : Nat, previous : Nat, rotated : Nat]
      /\ BUCKET \in Nat \ {0}
  BY Constants DEF IInv, Typed
<1>1. \A m \in net : m.type = "VERIFY_COOKIE" => m.cookie \in CookieT /\ m.boot \in Nat
  BY <1>0, PacketKinds, Zenon DEF VerifyT
<1>2. ASSUME /\ boot' = boot /\ cookieKey' = cookieKey /\ now' = now
             /\ \A x \in net' : x.type \in {"VERIFY_COOKIE", "OPEN_ACK"} => x \in net
      PROVE  CookieInv'
  BY <1>2, Zenon DEF CookieInv, Dated
<1>3. ASSUME NEW m \in net, NEW b \in Binding, ReceiveOpen(m, b)
      PROVE  CookieInv'
  <2> DEFINE c == Cookie(m, b, cookieKey.current, now \div BUCKET)
             v == VerifyCookie(c)
  <2>1. v.boot = boot /\ v.cookie = c /\ c.bucket = now \div BUCKET
        /\ c.key = cookieKey.current
    BY Zenon DEF VerifyCookie, Cookie
  <2>2. net' = net \cup {v} /\ boot' = boot /\ cookieKey' = cookieKey /\ now' = now
    BY <1>3, Zenon DEF ReceiveOpen, server
  <2> HIDE DEF v, c
  <2>3. cookieKey.current \in Nat /\ cookieKey.previous \in Nat
        /\ cookieKey.previous + 1 = cookieKey.current /\ now \div BUCKET \in Nat
    BY <1>0, Quotient, Zenon DEF CookieInv
  <2>4. Dated(c) /\ v.boot <= boot
    BY <1>0, <2>1, <2>3 DEF Dated
  <2>5. \A x \in net' : x.type = "VERIFY_COOKIE" =>
          x.boot <= boot /\ (x.boot = boot => Dated(x.cookie))
    BY <2>1, <2>2, <2>4, Zenon DEF CookieInv
  <2> QED BY <2>2, <2>5, Zenon DEF CookieInv, Dated
<1>7. ASSUME NEW m \in net, NEW b \in Binding, ReceiveOpenAuth(m, b)
      PROVE  CookieInv'
  <2>1. boot' = boot /\ cookieKey' = cookieKey /\ now' = now
    BY <1>7, Zenon DEF ReceiveOpenAuth
  <2>2. \A t : OpenAck(t).type = "OPEN_ACK"
    BY Zenon DEF OpenAck
  <2>3. \A x \in net' : x.type = "VERIFY_COOKIE" => x \in net
    BY <1>7, <2>2, Zenon DEF ReceiveOpenAuth
  <2> QED BY <2>1, <2>3, Zenon DEF CookieInv, Dated
<1>4. CASE RotateKey
  <2> DEFINE old == cookieKey.rotated
  <2>1. /\ net' = net /\ boot' = boot /\ now' = now
        /\ cookieKey'.current = cookieKey.current + 1
        /\ cookieKey'.previous = cookieKey.current /\ cookieKey'.rotated = now
    BY <1>4, Zenon DEF RotateKey
  <2>2. old \in Nat /\ old <= now /\ now - old >= ROTATION
    BY <1>0, <1>4, Zenon DEF CookieInv, RotateKey
  <2>3. old + 2 * BUCKET <= now
    BY <1>0, <2>2, HandshakeAssumption, CookieAssumption
  <2>4. old \div BUCKET + 2 <= now \div BUCKET
    <3>1. old \div BUCKET \in Nat /\ now \div BUCKET \in Nat
      BY <1>0, <2>2, Quotient, Zenon
    <3>2. ~(now \div BUCKET <= old \div BUCKET + 1)
      BY <1>0, <2>2, <2>3, NearBuckets
    <3> QED BY <3>1, <3>2
  <2>5. ASSUME NEW m \in net, m.type = "VERIFY_COOKIE", m.boot = boot
        PROVE  Dated(m.cookie)'
    <3>1. Dated(m.cookie) /\ m.cookie \in CookieT
      BY <1>1, <2>5, Zenon DEF CookieInv
    <3>2. /\ m.cookie.bucket \in Nat /\ m.cookie.key \in Nat
          /\ old \div BUCKET \in Nat /\ now \div BUCKET \in Nat
          /\ cookieKey.current \in Nat
      BY <1>0, <2>2, <3>1, Quotient, Zenon DEF CookieT
    <3>3. /\ m.cookie.bucket <= now \div BUCKET
          /\ m.cookie.key <= cookieKey.current
          /\ m.cookie.key < cookieKey.current => m.cookie.bucket <= old \div BUCKET
      BY <3>1, Zenon DEF Dated
    <3> HIDE DEF old
    <3>4. /\ m.cookie.key <= cookieKey.current + 1
          /\ m.cookie.key < cookieKey.current => m.cookie.bucket + 2 <= now \div BUCKET
      BY <2>4, <3>2, <3>3
    <3> QED BY <2>1, <3>3, <3>4, Zenon DEF Dated
  <2>6. now <= now /\ cookieKey.current + 1 = cookieKey.current + 1
    BY <1>0
  <2> QED BY <2>1, <2>5, <2>6, Zenon DEF CookieInv
<1>5. CASE Restart
  <2>1. /\ net' = net /\ boot' = boot + 1 /\ now' = now
        /\ cookieKey'.current = 1 /\ cookieKey'.previous = 0 /\ cookieKey'.rotated = now
    BY <1>5, Zenon DEF Restart
  <2>2. ASSUME NEW m \in net, m.type = "VERIFY_COOKIE"
        PROVE  m.boot <= boot + 1 /\ m.boot # boot + 1
    BY <1>0, <1>1, <2>2 DEF CookieInv
  <2>3. now <= now /\ 0 + 1 = 1
    BY <1>0
  <2> QED BY <2>1, <2>2, <2>3, Zenon DEF CookieInv
<1>6. CASE Pass
  <2>1. net' = net /\ boot' = boot /\ cookieKey' = cookieKey /\ now' = now + 1
    BY <1>6, Zenon DEF Pass, server
  <2>2. now' \in Nat /\ now <= now' /\ cookieKey.rotated <= now'
    BY <1>0, <2>1 DEF CookieInv
  <2>3. ASSUME NEW m \in net, m.type = "VERIFY_COOKIE", m.boot = boot
        PROVE  Dated(m.cookie)'
    BY <1>0, <1>1, <2>1, <2>2, <2>3, DatedLater, Zenon DEF CookieInv
  <2> QED BY <2>1, <2>2, <2>3, Zenon DEF CookieInv
<1> QED BY <1>2, <1>3, <1>4, <1>5, <1>6, <1>7, PacketSources, Zenon

\* A cookie in its two buckets was made with a key the server still uses.
LEMMA UsableKey ==
  ASSUME IInv, CookieInv, NEW m \in net, m.type = "VERIFY_COOKIE", m.boot = boot,
         m.cookie.bucket + 1 >= now \div BUCKET
  PROVE  CookieMatches(m, m.cookie.binding)
<1> DEFINE c == m.cookie
           keys == {cookieKey.current} \cup
                     (IF now - cookieKey.rotated <= KEY_RETENTION
                      THEN {cookieKey.previous} ELSE {})
<1>0. /\ m \in PacketT /\ now \in Nat /\ BUCKET \in Nat \ {0} /\ KEY_RETENTION \in Nat
      /\ cookieKey \in [current : Nat, previous : Nat, rotated : Nat]
  BY Constants, HandshakeAssumption, Zenon DEF IInv, Typed
<1>1. c \in CookieT /\ m.scid = c.scid /\ m.attempt = c.attempt /\ c.boot = boot
  <2>1. m \in VerifyT /\ m = VerifyCookie(c)
    BY <1>0, PacketKinds, Zenon DEF IInv, PacketInv
  <2> QED BY <2>1 DEF VerifyT, VerifyCookie
<1>2. /\ Dated(c)
      /\ cookieKey.previous + 1 = cookieKey.current /\ cookieKey.rotated <= now
  BY Zenon DEF CookieInv
<1>3. /\ cookieKey.rotated \in Nat /\ now \div BUCKET \in Nat
      /\ cookieKey.rotated \div BUCKET \in Nat /\ c.bucket \in Nat /\ c.key \in Nat
      /\ cookieKey.current \in Nat /\ cookieKey.previous \in Nat
  BY <1>0, <1>1, Quotient, Zenon DEF CookieT
<1>4. cookieKey.rotated \div BUCKET <= now \div BUCKET
  BY <1>0, <1>2, <1>3, LaterBucket, Zenon
<1>5. c.bucket \in {now \div BUCKET, (now \div BUCKET) - 1}
  BY <1>2, <1>3 DEF Dated
<1>6. c.key \in keys
  <2>1. CASE c.key = cookieKey.current
    BY <2>1, Zenon
  <2>2. CASE c.key = cookieKey.previous /\ c.key < cookieKey.current
    <3>1. now \div BUCKET <= (cookieKey.rotated \div BUCKET) + 1
      BY <1>2, <1>3, <2>2 DEF Dated
    <3>2. now < cookieKey.rotated + 2 * BUCKET
      BY <1>0, <1>3, <3>1, NearBuckets, Zenon
    <3>3. now - cookieKey.rotated <= KEY_RETENTION
      BY <1>0, <1>3, <3>2, CookieAssumption
    <3> QED BY <2>2, <3>3, Zenon
  <2>3. CASE c.key < cookieKey.previous
    BY <1>2, <1>3, <1>4, <2>3 DEF Dated
  <2> QED BY <1>2, <1>3, <2>1, <2>2, <2>3 DEF Dated
<1>7. c = Cookie(m, c.binding, c.key, c.bucket)
  BY <1>1, Zenon DEF CookieT, Cookie
<1> HIDE DEF c
<1> QED BY <1>5, <1>6, <1>7, Zenon DEF CookieMatches, c

\* Rotating the cookie key invalidates no cookie that is still in its two
\* buckets (rotate_cookie_key, cookie_matches_buckets): for every retention and
\* every rotation interval of at least two buckets.
THEOREM RotationKeepsCookies == Spec => []CookieSurvivesRotation
<1>1. IInv /\ CookieInv => CookieSurvivesRotation
  BY UsableKey, Zenon DEF CookieSurvivesRotation
<1> QED BY <1>1, Invariance, CookieInit, CookieStep, PTL DEF Spec

LEMMA BucketEnds ==
  ASSUME NEW n \in Nat, NEW size \in Nat \ {0}
  PROVE  /\ n \div size \in Nat
         /\ n < (n \div size + 1) * size /\ n < (n \div size + 2) * size
<1> DEFINE q == n \div size
<1>1. q \in Nat /\ n < q * size + size
  BY Quotient
<1> HIDE DEF q
<1>2. q * size \in Nat /\ (q + 1) * size = q * size + size
  BY <1>1
<1>3. (q + 2) * size = q * size + size + size
  BY <1>1
<1> QED BY <1>1, <1>2, <1>3 DEF q

\* An entry is made within two buckets of its cookie, and its deadline never moves.
LEMMA OpeningStep ==
  ASSUME Typed, OpeningDiesWithCookie, [Next]_vars
  PROVE  OpeningDiesWithCookie'
<1> DEFINE Dies(p) == p.deadline < (p.opening.cookie.bucket + 2) * BUCKET + PENDING_TIMEOUT
<1>1. pending' \subseteq pending => OpeningDiesWithCookie'
  BY Zenon DEF OpeningDiesWithCookie
<1>2. ASSUME NEW m \in net, NEW b \in Binding, ReceiveOpenAuth(m, b)
      PROVE  OpeningDiesWithCookie'
  <2> DEFINE new == [scid |-> m.scid, opening |-> m, binding |-> b, ack |-> NextAck(m),
                     deadline |-> now + PENDING_TIMEOUT]
  <2>1. pending' = LivePending \cup {new} /\ LivePending \subseteq pending
    BY <1>2, LiveEntries, Zenon DEF ReceiveOpenAuth
  <2>2. m.cookie.bucket \in {now \div BUCKET, (now \div BUCKET) - 1}
    BY <1>2 DEF ReceiveOpenAuth, CookieMatches, Cookie
  <2>3. now \in Nat /\ BUCKET \in Nat \ {0} /\ PENDING_TIMEOUT \in Nat
    BY Constants, HandshakeAssumption, Zenon DEF Typed
  <2>4. /\ now \div BUCKET \in Nat
        /\ now < (now \div BUCKET + 1) * BUCKET /\ now < (now \div BUCKET + 2) * BUCKET
    BY <2>3, BucketEnds, Zenon
  <2>5. (now \div BUCKET) - 1 + 2 = now \div BUCKET + 1
    BY <2>4
  <2>6. now < (m.cookie.bucket + 2) * BUCKET
    BY <2>2, <2>4, <2>5, Zenon
  <2>7. m.cookie.bucket + 2 \in Nat
    BY <2>2, <2>4
  <2>8. (m.cookie.bucket + 2) * BUCKET \in Nat
    BY <2>3, <2>7
  <2>9. now + PENDING_TIMEOUT < (m.cookie.bucket + 2) * BUCKET + PENDING_TIMEOUT
    BY <2>3, <2>6, <2>8
  <2>10. Dies(new)
    BY <2>9, Zenon
  <2> HIDE DEF new
  <2> QED BY <2>1, <2>10, Zenon DEF OpeningDiesWithCookie
<1>3. ASSUME NEW m \in net, NEW p \in pending, ReceiveAccept(p, m)
      PROVE  pending' \subseteq pending
  BY <1>3, LiveEntries, Zenon DEF ReceiveAccept
<1> QED BY <1>1, <1>2, <1>3, StepKinds, Zenon DEF Shrinks, Updates

\* A recorded OPEN_AUTH takes a pending slot only while its cookie is in its two
\* buckets (receive_open_auth), whatever expired, closed, rotated or restarted
\* since: for every bucket, timeout and number of replays.
THEOREM OpeningsDie == Spec => []OpeningDiesWithCookie
<1>1. Init => OpeningDiesWithCookie
  BY Zenon DEF Init, OpeningDiesWithCookie
<1>2. IInv /\ OpeningDiesWithCookie /\ [Next]_vars => OpeningDiesWithCookie'
  BY OpeningStep, Zenon DEF IInv
<1> QED BY <1>1, <1>2, Invariance, PTL DEF Spec

-----------------------------------------------------------------------------
(* Deadlines, the sizes of the tables and the number of bootstraps *)

Timely ==
  /\ \A p \in pending : p.deadline <= now + PENDING_TIMEOUT
  /\ \A s \in established : s.lastActive <= s.heard /\ s.heard <= now

LEMMA Clock == ASSUME Typed, [Next]_vars PROVE now' \in Nat /\ now <= now'
<1>1. now' \in {now, now + 1}
  BY PacketSources, Zenon DEF ReceiveOpen, ReceiveOpenAuth, RotateKey, Restart, Pass
<1>2. now \in Nat
  BY Zenon DEF Typed
<1> QED BY <1>1, <1>2

LEMMA TimelyStep == ASSUME Typed, Timely, [Next]_vars PROVE Timely'
<1> DEFINE OnTime(p) == p.deadline <= now' + PENDING_TIMEOUT
           Heard(t) == t.lastActive <= t.heard /\ t.heard <= now'
<1>0. /\ now \in Nat /\ now' \in Nat /\ now <= now' /\ PENDING_TIMEOUT \in Nat
      /\ \A p \in pending : p.deadline \in Nat
      /\ \A s \in established : s.lastActive \in Nat /\ s.heard \in Nat
  BY Clock, Constants, Zenon DEF Typed, PendingT, SessionT
<1>1. /\ \A p \in pending : OnTime(p)
      /\ \A s \in established : Heard(s)
  BY <1>0 DEF Timely
<1> SUFFICES (\A p \in pending' : OnTime(p)) /\ (\A s \in established' : Heard(s))
  BY Zenon DEF Timely
<1> HIDE DEF OnTime, Heard
<1>2. CASE Shrinks
  BY <1>1, <1>2, Zenon DEF Shrinks
<1>3. ASSUME NEW s \in established, NEW t \in SessionT, Updates(s, t)
      PROVE  (\A p \in pending' : OnTime(p)) /\ (\A r \in established' : Heard(r))
  <2>1. \/ t.lastActive = s.lastActive /\ t.heard = s.heard
        \/ t.lastActive \in {s.lastActive, now} /\ t.heard = now
    BY <1>3, Zenon DEF Updates
  <2>2. s.lastActive <= s.heard /\ s.heard <= now
    BY Zenon DEF Timely
  <2>3. s.lastActive \in Nat /\ s.heard \in Nat
    BY <1>0, Zenon
  <2>4. Heard(t)
    BY <1>0, <2>1, <2>2, <2>3 DEF Heard
  <2> QED BY <1>1, <1>3, <2>4, Zenon DEF Updates
<1>4. ASSUME NEW m \in net, NEW b \in Binding, ReceiveOpenAuth(m, b)
      PROVE  (\A p \in pending' : OnTime(p)) /\ (\A r \in established' : Heard(r))
  <2> DEFINE n == [scid |-> m.scid, opening |-> m, binding |-> b, ack |-> NextAck(m),
                   deadline |-> now + PENDING_TIMEOUT]
  <2>1. pending' = LivePending \cup {n} /\ established' = LiveEstablished
    BY <1>4, Zenon DEF ReceiveOpenAuth
  <2>2. n.deadline = now + PENDING_TIMEOUT
    OBVIOUS
  <2> HIDE DEF n
  <2>a. now + PENDING_TIMEOUT <= now' + PENDING_TIMEOUT
    <3>1. now \in Nat /\ now' \in Nat /\ now <= now' /\ PENDING_TIMEOUT \in Nat
      BY <1>0, Zenon
    <3>2. \A x, y, z \in Nat : x <= y => x + z <= y + z
      OBVIOUS
    <3> QED BY <3>1, <3>2, Zenon
  <2>3. OnTime(n)
    BY <2>2, <2>a, Zenon DEF OnTime
  <2> QED BY <1>1, <2>1, <2>3, LiveEntries, Zenon
<1>5. ASSUME NEW m \in net, NEW p \in pending, ReceiveAccept(p, m)
      PROVE  (\A q \in pending' : OnTime(q)) /\ (\A r \in established' : Heard(r))
  <2>1. /\ pending' \subseteq pending
        /\ established' \subseteq established \cup {Promoted(p, m)}
    BY <1>5, Promotion, Zenon
  <2>2. Promoted(p, m).lastActive = now /\ Promoted(p, m).heard = now
    BY Zenon DEF Promoted
  <2>3. Heard(Promoted(p, m))
    BY <1>0, <2>2 DEF Heard
  <2> QED BY <1>1, <2>1, <2>3, Zenon
<1> QED BY <1>2, <1>3, <1>4, <1>5, StepKinds, Zenon

Within(S, limit) == IsFiniteSet(S) /\ Cardinality(S) <= limit

LEMMA WithinSubset ==
  ASSUME NEW S, NEW limit \in Nat, Within(S, limit), NEW T \in SUBSET S
  PROVE  Within(T, limit)
<1>1. /\ IsFiniteSet(T) /\ Cardinality(T) <= Cardinality(S) /\ Cardinality(S) <= limit
      /\ IsFiniteSet(S)
  BY FS_Subset, Zenon DEF Within
<1>2. Cardinality(T) \in Nat /\ Cardinality(S) \in Nat
  BY <1>1, FS_CardinalityType, Zenon
<1> QED BY <1>1, <1>2 DEF Within

LEMMA WithinAdd ==
  ASSUME NEW S, NEW x, NEW limit \in Nat, IsFiniteSet(S), Cardinality(S) < limit
  PROVE  Within(S \cup {x}, limit)
<1>1. IsFiniteSet(S \cup {x}) /\ Cardinality(S) \in Nat
  BY FS_AddElement, FS_CardinalityType, Zenon
<1>2. Cardinality(S \cup {x}) = Cardinality(S) \/ Cardinality(S \cup {x}) = Cardinality(S) + 1
  BY FS_AddElement, Zenon
<1> QED BY <1>1, <1>2 DEF Within

LEMMA WithinReplace ==
  ASSUME NEW S, NEW s \in S, NEW x, NEW limit \in Nat, Within(S, limit)
  PROVE  Within((S \ {s}) \cup {x}, limit)
<1>1. IsFiniteSet(S) /\ Cardinality(S) <= limit /\ Cardinality(S) \in Nat
  BY FS_CardinalityType, Zenon DEF Within
<1>2. IsFiniteSet(S \ {s}) /\ Cardinality(S \ {s}) = Cardinality(S) - 1
  BY <1>1, FS_RemoveElement, Zenon
<1>3. Cardinality(S \ {s}) < limit
  BY <1>1, <1>2
<1> QED BY <1>2, <1>3, WithinAdd, Zenon

Sized == Within(pending, PENDING_LIMIT) /\ Within(established, ESTABLISHED_LIMIT)

LEMMA SizedStep == ASSUME Typed, Sized, [Next]_vars PROVE Sized'
<1>0. PENDING_LIMIT \in Nat /\ ESTABLISHED_LIMIT \in Nat
  BY HandshakeAssumption
<1>a. \A T : /\ T \subseteq pending => Within(T, PENDING_LIMIT)
             /\ T \subseteq established => Within(T, ESTABLISHED_LIMIT)
  BY <1>0, WithinSubset, Zenon DEF Sized
<1>b. Within(pending', PENDING_LIMIT) /\ Within(established', ESTABLISHED_LIMIT) => Sized'
  BY Zenon DEF Sized, Within
<1>1. CASE Shrinks
  BY <1>1, <1>a, <1>b, Zenon DEF Shrinks
<1>2. ASSUME NEW s \in established, NEW t \in SessionT, Updates(s, t)
      PROVE  Sized'
  <2>1. Within((established \ {s}) \cup {t}, ESTABLISHED_LIMIT)
    BY <1>0, WithinReplace, Zenon DEF Sized
  <2>2. established' \subseteq (established \ {s}) \cup {t} /\ pending' \subseteq pending
    BY <1>2, Zenon DEF Updates
  <2>3. Within(established', ESTABLISHED_LIMIT)
    BY <1>0, <2>1, <2>2, WithinSubset, Zenon
  <2> QED BY <1>a, <1>b, <2>2, <2>3, Zenon
<1>3. ASSUME NEW m \in net, NEW b \in Binding, ReceiveOpenAuth(m, b)
      PROVE  Sized'
  <2>1. IsFiniteSet(LivePending)
    BY <1>a, LiveEntries, Zenon DEF Within
  <2>2. Cardinality(LivePending) < PENDING_LIMIT
    BY <1>3, Zenon DEF ReceiveOpenAuth
  <2>3. \A x : Within(LivePending \cup {x}, PENDING_LIMIT)
    BY <1>0, <2>1, <2>2, WithinAdd, Zenon
  <2>4. established' \subseteq established /\ \E x : pending' = LivePending \cup {x}
    BY <1>3, LiveEntries, Zenon DEF ReceiveOpenAuth
  <2> QED BY <1>a, <1>b, <2>3, <2>4, Zenon
<1>4. ASSUME NEW m \in net, NEW p \in pending, ReceiveAccept(p, m)
      PROVE  Sized'
  <2>1. IsFiniteSet(LiveEstablished)
    BY <1>a, LiveEntries, Zenon DEF Within
  <2>2. Cardinality(LiveEstablished) < ESTABLISHED_LIMIT
    BY <1>4, Zenon DEF ReceiveAccept, CanPromote
  <2>3. \A x : Within(LiveEstablished \cup {x}, ESTABLISHED_LIMIT)
    BY <1>0, <2>1, <2>2, WithinAdd, Zenon
  <2>4. pending' \subseteq pending /\ \E x : established' = LiveEstablished \cup {x}
    BY <1>4, LiveEntries, Zenon DEF ReceiveAccept
  <2> QED BY <1>a, <1>b, <2>3, <2>4, Zenon
<1> QED BY <1>1, <1>2, <1>3, <1>4, StepKinds, Zenon

\* What was acknowledged: every number once, and every entry and every
\* transcript handed out under one of them.
OfferInv ==
  /\ \A m \in net : m.type = "OPEN_ACK" => m.transcript.ack \in 1 .. acks
  /\ \A m, n \in net :
       /\ m.type = "OPEN_ACK" /\ n.type = "OPEN_ACK"
       /\ m.transcript.ack = n.transcript.ack
       => m.transcript = n.transcript
  /\ \A e \in Entries : OpenAck(TranscriptOf(e)) \in net
  /\ \A i \in DOMAIN bootstraps : OpenAck(bootstraps[i].transcript) \in net

LEMMA HandedTranscripts ==
  ASSUME IInv, OfferInv, [Next]_vars
  PROVE  \A i \in DOMAIN bootstraps' : OpenAck(bootstraps'[i].transcript) \in net
<1>0. Typed /\ ClientInv /\ bootstraps \in Seq(BootstrapT)
  BY Zenon DEF IInv, Typed
<1>a. \A e, t, n : Bootstrap(e, t, n).transcript = t
  BY Zenon DEF Bootstrap
<1>1. ASSUME NEW x \in BootstrapT, bootstraps' = Append(bootstraps, x),
             OpenAck(x.transcript) \in net
      PROVE  \A i \in DOMAIN bootstraps' : OpenAck(bootstraps'[i].transcript) \in net
  BY <1>0, <1>1, Appended, Zenon DEF OfferInv
<1>2. ASSUME NEW a \in Attempt, ClientBootstrap(a)
      PROVE  \A i \in DOMAIN bootstraps' : OpenAck(bootstraps'[i].transcript) \in net
  <2> DEFINE x == Bootstrap("client", client[a].transcript, client[a].next)
  <2>1. bootstraps' = Append(bootstraps, x) /\ client[a].state = "Established"
    BY <1>2, Zenon DEF ClientBootstrap
  <2>2. /\ client[a] \in ClientT /\ client[a].transcript # None
        /\ OpenAck(client[a].transcript) \in net
    BY <1>0, <2>1, Zenon DEF Typed, ClientInv
  <2>3. client[a].transcript \in TranscriptT /\ client[a].next \in Sendable
    BY <2>2, Zenon DEF ClientT
  <2>4. x \in BootstrapT /\ x.transcript = client[a].transcript
    BY <1>a, <2>3, Zenon DEF Bootstrap, BootstrapT
  <2> QED BY <1>1, <2>1, <2>2, <2>4, Zenon
<1>3. ASSUME NEW s \in established, ServerBootstrap(s)
      PROVE  \A i \in DOMAIN bootstraps' : OpenAck(bootstraps'[i].transcript) \in net
  <2> DEFINE x == Bootstrap("server", TranscriptOf(s), s.next)
  <2>1. bootstraps' = Append(bootstraps, x) /\ OpenAck(TranscriptOf(s)) \in net
    BY <1>3, Zenon DEF ServerBootstrap, OfferInv, Entries
  <2>2. s \in SessionT /\ TranscriptOf(s) \in TranscriptT /\ s.next \in Sendable
    BY <1>0, EntryTranscripts, Zenon DEF Typed, SessionT
  <2>3. x \in BootstrapT /\ x.transcript = TranscriptOf(s)
    BY <1>a, <2>2, Zenon DEF Bootstrap, BootstrapT
  <2> QED BY <1>1, <2>1, <2>3, Zenon
<1> QED BY <1>2, <1>3, BootstrapSources, Zenon DEF OfferInv

LEMMA OfferStep ==
  ASSUME IInv, OfferInv, [Next]_vars
  PROVE  OfferInv'
<1>0. Typed /\ PacketInv /\ AckInv /\ acks \in Nat
  BY Zenon DEF IInv, Typed
<1>a. \A t : OpenAck(t).type = "OPEN_ACK" /\ OpenAck(t).transcript = t
  BY Zenon DEF OpenAck
<1>b. \A i \in DOMAIN bootstraps' : OpenAck(bootstraps'[i].transcript) \in net
  BY HandedTranscripts, Zenon
<1>c. /\ \A m \in net' : m.type = "OPEN_ACK" => m.transcript.ack \in 1 .. acks'
      /\ \A m, n \in net' :
           /\ m.type = "OPEN_ACK" /\ n.type = "OPEN_ACK"
           /\ m.transcript.ack = n.transcript.ack
           => m.transcript = n.transcript
      /\ \A e \in Entries' : OpenAck(TranscriptOf(e)) \in net'
      /\ net \subseteq net'
      => OfferInv'
  BY <1>b, Zenon DEF OfferInv, OpenAck, TranscriptOf, Transcript
<1>1. ASSUME NEW m \in net, NEW b \in Binding, ReceiveOpenAuth(m, b)
      PROVE  OfferInv'
  <2> DEFINE t == Transcript(m, acks + 1)
             n == [scid |-> m.scid, opening |-> m, binding |-> b, ack |-> acks + 1,
                   deadline |-> now + PENDING_TIMEOUT]
  <2>1. /\ net' = net \cup {OpenAck(t)} /\ acks' = acks + 1
        /\ pending' = LivePending \cup {n} /\ established' = LiveEstablished
    BY <1>1, Zenon DEF ReceiveOpenAuth, NextAck
  <2>2. t.ack = acks + 1 /\ TranscriptOf(n) = t
    BY DEF Transcript, TranscriptOf
  <2> HIDE DEF t, n
  <2>3. /\ \A x \in net : x.type = "OPEN_ACK" =>
             x.transcript.ack \in 1 .. acks + 1 /\ x.transcript.ack # acks + 1
        /\ acks + 1 \in 1 .. acks + 1
    BY <1>0 DEF OfferInv
  <2>4. \A x \in net' : x.type = "OPEN_ACK" => x.transcript.ack \in 1 .. acks'
    BY <1>a, <2>1, <2>2, <2>3, Zenon
  <2>5. \A x, y \in net' : /\ x.type = "OPEN_ACK" /\ y.type = "OPEN_ACK"
                           /\ x.transcript.ack = y.transcript.ack
                           => x.transcript = y.transcript
    <3> SUFFICES ASSUME NEW x \in net', NEW y \in net', x.type = "OPEN_ACK",
                        y.type = "OPEN_ACK", x.transcript.ack = y.transcript.ack
                 PROVE  x.transcript = y.transcript
      BY Zenon
    <3>1. \A z \in net' : z.type = "OPEN_ACK" =>
            \/ z \in net /\ z.transcript.ack # acks + 1
            \/ z.transcript = t
      BY <1>a, <2>1, <2>3, Zenon
    <3> QED BY <2>2, <3>1, Zenon DEF OfferInv
  <2>6. \A e \in Entries' : e \in Entries \/ e = n
    BY <2>1, LiveEntries, Zenon DEF Entries
  <2>7. \A e \in Entries' : OpenAck(TranscriptOf(e)) \in net'
    BY <2>1, <2>2, <2>6, Zenon DEF OfferInv
  <2> QED BY <1>c, <2>1, <2>4, <2>5, <2>7, Zenon
<1>2. ASSUME Carried, \A x \in net' : x.type = "OPEN_ACK" => x \in net
      PROVE  OfferInv'
  <2>1. acks' = acks /\ net \subseteq net'
    BY <1>2, Zenon DEF Carried
  <2>2. \A e \in Entries' : OpenAck(TranscriptOf(e)) \in net'
    <3>1. \A e, f : Same(e, f) => TranscriptOf(e) = TranscriptOf(f)
      BY Zenon DEF Same, TranscriptOf
    <3> QED BY <1>2, <3>1, Zenon DEF Carried, OfferInv
  <2> QED BY <1>2, <1>c, <2>1, <2>2, Zenon DEF OfferInv
<1>3. \/ \E m \in net, b \in Binding : ReceiveOpenAuth(m, b)
      \/ \A x \in net' : x.type = "OPEN_ACK" => x \in net
  <2>1. ASSUME NEW m \in net, NEW b \in Binding, ReceiveOpen(m, b)
        PROVE  \A x \in net' : x.type = "OPEN_ACK" => x \in net
    <3>1. \A c : VerifyCookie(c).type = "VERIFY_COOKIE"
      BY Zenon DEF VerifyCookie
    <3> QED BY <2>1, <3>1, Zenon DEF ReceiveOpen
  <2>2. RotateKey \/ Restart \/ Pass => net' = net
    BY Zenon DEF RotateKey, Restart, Pass
  <2> QED BY <2>1, <2>2, PacketSources, Zenon
<1> QED BY <1>0, <1>1, <1>2, <1>3, CarriedStep, Zenon

\* At most two bootstraps, one at each end, for each acknowledgement.
LEMMA BootstrapsCounted ==
  ASSUME IInv, OfferInv
  PROVE  Len(bootstraps) <= 2 * acks
<1> DEFINE S == 1 .. Len(bootstraps)
           T == 1 .. 2 * acks
           n(i) == bootstraps[i].transcript.ack
           f == [i \in S |-> IF bootstraps[i].end = "client" THEN 2 * n(i) ELSE 2 * n(i) - 1]
<1>0. bootstraps \in Seq(BootstrapT) /\ acks \in Nat
  BY Zenon DEF IInv, Typed
<1>1. Len(bootstraps) \in Nat /\ S = DOMAIN bootstraps
  BY <1>0
<1>2. \A t : OpenAck(t).type = "OPEN_ACK" /\ OpenAck(t).transcript = t
  BY Zenon DEF OpenAck
<1>3. ASSUME NEW i \in S PROVE n(i) \in 1 .. acks
  <2>1. OpenAck(bootstraps[i].transcript) \in net
    BY <1>1, Zenon DEF OfferInv
  <2>2. \A m \in net : m.type = "OPEN_ACK" => m.transcript.ack \in 1 .. acks
    BY Zenon DEF OfferInv
  <2> HIDE DEF S, OfferInv
  <2> QED BY <1>2, <2>1, <2>2, Zenon
<1>4. \A i, j \in S : bootstraps[i].end = bootstraps[j].end /\ n(i) = n(j) => i = j
  <2>1. \A i, j \in S : n(i) = n(j) => bootstraps[i].transcript = bootstraps[j].transcript
    <3> SUFFICES ASSUME NEW i \in S, NEW j \in S, n(i) = n(j)
                 PROVE  bootstraps[i].transcript = bootstraps[j].transcript
      BY Zenon
    <3> DEFINE x == OpenAck(bootstraps[i].transcript)
               y == OpenAck(bootstraps[j].transcript)
    <3>1. x \in net /\ y \in net
      BY <1>1, Zenon DEF OfferInv
    <3>2. /\ x.type = "OPEN_ACK" /\ x.transcript = bootstraps[i].transcript
          /\ y.type = "OPEN_ACK" /\ y.transcript = bootstraps[j].transcript
      BY <1>2, Zenon
    <3> HIDE DEF x, y
    <3> QED BY <3>1, <3>2, Zenon DEF OfferInv
  <2>2. BootstrapOnce
    BY Zenon DEF IInv
  <2> HIDE DEF S, n
  <2> QED BY <1>1, <2>1, <2>2, Zenon DEF BootstrapOnce
<1>5. \A i \in S : bootstraps[i].end \in {"client", "server"}
  <2>1. \A i \in S : bootstraps[i] \in BootstrapT
    BY <1>0, <1>1
  <2> QED BY <2>1, Zenon DEF BootstrapT
<1> HIDE DEF n
<1>6. f \in [S -> T]
  BY <1>0, <1>3
<1>7. \A i, j \in S : f[i] = f[j] => i = j
  <2> SUFFICES ASSUME NEW i \in S, NEW j \in S, f[i] = f[j]
               PROVE  i = j
    OBVIOUS
  <2>1. n(i) \in Nat /\ n(j) \in Nat
    BY <1>0, <1>3
  <2>2. bootstraps[i].end = bootstraps[j].end /\ n(i) = n(j)
    BY <1>5, <2>1
  <2> QED BY <1>4, <2>2, Zenon
<1>8. /\ IsFiniteSet(S) /\ Cardinality(S) = Len(bootstraps)
      /\ IsFiniteSet(T) /\ Cardinality(T) = 2 * acks
  <2>1. \A k \in Nat : IsFiniteSet(1 .. k) /\ Cardinality(1 .. k) = k
    <3> SUFFICES ASSUME NEW k \in Nat PROVE IsFiniteSet(1 .. k) /\ Cardinality(1 .. k) = k
      OBVIOUS
    <3>1. 1 \in Int /\ k \in Int
      OBVIOUS
    <3>2. /\ IsFiniteSet(1 .. k)
          /\ Cardinality(1 .. k) = IF 1 > k THEN 0 ELSE k - 1 + 1
      BY <3>1, FS_Interval, Zenon
    <3> QED BY <3>2
  <2>2. Len(bootstraps) \in Nat /\ 2 * acks \in Nat
    BY <1>0, <1>1
  <2> QED BY <2>1, <2>2, Zenon
<1> HIDE DEF f, S, T
<1>9. ASSUME Cardinality(T) < Cardinality(S)
      PROVE  FALSE
  <2>1. \E i, j \in S : i # j /\ f[i] = f[j]
    BY <1>6, <1>8, <1>9, FS_PigeonHole, Zenon
  <2> QED BY <1>7, <2>1, Zenon
<1> QED BY <1>0, <1>1, <1>8, <1>9

TableInv == Timely /\ Sized /\ OfferInv

LEMMA TableInit == ASSUME Init PROVE TableInv
<1>1. pending = {} /\ established = {} /\ net = {} /\ bootstraps = <<>>
  BY Zenon DEF Init
<1>2. Timely
  BY <1>1, Zenon DEF Timely
<1>3. Sized
  <2>1. IsFiniteSet({}) /\ Cardinality({}) = 0
    BY FS_EmptySet, Zenon
  <2>2. 0 <= PENDING_LIMIT /\ 0 <= ESTABLISHED_LIMIT
    BY HandshakeAssumption
  <2> QED BY <1>1, <2>1, <2>2, Zenon DEF Sized, Within
<1>4. OfferInv
  <2>1. DOMAIN bootstraps = {}
    BY <1>1
  <2> QED BY <1>1, <2>1, Zenon DEF OfferInv, Entries
<1> QED BY <1>2, <1>3, <1>4, Zenon DEF TableInv

LEMMA TableStep == ASSUME IInv, TableInv, [Next]_vars PROVE TableInv'
BY TimelyStep, SizedStep, OfferStep, Zenon DEF TableInv, IInv

\* The machines hold only states they can hold: counters and deadlines keep
\* their ranges, the tables their limits (receive_open_auth, receive_accept),
\* and an acknowledgement leads to at most one bootstrap at each end.
THEOREM TypeCorrect == Spec => []TypeOK
<1>1. ASSUME IInv, TableInv
      PROVE  TypeOK
  <2>0. Typed /\ Timely /\ Sized /\ OfferInv /\ AckInv
    BY <1>1, Zenon DEF IInv, TableInv
  <2>1. ASSUME NEW a \in Attempt
        PROVE  /\ client[a].state \in
                    {"Idle", "CookieWait", "AuthWait", "Established", "Released"}
               /\ client[a].deadline \in 0 .. MaxTime + OPEN_TIMEOUT
               /\ client[a].next \in 1 .. COUNTER_MAX + 1
               /\ client[a].seen \subseteq 1 .. COUNTER_MAX
    <3>1. client[a] \in ClientT
      BY <2>0, Zenon DEF Typed
    <3> QED BY <3>1, Zenon DEF ClientT, Deadline, Sendable, Counter
  <2>2. boot \in 0 .. MaxRestarts /\ acks \in 0 .. MaxAcks /\ now \in 0 .. MaxTime
    <3>1. /\ boot \in Nat /\ acks \in Nat /\ now \in Nat
          /\ boot <= MaxRestarts /\ acks <= MaxAcks /\ now <= MaxTime
      BY <2>0, Zenon DEF Typed
    <3> QED BY <3>1, Constants
  <2>3. cookieKey.current \in 1 .. MaxRotations + 1
    BY <2>0, Zenon DEF Typed
  <2>4. Cardinality(pending) <= PENDING_LIMIT /\ Cardinality(established) <= ESTABLISHED_LIMIT
    BY <2>0, Zenon DEF Sized, Within
  <2>5. Len(bootstraps) <= 2 * MaxAcks
    <3>1. Len(bootstraps) <= 2 * acks
      BY <1>1, <2>0, BootstrapsCounted, Zenon
    <3>2. bootstraps \in Seq(BootstrapT) /\ acks \in Nat /\ acks <= MaxAcks
      BY <2>0, Zenon DEF Typed
    <3>3. Len(bootstraps) \in Nat
      BY <3>2
    <3> QED BY <3>1, <3>2, <3>3, Constants
  <2>6. ASSUME NEW p \in pending
        PROVE  p.deadline <= now + PENDING_TIMEOUT /\ p.ack \in 1 .. acks
    <3>1. p.deadline <= now + PENDING_TIMEOUT /\ p.ack \in Nat \ {0} /\ p.ack <= acks
      BY <2>0, Zenon DEF Timely, Typed, PendingT, AckInv
    <3>2. acks \in Nat
      BY <2>0, Zenon DEF Typed
    <3> QED BY <3>1, <3>2
  <2>7. ASSUME NEW s \in established
        PROVE  /\ s.lastActive \in 0 .. now /\ s.heard \in s.lastActive .. now
               /\ s.next \in 1 .. COUNTER_MAX + 1 /\ s.seen \subseteq 1 .. COUNTER_MAX
    <3>1. /\ s.lastActive \in Nat /\ s.heard \in Nat /\ now \in Nat
          /\ s.next \in Sendable /\ s.seen \in SUBSET Counter
      BY <2>0, Zenon DEF Typed, SessionT
    <3>2. s.lastActive <= s.heard /\ s.heard <= now
      BY <2>0, Zenon DEF Timely
    <3>3. s.lastActive \in 0 .. now /\ s.heard \in s.lastActive .. now
      BY <3>1, <3>2
    <3> QED BY <3>1, <3>3, Zenon DEF Sendable, Counter
  <2> QED BY <2>1, <2>2, <2>3, <2>4, <2>5, <2>6, <2>7, Zenon DEF TypeOK
<1>2. IInv /\ TableInv => TypeOK
  BY <1>1, Zenon
<1> QED BY <1>2, Invariance, TableInit, TableStep, PTL DEF Spec
==============================================================================
