------------------------------ MODULE Handshake ------------------------------
(***************************************************************************)
(* The cookie-first session machines of r8-session: several `ClientMachine`*)
(* attempts, one `ServerMachine`, and the network between them.            *)
(*                                                                         *)
(*   OPEN -> VERIFY_COOKIE -> OPEN_AUTH -> OPEN_ACK -> SESSION_ACCEPT      *)
(*                                                                         *)
(* then protected SESSION_DATA and CLOSE.  The network keeps every packet: *)
(* it may lose, delay, reorder and repeat each of them, and the server may *)
(* observe a packet under any binding.                                     *)
(*                                                                         *)
(* Signatures, MACs and AEAD are the fields they cover.  An attempt stands *)
(* for its ephemeral key and nonce, the number of an acknowledgement for   *)
(* the server's, the number of a key or of a boot instance for its bytes.  *)
(* A session's counters never leave the replay window here, so the window  *)
(* is the set of counters marked (DirectionalSession has the window).      *)
(***************************************************************************)
EXTENDS Naturals, FiniteSets, Sequences

CONSTANTS
  Attempt,            \* client machines, one per connection attempt
  Scid,               \* SCIDs an attempt may draw
  Binding,            \* bindings the server may observe
  Profile,            \* the session profile; 3 may take the session out
  PENDING_LIMIT, ESTABLISHED_LIMIT,
  OPEN_TIMEOUT,       \* client deadline (5 s)
  PENDING_TIMEOUT,    \* life of a pending session (5 s)
  BUCKET,             \* cookie bucket (10 s)
  KEY_RETENTION,      \* use of a replaced cookie key (20 s)
  ROTATION,           \* interval of key rotations (600 s)
  IDLE_TIMEOUT,       \* server idle timeout (120 s)
  COUNTER_MAX,        \* last usable send counter (u64::MAX - 1)
  MaxStart, MaxTime, MaxAcks, MaxRotations, MaxRestarts   \* bounds

ASSUME HandshakeAssumption ==
  /\ {Profile, PENDING_LIMIT, ESTABLISHED_LIMIT, BUCKET, COUNTER_MAX}
       \subseteq Nat \ {0}
  /\ {OPEN_TIMEOUT, PENDING_TIMEOUT, KEY_RETENTION, ROTATION, IDLE_TIMEOUT}
       \subseteq Nat
  /\ {MaxStart, MaxTime, MaxAcks, MaxRotations, MaxRestarts} \subseteq Nat

\* A cookie lives for two buckets: a replaced key is kept that long, and keys
\* are not replaced more often.
ASSUME CookieAssumption ==
  KEY_RETENTION >= 2 * BUCKET /\ ROTATION >= 2 * BUCKET

None == <<>>

VARIABLES
  client,      \* ClientState of each attempt
  boot,        \* server boot instance
  cookieKey,   \* current, previous and rotated: the server's cookie keys
  pending, established,     \* the server's sessions
  acks,        \* OPEN_ACKs the server has made, one ephemeral key each
  net,         \* every packet sent
  now,
  taken,       \* history: protected packets the server has accepted
  bootstraps   \* Profile 3 bootstraps handed out, in order

server == <<boot, cookieKey, pending, established, acks>>
vars == <<client, server, net, now, taken, bootstraps>>

-----------------------------------------------------------------------------
(* Packets *)

Open(a, scid) == [type |-> "OPEN", scid |-> scid, attempt |-> a]

\* Faulty variant of Cookie: the observed binding is not part of the input.
CookieAnywhere(open, b, k, bucket) ==
  [key |-> k, binding |-> CHOOSE x \in Binding : TRUE, scid |-> open.scid,
   attempt |-> open.attempt, boot |-> boot, bucket |-> bucket]

\* cookie_input and its MAC
Cookie(open, b, k, bucket) ==
  [key |-> k, binding |-> b, scid |-> open.scid, attempt |-> open.attempt,
   boot |-> boot, bucket |-> bucket]

VerifyCookie(cookie) ==
  [type |-> "VERIFY_COOKIE", scid |-> cookie.scid, attempt |-> cookie.attempt,
   boot |-> cookie.boot, cookie |-> cookie]

OpenAuth(a, verify) ==
  [type |-> "OPEN_AUTH", scid |-> verify.scid, attempt |-> a,
   boot |-> verify.boot, cookie |-> verify.cookie]

\* The transcript both ends hash, which also names the derived keys.
Transcript(auth, n) ==
  [scid |-> auth.scid, attempt |-> auth.attempt, boot |-> auth.boot, ack |-> n]

OpenAck(t) == [type |-> "OPEN_ACK", scid |-> t.scid, transcript |-> t]

Protected(type, from, t, n) ==
  [type |-> type, scid |-> t.scid, from |-> from, transcript |-> t, counter |-> n]

Accept(t) == Protected("SESSION_ACCEPT", "client", t, 1)

\* what a client may find in its socket
ToClient == {m \in net : \/ m.type \in {"VERIFY_COOKIE", "OPEN_ACK"}
                         \/ m.type \in {"SESSION_DATA", "CLOSE"} /\ m.from = "server"}

-----------------------------------------------------------------------------
(* State *)

Idle == [state |-> "Idle", scid |-> None, deadline |-> 0, auth |-> None, transcript |-> None,
         next |-> 1, seen |-> {}, heard |-> 0]
Released == [Idle EXCEPT !.state = "Released"]

Init ==
  /\ client = [a \in Attempt |-> Idle]
  /\ boot = 0
  /\ cookieKey = [current |-> 1, previous |-> 0, rotated |-> 0]
  /\ pending = {} /\ established = {}
  /\ acks = 0
  /\ net = {}
  /\ now = 0
  /\ taken = {}
  /\ bootstraps = <<>>

TranscriptOf(entry) == Transcript(entry.opening, entry.ack)

\* ServerMachine::expire, which every receiving call runs first
LivePending == {p \in pending : now < p.deadline}
LiveEstablished == {s \in established : now - s.lastActive < IDLE_TIMEOUT}

-----------------------------------------------------------------------------
(* Client machine *)

\* start, with a SCID drawn at random
Start(a, scid) ==
  /\ client[a].state = "Idle"
  /\ now <= MaxStart
  /\ client' = [client EXCEPT ![a] =
       [@ EXCEPT !.state = "CookieWait", !.scid = scid,
                 !.deadline = now + OPEN_TIMEOUT]]
  /\ net' = net \cup {Open(a, scid)}
  /\ UNCHANGED <<server, now, taken, bootstraps>>

\* A late client is released by `expire`, which only the tests call, in
\* CookieWait also by retry and receive_verify, in AuthWait by receive_ack.
Expires(c) == c.state \in {"CookieWait", "AuthWait"} /\ now >= c.deadline

ClientExpire(a) ==
  /\ Expires(client[a])
  /\ client' = [client EXCEPT ![a] = Released]
  /\ UNCHANGED <<server, net, now, taken, bootstraps>>

\* validate_verify_cookie: the client cannot check the cookie itself
ValidVerify(a, m) ==
  m.type = "VERIFY_COOKIE" /\ m.scid = client[a].scid /\ m.attempt = a

\* receive_verify in CookieWait; a repeat in AuthWait only sends OPEN_AUTH again
ReceiveVerify(a, m) ==
  /\ client[a].state = "CookieWait" /\ now < client[a].deadline
  /\ ValidVerify(a, m)
  /\ client' = [client EXCEPT ![a] =
       [@ EXCEPT !.state = "AuthWait", !.auth = OpenAuth(a, m)]]
  /\ net' = net \cup {OpenAuth(a, m)}
  /\ UNCHANGED <<server, now, taken, bootstraps>>

\* In CookieWait any other packet releases the client.
RejectVerify(a, m) ==
  /\ client[a].state = "CookieWait" /\ now < client[a].deadline
  /\ ~ValidVerify(a, m)
  /\ client' = [client EXCEPT ![a] = Released]
  /\ UNCHANGED <<server, net, now, taken, bootstraps>>

\* The signature covers the opening this client sent and the boot it saw.
ValidAck(a, m) ==
  /\ m.type = "OPEN_ACK" /\ m.scid = client[a].scid
  /\ m.transcript = Transcript(client[a].auth, m.transcript.ack)

\* receive_ack; once Established it only sends the cached ACCEPT again
ReceiveAck(a, m) ==
  /\ client[a].state = "AuthWait" /\ now < client[a].deadline
  /\ ValidAck(a, m)
  /\ LET t == Transcript(client[a].auth, m.transcript.ack) IN
       /\ client' = [client EXCEPT ![a] =
            [Idle EXCEPT !.state = "Established", !.transcript = t,
                         !.next = 2, !.heard = now]]
       /\ net' = net \cup {Accept(t)}
  /\ UNCHANGED <<server, now, taken, bootstraps>>

\* send_data; an exhausted counter releases the client
ClientSend(a) ==
  /\ client[a].state = "Established"
  /\ IF client[a].next > COUNTER_MAX
     THEN client' = [client EXCEPT ![a] = Released] /\ UNCHANGED net
     ELSE /\ client' = [client EXCEPT ![a].next = @ + 1]
          /\ net' = net \cup {Protected("SESSION_DATA", "client",
                                        client[a].transcript, client[a].next)}
  /\ UNCHANGED <<server, now, taken, bootstraps>>

ClientClose(a) ==
  /\ client[a].state = "Established"
  /\ client' = [client EXCEPT ![a] = Released]
  /\ net' = net \cup (IF client[a].next > COUNTER_MAX THEN {}
                      ELSE {Protected("CLOSE", "client", client[a].transcript,
                                      client[a].next)})
  /\ UNCHANGED <<server, now, taken, bootstraps>>

\* a packet of the server that opens under this client's keys, not seen before
Opens(a, m, type) ==
  /\ client[a].state = "Established"
  /\ m.type = type /\ m.from = "server" /\ m.transcript = client[a].transcript
  /\ m.counter \notin client[a].seen

ClientReceiveData(a, m) ==
  /\ Opens(a, m, "SESSION_DATA")
  /\ client' = [client EXCEPT ![a] =
       [@ EXCEPT !.seen = client[a].seen \cup {m.counter}, !.heard = now]]
  /\ UNCHANGED <<server, net, now, taken, bootstraps>>

ClientReceiveClose(a, m) ==
  /\ Opens(a, m, "CLOSE")
  /\ client' = [client EXCEPT ![a] = Released]
  /\ UNCHANGED <<server, net, now, taken, bootstraps>>

\* take_profile3_bootstrap moves the session, its counters and the key schedule
\* out of the machine.
Bootstrap(end, t, next) == [end |-> end, transcript |-> t, next |-> next]

ClientBootstrap(a) ==
  /\ Profile = 3 /\ client[a].state = "Established"
  /\ client' = [client EXCEPT ![a] = Released]
  /\ bootstraps' =
       Append(bootstraps, Bootstrap("client", client[a].transcript, client[a].next))
  /\ UNCHANGED <<server, net, now, taken>>

-----------------------------------------------------------------------------
(* Server machine: the handshake *)

\* receive_open keeps no state.
ReceiveOpen(m, b) ==
  /\ m.type = "OPEN"
  /\ net' = net \cup {VerifyCookie(Cookie(m, b, cookieKey.current, now \div BUCKET))}
  /\ UNCHANGED <<client, server, now, taken, bootstraps>>

\* Faulty variant of CookieMatches: the previous key is dropped one bucket
\* after it was replaced.
CookieMatchesOneBucket(m, b) ==
  \E k \in {cookieKey.current}
             \cup (IF now - cookieKey.rotated < BUCKET
                   THEN {cookieKey.previous} ELSE {}) :
    \E bucket \in {now \div BUCKET, (now \div BUCKET) - 1} :
      m.cookie = Cookie(m, b, k, bucket)

\* Faulty variant of CookieMatches: a cookie lives for three buckets.
CookieMatchesThreeBuckets(m, b) ==
  \E k \in {cookieKey.current}
             \cup (IF now - cookieKey.rotated <= KEY_RETENTION
                   THEN {cookieKey.previous} ELSE {}) :
    \E bucket \in (now \div BUCKET) - 2 .. now \div BUCKET :
      m.cookie = Cookie(m, b, k, bucket)

\* cookie_matches_buckets: either usable key, this bucket or the one before
CookieMatches(m, b) ==
  \E k \in {cookieKey.current}
             \cup (IF now - cookieKey.rotated <= KEY_RETENTION
                   THEN {cookieKey.previous} ELSE {}) :
    \E bucket \in {now \div BUCKET, (now \div BUCKET) - 1} :
      m.cookie = Cookie(m, b, k, bucket)

\* Faulty variant of FreeScid: only pending sessions are looked at.
FreeScidOfPending(scid) == \A e \in LivePending : e.scid # scid

FreeScid(scid) == \A e \in LivePending \cup LiveEstablished : e.scid # scid

\* Faulty variant of NextAck: the server's ephemeral key follows the opening.
NextAckFixed(m) == 1

\* fresh ephemeral key and nonce for every acknowledgement
NextAck(m) == acks + 1

\* receive_open_auth of a new opening.  A known SCID gets the cached
\* acknowledgement again or is refused: either way only expiry happens.
ReceiveOpenAuth(m, b) ==
  /\ m.type = "OPEN_AUTH"
  /\ FreeScid(m.scid)
  /\ m.boot = boot
  /\ CookieMatches(m, b)
  /\ Cardinality(LivePending) < PENDING_LIMIT
  /\ acks < MaxAcks
  /\ acks' = acks + 1
  /\ pending' = LivePending \cup
       {[scid |-> m.scid, opening |-> m, binding |-> b, ack |-> NextAck(m),
         deadline |-> now + PENDING_TIMEOUT]}
  /\ established' = LiveEstablished
  /\ net' = net \cup {OpenAck(Transcript(m, NextAck(m)))}
  /\ UNCHANGED <<client, boot, cookieKey, now, taken, bootstraps>>

\* Faulty variants of CanPromote: no capacity check; capacity off by one; the
\* transcript of the ACCEPT is not compared.
CanPromoteUnlimited(p, m) == m.transcript = TranscriptOf(p)
CanPromoteOneFewer(p, m) ==
  /\ m.transcript = TranscriptOf(p)
  /\ Cardinality(LiveEstablished) + 1 < ESTABLISHED_LIMIT
CanPromoteByScid(p, m) ==
  m.scid = p.scid /\ Cardinality(LiveEstablished) < ESTABLISHED_LIMIT

CanPromote(p, m) ==
  /\ m.transcript = TranscriptOf(p)
  /\ Cardinality(LiveEstablished) < ESTABLISHED_LIMIT

ReceiveAccept(p, m) ==
  /\ m.type = "SESSION_ACCEPT"
  /\ p \in LivePending /\ p.scid = m.scid
  /\ \A s \in LiveEstablished : s.scid # m.scid
  /\ CanPromote(p, m)
  /\ pending' = LivePending \ {p}
  /\ established' = LiveEstablished \cup
       {[scid |-> p.scid, opening |-> p.opening, binding |-> p.binding,
         ack |-> p.ack, lastActive |-> now, heard |-> now,
         next |-> 1, seen |-> {m.counter}]}
  /\ taken' = taken \cup {<<TranscriptOf(p), m.counter>>}
  /\ UNCHANGED <<client, boot, cookieKey, acks, net, now, bootstraps>>

-----------------------------------------------------------------------------
(* Server machine: protected traffic *)

Authentic(s, m, type) ==
  /\ s \in LiveEstablished
  /\ m.type = type /\ m.from = "client" /\ m.transcript = TranscriptOf(s)
  /\ m.counter \notin s.seen

Take(s, m, active) ==
  /\ pending' = LivePending
  /\ established' = (LiveEstablished \ {s}) \cup
       {[s EXCEPT !.seen = @ \cup {m.counter}, !.lastActive = active, !.heard = now]}
  /\ taken' = taken \cup {<<m.transcript, m.counter>>}
  /\ UNCHANGED <<client, boot, cookieKey, acks, net, now, bootstraps>>

\* receive_data (preview_data_with_locs, commit_data)
ReceiveData(s, m) ==
  /\ Authentic(s, m, "SESSION_DATA")
  /\ Take(s, m, now)

\* commit_protected_replay, when the packet carries a control the candidate
\* manager accepts: last_active_ms stays as it is
ReceiveControl(s, m) ==
  /\ Authentic(s, m, "SESSION_DATA")
  /\ Take(s, m, s.lastActive)

ServerReceiveClose(s, m) ==
  /\ Authentic(s, m, "CLOSE")
  /\ pending' = LivePending
  /\ established' = LiveEstablished \ {s}
  /\ taken' = taken \cup {<<m.transcript, m.counter>>}
  /\ UNCHANGED <<client, boot, cookieKey, acks, net, now, bootstraps>>

\* send_data and close run no expiry.
ServerSend(s) ==
  /\ IF s.next > COUNTER_MAX
     THEN established' = established \ {s} /\ UNCHANGED net
     ELSE /\ established' = (established \ {s}) \cup {[s EXCEPT !.next = @ + 1]}
          /\ net' = net \cup {Protected("SESSION_DATA", "server", TranscriptOf(s), s.next)}
  /\ UNCHANGED <<client, boot, cookieKey, pending, acks, now, taken, bootstraps>>

ServerClose(s) ==
  /\ established' = established \ {s}
  /\ net' = net \cup (IF s.next > COUNTER_MAX THEN {}
                      ELSE {Protected("CLOSE", "server", TranscriptOf(s), s.next)})
  /\ UNCHANGED <<client, boot, cookieKey, pending, acks, now, taken, bootstraps>>

\* take_profile3_bootstrap frees the SCID.
ServerBootstrap(s) ==
  /\ Profile = 3
  /\ established' = established \ {s}
  /\ bootstraps' = Append(bootstraps, Bootstrap("server", TranscriptOf(s), s.next))
  /\ UNCHANGED <<client, boot, cookieKey, pending, acks, net, now, taken>>

-----------------------------------------------------------------------------
(* Server machine: time, keys, restart *)

ServerExpire ==
  /\ pending' = LivePending /\ established' = LiveEstablished
  /\ <<pending', established'>> # <<pending, established>>
  /\ UNCHANGED <<client, boot, cookieKey, acks, net, now, taken, bootstraps>>

\* rotate_cookie_key, at the server loop's interval
RotateKey ==
  /\ now - cookieKey.rotated >= ROTATION
  /\ cookieKey.current <= MaxRotations
  /\ cookieKey' = [current |-> cookieKey.current + 1,
                   previous |-> cookieKey.current, rotated |-> now]
  /\ UNCHANGED <<client, boot, pending, established, acks, net, now, taken, bootstraps>>

\* restart: sessions are forgotten, boot instance and keys are new
Restart ==
  /\ boot < MaxRestarts
  /\ boot' = boot + 1
  /\ cookieKey' = [current |-> 1, previous |-> 0, rotated |-> now]
  /\ pending' = {} /\ established' = {}
  /\ UNCHANGED <<client, acks, net, now, taken, bootstraps>>

Pass ==
  /\ now < MaxTime
  /\ now' = now + 1
  /\ UNCHANGED <<client, server, net, taken, bootstraps>>

Next ==
  \/ \E a \in Attempt :
       \/ \E scid \in Scid : Start(a, scid)
       \/ ClientExpire(a) \/ ClientSend(a) \/ ClientClose(a) \/ ClientBootstrap(a)
       \/ \E m \in ToClient :
            \/ ReceiveVerify(a, m) \/ RejectVerify(a, m) \/ ReceiveAck(a, m)
            \/ ClientReceiveData(a, m) \/ ClientReceiveClose(a, m)
  \/ \E m \in net, b \in Binding : ReceiveOpen(m, b) \/ ReceiveOpenAuth(m, b)
  \/ \E m \in net, p \in pending : ReceiveAccept(p, m)
  \/ \E m \in net, s \in established :
       ReceiveData(s, m) \/ ReceiveControl(s, m) \/ ServerReceiveClose(s, m)
  \/ \E s \in established : ServerSend(s) \/ ServerClose(s) \/ ServerBootstrap(s)
  \/ ServerExpire \/ RotateKey \/ Restart \/ Pass

Spec == Init /\ [][Next]_vars

\* Every packet is sent until it is answered, so that a copy gets through.
\* Nothing is assumed of the clock, nor that anyone releases a late client.
FairSpec ==
  /\ Spec
  /\ \A a \in Attempt :
       /\ WF_vars(\E scid \in Scid : Start(a, scid))
       /\ WF_vars(\E m \in ToClient : ReceiveVerify(a, m))
       /\ WF_vars(\E m \in ToClient : ReceiveAck(a, m))
  /\ WF_vars(\E m \in net, b \in Binding : ReceiveOpen(m, b))
  /\ WF_vars(\E m \in net, b \in Binding : ReceiveOpenAuth(m, b))
  /\ WF_vars(\E m \in net, p \in pending : ReceiveAccept(p, m))

-----------------------------------------------------------------------------
(* Properties *)

\* Every session entry and client state is one the machines can hold, and the
\* server's tables stay within pending_limit and established_limit.
TypeOK ==
  /\ \A a \in Attempt :
       /\ client[a].state \in
            {"Idle", "CookieWait", "AuthWait", "Established", "Released"}
       /\ client[a].deadline \in 0 .. MaxTime + OPEN_TIMEOUT
       /\ client[a].next \in 1 .. COUNTER_MAX + 1
       /\ client[a].seen \subseteq 1 .. COUNTER_MAX
  /\ boot \in 0 .. MaxRestarts /\ acks \in 0 .. MaxAcks /\ now \in 0 .. MaxTime
  /\ cookieKey.current \in 1 .. MaxRotations + 1
  /\ Cardinality(pending) <= PENDING_LIMIT
  /\ Cardinality(established) <= ESTABLISHED_LIMIT
  /\ Len(bootstraps) <= 2 * MaxAcks
  /\ \A p \in pending : p.deadline <= now + PENDING_TIMEOUT /\ p.ack \in 1 .. acks
  /\ \A s \in established :
       /\ s.lastActive \in 0 .. now /\ s.heard \in s.lastActive .. now
       /\ s.next \in 1 .. COUNTER_MAX + 1 /\ s.seen \subseteq 1 .. COUNTER_MAX

\* A SCID names one session: receive_open_auth refuses an occupied SCID, also
\* while the other session is established, and receive_accept promotes it.
OneEntryPerScid ==
  \A e, f \in pending \cup established : e.scid = f.scid => e = f

\* Agreement: the server holds a session as established only if the client
\* finished the same transcript, and an established client's transcript is one
\* the server offered under the same opening and boot.  (receive_accept,
\* receive_ack; a packet once sent stays in net.)
Agreement ==
  /\ \A s \in established : Accept(TranscriptOf(s)) \in net
  /\ \A a \in Attempt : client[a].state = "Established" =>
       /\ OpenAck(client[a].transcript) \in net
       /\ Accept(client[a].transcript) \in net

\* Return routability: a session's binding is the one its cookie was issued
\* to, whatever bindings the packets of the handshake were observed under.
RoutableBinding ==
  \A e \in pending \cup established :
    /\ VerifyCookie(e.opening.cookie) \in net
    /\ e.opening.cookie.binding = e.binding

Marked(sessions) == UNION {{<<TranscriptOf(s), n>> : n \in s.seen} : s \in sessions}

\* No protected packet is accepted twice, whatever happens in between: the
\* session may expire, be closed, or the server restart, and the recorded
\* OPEN_AUTH and SESSION_ACCEPT may be replayed to open a session again.
AcceptedOnce ==
  [][(Marked(established') \ Marked(established)) \cap taken = {}]_vars

\* A transcript's keys leave a machine once: no end hands out two Profile 3
\* bootstraps of one transcript, whose holders would both start from the same
\* counters, also when the handshake that freed its SCID is replayed.
BootstrapOnce ==
  \A i, j \in DOMAIN bootstraps :
    bootstraps[i].end = bootstraps[j].end
      /\ bootstraps[i].transcript = bootstraps[j].transcript => i = j

\* Rotating the cookie key never invalidates a cookie of this boot that is
\* still in its two buckets: KEY_RETENTION spans them.
CookieSurvivesRotation ==
  \A m \in net :
    /\ m.type = "VERIFY_COOKIE" /\ m.boot = boot
    /\ m.cookie.bucket + 1 >= now \div BUCKET
    => CookieMatches(m, m.cookie.binding)

\* A recorded opening dies with its cookie: however often its OPEN_AUTH is
\* replayed after expiry, a close or a rotation, it takes a pending slot only
\* in the bucket of the cookie and the next (receive_open_auth).
OpeningDiesWithCookie ==
  \A p \in pending :
    p.deadline < (p.opening.cookie.bucket + 2) * BUCKET + PENDING_TIMEOUT

\* If no clock runs out and the server stays up, the server comes to hold a
\* session under a transcript its client finished.
HandshakeCompletes ==
  [](now = 0 /\ boot = 0)
    => <>(\E s \in established : Accept(TranscriptOf(s)) \in net)

\* 0005 section 3: a message that is illegal in a client's state changes
\* nothing, so a waiting client is released by its deadline alone.  The code
\* releases a client in CookieWait on any packet that is not its VERIFY_COOKIE.
WaitsUntilDeadline ==
  [][\A a \in Attempt :
       client[a].state = "CookieWait" /\ client'[a].state = "Released"
         => now >= client[a].deadline]_vars

\* P-SESSION-IDLE-TIMEOUT counts from the last accepted protected packet, a
\* mobility control included: expire drops no session that was heard later.
IdleFromLastPacket ==
  \A s \in established :
    now - s.lastActive >= IDLE_TIMEOUT => now - s.heard >= IDLE_TIMEOUT

\* 0005 section 3: either end releases a session that times out.  The code
\* has an idle timeout at the server only.
IdleClientReleased ==
  <>(now = MaxTime) => \A a \in Attempt :
    (client[a].state = "Established" /\ now - client[a].heard >= IDLE_TIMEOUT)
      ~> client[a].state = "Released"
=============================================================================
