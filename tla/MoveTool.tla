------------------------------ MODULE MoveTool ------------------------------
(***************************************************************************)
(* r8move: the two commands of r8-mobility's main.rs.  `connect` opens a   *)
(* session and `serve` answers; one of them then moves, and both succeed   *)
(* only if application data is echoed over the new binding.  Each process  *)
(* runs one loop over its sockets, so each packet taken from a socket, and *)
(* each receive timeout the loop acts on, is one step.                     *)
(*                                                                         *)
(* A process owns the socket it starts with and, once it moves, a          *)
(* candidate socket; the binding a packet is observed on is the socket it  *)
(* was sent from.  The handshake keeps only what the loops tell apart: the *)
(* machines themselves are Handshake, the managers are CandidateManager.   *)
(* A packet carries its sender's packet number, which is what the replay   *)
(* window marks.  `--stream-rate` replaces the two messages by a numbered  *)
(* stream.                                                                 *)
(***************************************************************************)
EXTENDS CandidateManager, SequencesExt

CONSTANTS
  Server,              \* the process that runs `serve`
  OldLoc, NewLoc,      \* locators of each process, before and after its move
  Setups               \* what the processes are started with, and the network

(* A setup has the fields                                                  *)
(*   clients   processes that run `connect`, as many as --max-sessions     *)
(*   moving    1 if the clients move, 2 if the server does                 *)
(*   mode      "Mbb" (make before break) or "Abrupt"                       *)
(*   expected  --expected-post-move                                        *)
(*   stream    number of stream packets; 0 without --stream-rate           *)
(*   shakes    packets of a handshake sent again before its deadline (3)   *)
(*   repeats   announcements sent again before the deadline of a move (7)  *)
(*   prompt    packets arrive in order and before any timeout              *)
(*   faults    packets the network may lose or repeat                      *)
(*   losable   the kinds of packet it may lose                             *)
(*   time      bound on the clock                                          *)

VARIABLES
  setup,    \* name of the setup
  cl,       \* each client process
  sv,       \* the server process
  net,      \* packets in flight or in a socket buffer
  faults,   \* packets lost or repeated so far
  now       \* the clock the managers are given, in seconds

vars == <<setup, cl, sv, net, faults, now>>

Setup == Setups[setup]
Clients == Setup.clients
TheClient == CHOOSE c \in Clients : TRUE

\* the socket a process starts with ("old") and its candidate socket ("new")
At(p, socket) == <<p, socket>>
Home == At(Server, "old")

-----------------------------------------------------------------------------
(* Packets *)

Out(from, to, src, dst, body) ==
  [from |-> from, to |-> to, src |-> src, dst |-> dst, body |-> body]

\* outs in the order they are sent, numbered after the n packets sent before
Packets(c, n, outs) ==
  {[c |-> c, n |-> n + i, copy |-> 0] @@ outs[i] : i \in DOMAIN outs}

Shake(type) == [type |-> type]
Data(seq) == [type |-> "data", seq |-> seq]

ShakeOut(c, type) == <<Out(At(c, "old"), Home, OldLoc[c], OldLoc[Server], Shake(type))>>

\* preview_data_with_locs: SESSION_DATA, not seen before, between locators
\* the session or the caller admits
Opens(p, seen, srcs, dsts) ==
  /\ p.body.type \in Kinds \cup {"data"}
  /\ p.n \notin seen
  /\ p.src \in srcs /\ p.dst \in dsts

IsControl(p) == p.body.type \in Kinds

-----------------------------------------------------------------------------
(* Moving: what the mover of either role sends, and what either end does    *)
(* with a control it can open                                               *)

Plan(p) == [id |-> 1, loc |-> NewLoc[p], epoch |-> 1]

\* propose_local and make_probe
Staged(m, p, target) ==
  MakeProbe(ProposeLocal(m, 1, NewLoc[p], 1, now), 1, target)

\* Faulty variant of Announce: a repetition leaves out the probe.
AnnounceUpdate(m, p, target, peer, again) ==
  <<Out(At(p, IF Setup.mode = "Mbb" THEN "old" ELSE "new"), target,
        OldLoc[p], peer, Update(m, Plan(p)))>>
  \o IF again THEN <<>>
     ELSE <<Out(At(p, "new"), target, NewLoc[p], peer,
                [type |-> "BindProbe"] @@ Plan(p))>>

\* The LOC_UPDATE leaves from the old socket when that one still works, the
\* BIND_PROBE from the candidate socket; a repetition sends both again.
Announce(m, p, target, peer, again) ==
  <<Out(At(p, IF Setup.mode = "Mbb" THEN "old" ELSE "new"), target,
        OldLoc[p], peer, Update(m, Plan(p))),
    Out(At(p, "new"), target, NewLoc[p], peer,
        [type |-> "BindProbe"] @@ Plan(p))>>

\* A received control: preview_protected, response_for, the commit and
\* take_results.  A control the preview refuses changes nothing.
Handled(m, ctl, b) ==
  IF m = None \/ ctl.type \notin Kinds THEN [accepted |-> FALSE, before |-> m]
  ELSE IF ~Accepts(m, ctl, b, now) THEN [accepted |-> FALSE, before |-> m]
  ELSE LET t == Preview(m, ctl, b, now)
           after == Apply(m, t)
       IN [accepted |-> TRUE, before |-> m,
           mgr |-> [after EXCEPT !.emitted = <<>>],
           replies |-> SetToSeq(Reply(t)),
           results |-> [i \in DOMAIN after.emitted |->
                          [type |-> "CandidateResult"] @@ after.emitted[i]]]

Sealed(ctls, from, to, src, dst) ==
  [i \in DOMAIN ctls |-> Out(from, to, src, dst, ctls[i])]

\* Faulty variant of Won: the challenge ends the move.
WonOnChallenge(ctl) == ctl.type \in {"BindChallenge", "CandidateResult"}

Won(ctl) == ctl.type = "CandidateResult" /\ ctl.result = 1

-----------------------------------------------------------------------------
(* State *)

NewClient(c) ==
  [pc |-> "cookie", n |-> 1, seen |-> {}, tries |-> 0,
   local |-> OldLoc[c], peer |-> OldLoc[Server], target |-> Home,
   mgr |-> NewManager(0, OldLoc[c], OldLoc[Server], Home),
   promoted |-> FALSE, seq |-> 0, echoed |-> FALSE, pending |-> {}, post |-> 0]

NewServer(clients) ==
  [pc |-> "serving", local |-> OldLoc[Server], peer |-> OldLoc[TheClient],
   complete |-> 0, tries |-> 0,
   n |-> [c \in clients |-> 0], seen |-> [c \in clients |-> {}],
   assoc |-> [c \in clients |-> None]]

\* struct Association, as receive_open_auth enters it
NewAssociation(endpoint) ==
  [endpoint |-> endpoint, mgr |-> None, proposals |-> {},
   established |-> FALSE, promoted |-> FALSE, post |-> 0]

Init ==
  /\ setup \in DOMAIN Setups
  /\ cl = [c \in Clients |-> NewClient(c)]
  /\ sv = NewServer(Clients)
  /\ net = UNION {Packets(c, 0, ShakeOut(c, "open")) : c \in Clients}
  /\ faults = 0
  /\ now = 0

Done == {"ok", "failed"}

\* the socket a process takes its next packet from
Readable(p) ==
  LET end == p.to[1]
  IN IF end = Server
     THEN \/ sv.pc = "serving" /\ p.to = Home
          \/ /\ sv.pc = "mover"
             /\ \/ p.to = At(Server, "new")
                \/ Setup.mode = "Mbb" /\ sv.assoc[p.c].promoted
     ELSE \/ cl[end].pc \in {"cookie", "auth", "first", "respond"}
               /\ p.to = At(end, "old")
          \/ cl[end].pc \in {"moving", "last"} /\ p.to = At(end, "new")

\* A packet to a socket that is not read again is gone.
Kept(packets, clients, server) ==
  {p \in packets :
     LET end == p.to[1]
     IN IF end = Server THEN server.pc \notin Done
        ELSE /\ clients[end].pc \notin Done
             /\ p.to[2] = "old" =>
                  clients[end].pc \notin {"moving", "spinning", "last"}
                    /\ ~(Setup.moving = 1 /\ clients[end].promoted)}

\* A prompt network keeps the order of each sender.
Receivable ==
  {p \in net : /\ Readable(p)
               /\ Setup.prompt =>
                    \A q \in net : Readable(q) /\ q.c = p.c /\ q.from[1] = p.from[1]
                                     => p.n <= q.n}

CanRetry ==
  \/ \E c \in Clients :
       \/ cl[c].pc \in {"cookie", "auth"} /\ cl[c].tries < Setup.shakes
       \/ cl[c].pc = "moving" /\ cl[c].tries < Setup.repeats
  \/ sv.pc = "mover" /\ ~sv.assoc[TheClient].promoted /\ sv.tries < Setup.repeats

\* A receive times out; a deadline passes.  On a prompt network neither happens
\* while a packet is there to be taken.  A receive_timeout that has no time to
\* give acts like a receive that timed out, except in a move (MoveSpin).
TimedOut == Setup.prompt => \A p \in net : ~Readable(p)
Overdue == TimedOut /\ (Setup.prompt => ~CanRetry)

-----------------------------------------------------------------------------
(* Steps of a client *)

\* The client becomes k and sends outs; p is the packet it took, if any.
Client(c, taken, k, outs) ==
  /\ cl' = [cl EXCEPT ![c] = [k EXCEPT !.n = @ + Len(outs)]]
  /\ net' = Kept((net \ taken) \cup Packets(c, k.n, outs), cl', sv)
  /\ UNCHANGED <<setup, sv, faults, now>>

\* send_data, from the locators in effect
App(k, c, socket, seq) ==
  <<Out(At(c, socket), k.target, k.local, k.peer, Data(seq))>>

\* handshake: the current packet again
HandshakeRetry(c) ==
  /\ cl[c].pc \in {"cookie", "auth"} /\ cl[c].tries < Setup.shakes
  /\ TimedOut
  /\ Client(c, {}, [cl[c] EXCEPT !.tries = @ + 1],
            ShakeOut(c, IF cl[c].pc = "cookie" THEN "open" ELSE "auth"))

HandshakeVerify(c, p) ==
  /\ cl[c].pc = "cookie" /\ p.body.type = "verify"
  /\ Client(c, {p}, [cl[c] EXCEPT !.pc = "auth"], ShakeOut(c, "auth"))

\* SESSION_ACCEPT is sent once and the handshake is over; connect goes on to
\* its first message, or waits for the stream to start.
HandshakeAck(c, p) ==
  LET k == [cl[c] EXCEPT !.tries = 0]
      accept == ShakeOut(c, "accept")
      pc == IF Setup.moving = 2 THEN "respond"
            ELSE IF Setup.stream = 0 THEN "first" ELSE "between"
  IN /\ cl[c].pc = "auth" /\ p.body.type = "ack"
     /\ Client(c, {p}, [k EXCEPT !.pc = pc],
               IF Setup.stream = 0 THEN accept \o App(k, c, "old", 0) ELSE accept)

\* receive_ack refuses any other packet.  (Before its cookie a client has
\* asked for nothing else, so nothing else reaches it.)
HandshakeIgnore(c, p) ==
  /\ cl[c].pc = "auth" /\ p.body.type # "ack"
  /\ Client(c, {p}, cl[c], <<>>)

\* move_client binds the candidate socket, proposes and probes.
StartMove(c, taken, k) ==
  Client(c, taken,
         [k EXCEPT !.pc = "moving", !.mgr = Staged(k.mgr, c, Home)],
         Announce(k.mgr, c, Home, OldLoc[Server], FALSE))

\* exchange: receive_data of anything that does not open ends the command
ExchangeFails(k, p) == ~Opens(p, k.seen, {k.peer}, {k.local})

ExchangeFail(c, p) ==
  /\ cl[c].pc \in {"first", "last"} /\ p.from = cl[c].target
  /\ ExchangeFails(cl[c], p)
  /\ Client(c, {p}, [cl[c] EXCEPT !.pc = "failed"], <<>>)

\* another payload than the one that was sent
ExchangeOther(c, p) ==
  /\ cl[c].pc \in {"first", "last"} /\ p.from = cl[c].target
  /\ ~ExchangeFails(cl[c], p) /\ p.body # Data(cl[c].seq)
  /\ Client(c, {p}, [cl[c] EXCEPT !.seen = @ \cup {p.n}], <<>>)

ExchangeDone(c, p) ==
  LET k == [cl[c] EXCEPT !.seen = @ \cup {p.n}]
  IN /\ k.pc \in {"first", "last"} /\ p.from = k.target
     /\ ~ExchangeFails(cl[c], p) /\ p.body = Data(k.seq)
     /\ IF Setup.stream > 0 THEN Client(c, {p}, [k EXCEPT !.pc = "between"], <<>>)
        ELSE IF k.pc = "first" THEN StartMove(c, {p}, k)
        ELSE Client(c, {p}, [k EXCEPT !.pc = "ok"], <<>>)

\* connect's stream loop, between two exchanges: a packet is due (late ones
\* are skipped), the cutover has come or the stream is over
StreamExchange(c) ==
  /\ cl[c].pc = "between"
  /\ \E s \in cl[c].seq + 1 .. Setup.stream :
       LET socket == IF cl[c].promoted THEN "new" ELSE "old"
       IN Client(c, {}, [cl[c] EXCEPT !.seq = s,
                           !.pc = IF cl[c].promoted THEN "last" ELSE "first"],
                 App(cl[c], c, socket, s))

StreamMove(c) ==
  /\ cl[c].pc = "between" /\ ~cl[c].promoted
  /\ StartMove(c, {}, cl[c])

StreamDone(c) ==
  /\ cl[c].pc = "between" /\ cl[c].promoted
  /\ Client(c, {}, [cl[c] EXCEPT !.pc = "ok"], <<>>)

\* move_client, with what the manager makes of the packet
MoveAccepts(c, p, h) ==
  /\ p.from = cl[c].target
  /\ Opens(p, cl[c].seen, {cl[c].peer, OldLoc[Server]}, {cl[c].local, NewLoc[c]})
  /\ h.accepted

MoveControl(c, p, h) ==
  LET k == [cl[c] EXCEPT !.seen = @ \cup {p.n}, !.mgr = h.mgr]
      won == [k EXCEPT !.local = h.mgr.localLoc, !.promoted = TRUE]
      outs == Sealed(h.replies \o h.results, At(c, "new"), Home,
                     NewLoc[c], OldLoc[Server])
  IN /\ cl[c].pc = "moving" /\ MoveAccepts(c, p, h)
     /\ IF ~Won(p.body) THEN Client(c, {p}, k, outs)
        ELSE IF Setup.stream > 0
        THEN Client(c, {p}, [won EXCEPT !.pc = "between"], outs)
        ELSE Client(c, {p}, [won EXCEPT !.pc = "last"],
                    outs \o App(won, c, "new", 0))

MoveIgnore(c, p, h) ==
  /\ cl[c].pc = "moving" /\ ~MoveAccepts(c, p, h)
  /\ Client(c, {p}, cl[c], <<>>)

MoveRetry(c) ==
  /\ cl[c].pc = "moving" /\ cl[c].tries < Setup.repeats
  /\ TimedOut
  /\ Client(c, {}, [cl[c] EXCEPT !.tries = @ + 1],
            Announce(cl[c].mgr, c, Home, OldLoc[Server], TRUE))

\* The instant of the next repetition passes between two receives: then
\* receive_timeout has no time to give, and the loop neither receives nor
\* repeats any more, since only a receive that times out sets a new instant.
MoveSpin(c) ==
  /\ cl[c].pc = "moving"
  /\ Client(c, {}, [cl[c] EXCEPT !.pc = "spinning"], <<>>)

\* Faulty variant of GivesUp: a move has no deadline.
GivesUpUnlessMoving(k) ==
  \/ k.pc \in {"cookie", "auth"}
  \/ k.pc \in {"first", "last"} /\ Setup.stream = 0
  \/ k.pc = "respond" /\ (Setup.stream = 0 \/ ~k.promoted)

\* the deadlines of handshake, exchange, move_client and connect_role1_responder
GivesUp(k) ==
  \/ k.pc \in {"cookie", "auth", "moving", "spinning"}
  \/ k.pc \in {"first", "last"} /\ Setup.stream = 0
  \/ k.pc = "respond" /\ (Setup.stream = 0 \/ ~k.promoted)

GiveUp(c) ==
  /\ GivesUp(cl[c])
  /\ Overdue
  /\ Client(c, {}, [cl[c] EXCEPT !.pc = "failed"], <<>>)

\* a stream goes on after an exchange that timed out
StreamTimeout(c) ==
  /\ cl[c].pc \in {"first", "last"} /\ Setup.stream > 0
  /\ Client(c, {}, [cl[c] EXCEPT !.pc = "between"], <<>>)

-----------------------------------------------------------------------------
(* connect_role1_responder: the client whose server moves *)

RespondOpens(c, p) ==
  Opens(p, cl[c].seen, {cl[c].peer, OldLoc[Server], NewLoc[Server]}, {cl[c].local})

\* Only a response may promote; the promotion is followed by the second
\* message.
RespondControl(c, p, h) ==
  LET k == [cl[c] EXCEPT !.seen = @ \cup {p.n}, !.mgr = h.mgr]
      moved == [k EXCEPT !.peer = h.mgr.peerLoc, !.target = p.from, !.promoted = TRUE]
      to(dst, ctls) == Sealed(ctls, At(c, "old"), p.from, OldLoc[c], dst)
      outs == to(p.src, h.replies) \o to(h.mgr.peerLoc, h.results)
  IN /\ cl[c].pc = "respond" /\ RespondOpens(c, p) /\ h.accepted
     /\ IF p.body.type # "BindResponse" \/ h.mgr.peerLoc = OldLoc[Server]
        THEN Client(c, {p}, k, outs)
        ELSE IF Setup.stream > 0 \/ cl[c].promoted THEN Client(c, {p}, moved, outs)
        ELSE Client(c, {p}, moved, outs \o App(moved, c, "old", 0))

\* record_stream_echo, or one of the two messages
Echoed(k, seq) ==
  IF Setup.stream > 0
  THEN [k EXCEPT !.pending = @ \ {seq},
                 !.post = IF seq \in k.pending THEN @ + 1 ELSE @]
  ELSE IF k.promoted THEN [k EXCEPT !.post = @ + 1]
  ELSE [k EXCEPT !.echoed = TRUE]

\* ResponderCompletion::complete
RespondComplete(k) ==
  /\ Setup.stream = 0
  /\ k.echoed /\ k.promoted /\ k.post >= Setup.expected

RespondData(c, p) ==
  LET k == Echoed([cl[c] EXCEPT !.seen = @ \cup {p.n}], p.body.seq)
  IN /\ cl[c].pc = "respond" /\ RespondOpens(c, p) /\ ~IsControl(p)
     /\ p.from = cl[c].target
     /\ Client(c, {p}, [k EXCEPT !.pc = IF RespondComplete(k) THEN "ok" ELSE @], <<>>)

RespondIgnore(c, p, h) ==
  /\ cl[c].pc = "respond"
  /\ ~(RespondOpens(c, p)
         /\ IF IsControl(p) THEN h.accepted ELSE p.from = cl[c].target)
  /\ Client(c, {p}, cl[c], <<>>)

\* Faulty variant of RecordSend: every packet of the stream counts.
RecordSendAlways(k, seq) == {seq}

\* record_stream_send
RecordSend(k, seq) == IF k.promoted THEN {seq} ELSE {}

RespondSend(c) ==
  /\ cl[c].pc = "respond"
  /\ \E s \in cl[c].seq + 1 .. Setup.stream :
       Client(c, {}, [cl[c] EXCEPT !.seq = s, !.pending = @ \cup RecordSend(cl[c], s)],
              App(cl[c], c, "old", s))

RespondOver(c) ==
  /\ cl[c].pc = "respond" /\ Setup.stream > 0 /\ cl[c].promoted
  /\ Client(c, {}, [cl[c] EXCEPT !.pc = IF cl[c].post >= Setup.expected
                                        THEN "ok" ELSE "failed"], <<>>)

-----------------------------------------------------------------------------
(* serve *)

\* The server becomes s and sends outs in the session of c.
Serve(c, p, s, outs) ==
  /\ sv' = [s EXCEPT !.n[c] = @ + Len(outs)]
  /\ net' = Kept((net \ {p}) \cup Packets(c, s.n[c], outs), cl, sv')
  /\ UNCHANGED <<setup, cl, faults, now>>

ServeShake(c, p, type) ==
  <<Out(Home, p.from, OldLoc[Server], OldLoc[c], Shake(type))>>

\* receive_open_limited keeps no state of the session.
ServeOpen(c, p) ==
  /\ sv.pc = "serving" /\ p.body.type = "open"
  /\ Serve(c, p, sv, ServeShake(c, p, "verify"))

\* A repeated OPEN_AUTH gets the cached OPEN_ACK and leaves the record alone.
ServeOpenAuth(c, p) ==
  /\ sv.pc = "serving" /\ p.body.type = "auth"
  /\ Serve(c, p, [sv EXCEPT !.assoc[c] = IF @ = None THEN NewAssociation(p.from) ELSE @],
           ServeShake(c, p, "ack"))

ServeAccept(c, p) ==
  /\ sv.pc = "serving" /\ p.body.type = "accept"
  /\ sv.assoc[c] # None /\ p.from = sv.assoc[c].endpoint
  /\ Serve(c, p, [sv EXCEPT !.assoc[c].established = TRUE], <<>>)

Initial(c) == sv.assoc[c].mgr = None

Known(c, p) ==
  /\ sv.assoc[c] # None /\ sv.assoc[c].established
  /\ Initial(c) => p.from = sv.assoc[c].endpoint

\* The association with its manager: made by the first SESSION_DATA that
\* opens, expired before any other
Managed(c, h) == [sv.assoc[c] EXCEPT !.mgr = h.before]

\* a binding other than the current one that is still within its grace
FromOld(a, p) == p.from # a.endpoint /\ AllowedInbound(a.mgr, p.from, now)

\* Before the promotion any binding is admitted, then the current and the old
\* one.
ServeOpens(c, p, h) ==
  LET a == Managed(c, h)
      old == IF a.promoted /\ FromOld(a, p) THEN {OldLoc[c]} ELSE {}
  IN /\ Known(c, p)
     /\ a.promoted => p.from = a.endpoint \/ FromOld(a, p)
     /\ Opens(p, sv.seen[c], {sv.peer} \cup a.proposals \cup old, {sv.local})

\* Faulty variant of HasMoved: a challenged candidate will do.
HasMovedOnProbe(m, c) == m.candidates # <<>> \/ m.peerLoc # OldLoc[c]

HasMoved(m, c) == m.peerLoc # OldLoc[c]

\* Any control after which the manager has moved makes its source the
\* endpoint of the association.
ServeControl(c, p, h) ==
  LET moved == HasMoved(h.mgr, c)
      to(dst, ctls) == Sealed(ctls, Home, p.from, OldLoc[Server], dst)
  IN /\ sv.pc = "serving" /\ ServeOpens(c, p, h) /\ h.accepted
     /\ Serve(c, p,
          [sv EXCEPT !.seen[c] = @ \cup {p.n},
                     !.peer = IF moved THEN h.mgr.peerLoc ELSE @,
                     !.assoc[c] = [@ EXCEPT
                        !.mgr = h.mgr,
                        !.proposals = IF p.body.type = "LocUpdate"
                                      THEN @ \cup {p.body.loc} ELSE @,
                        !.endpoint = IF moved THEN p.from ELSE @,
                        !.promoted = @ \/ moved]],
          to(p.src, h.replies) \o to(h.mgr.peerLoc, h.results))

\* counts_post_move_packet
CountsPostMovePacket(promoted, endpoint, target) == promoted /\ endpoint = target

\* a session completes with exactly its expected packet
Completes(post) == post = Setup.expected

ServeTakes(c, p, h) ==
  /\ ServeOpens(c, p, h) /\ ~IsControl(p)
  /\ Initial(c) \/ sv.assoc[c].promoted \/ p.from = sv.assoc[c].endpoint

\* The echo goes to the endpoint of the association.  The first message
\* starts the move if it is the server that moves.
ServeData(c, p, h) ==
  LET a == Managed(c, h)
      counts == CountsPostMovePacket(a.promoted, p.from, a.endpoint)
      post == IF counts THEN a.post + 1 ELSE a.post
      complete == IF counts /\ Completes(post) THEN sv.complete + 1 ELSE sv.complete
      echo == <<Out(Home, a.endpoint, sv.local, sv.peer, p.body)>>
      s == [sv EXCEPT !.seen[c] = @ \cup {p.n}, !.complete = complete,
                      !.assoc[c] = [a EXCEPT !.post = post]]
  IN /\ sv.pc = "serving" /\ ServeTakes(c, p, h)
     /\ IF Initial(c) /\ Setup.moving = 2
        THEN Serve(c, p, [s EXCEPT !.pc = "mover",
                             !.assoc[c].mgr = Staged(a.mgr, Server, a.endpoint)],
                   echo \o Announce(a.mgr, Server, a.endpoint, OldLoc[c], FALSE))
        ELSE Serve(c, p, [s EXCEPT !.pc =
                            IF Setup.stream = 0 /\ complete >= Cardinality(Clients)
                            THEN "ok" ELSE @], echo)

\* A refused packet leaves the manager it made and what expire did.
ServeIgnore(c, p, h) ==
  /\ sv.pc = "serving"
  /\ IF p.body.type = "accept"
     THEN /\ sv.assoc[c] = None \/ p.from # sv.assoc[c].endpoint
          /\ Serve(c, p, sv, <<>>)
     ELSE /\ p.body.type \in Kinds \cup {"data"}
          /\ ~(ServeOpens(c, p, h) /\ h.accepted) /\ ~ServeTakes(c, p, h)
          /\ Serve(c, p, IF ~Known(c, p) \/ (Initial(c) /\ ~ServeOpens(c, p, h)) THEN sv
                         ELSE [sv EXCEPT !.assoc[c] = Managed(c, h)], <<>>)

\* the deadline, or the end of the stream
ServeOver ==
  /\ sv.pc = "serving" /\ Overdue
  /\ sv' = [sv EXCEPT !.pc = IF sv.complete = Cardinality(Clients) THEN "ok" ELSE "failed"]
  /\ net' = Kept(net, cl, sv')
  /\ UNCHANGED <<setup, cl, faults, now>>

-----------------------------------------------------------------------------
(* serve_role2_mover *)

MoverOpens(c, p, own) ==
  Opens(p, sv.seen[c], {sv.peer, OldLoc[c]}, {sv.local, own})

MoverAccepts(c, p, h) ==
  p.to = At(Server, "new") /\ MoverOpens(c, p, NewLoc[Server]) /\ h.accepted

MoverControl(c, p, h) ==
  LET s == [sv EXCEPT !.seen[c] = @ \cup {p.n}, !.assoc[c].mgr = h.mgr]
  IN /\ sv.pc = "mover" /\ MoverAccepts(c, p, h)
     /\ Serve(c, p,
          IF Won(p.body)
          THEN [s EXCEPT !.local = h.mgr.localLoc, !.assoc[c].endpoint = p.from,
                         !.assoc[c].promoted = TRUE]
          ELSE s,
          Sealed(h.replies, At(Server, "new"), p.from, NewLoc[Server], OldLoc[c]))

MoverEcho(c, p) ==
  <<Out(At(Server, "new"), sv.assoc[c].endpoint, sv.local, sv.peer, p.body)>>

MoverTakes(c, p) ==
  /\ p.to = At(Server, "new")
  /\ MoverOpens(c, p, NewLoc[Server]) /\ ~IsControl(p)
  /\ CountsPostMovePacket(sv.assoc[c].promoted, p.from, sv.assoc[c].endpoint)

MoverData(c, p) ==
  LET post == sv.assoc[c].post + 1
  IN /\ sv.pc = "mover" /\ MoverTakes(c, p)
     /\ Serve(c, p,
          [sv EXCEPT !.seen[c] = @ \cup {p.n}, !.assoc[c].post = post,
                     !.pc = IF Setup.stream = 0 /\ post >= Setup.expected
                            THEN "ok" ELSE @],
          MoverEcho(c, p))

\* The old socket, which is read once the move is done: its data is echoed
\* and does not count.
GraceTakes(c, p) ==
  /\ p.to = Home
  /\ p.from = At(c, "old") /\ AllowedInbound(sv.assoc[c].mgr, p.from, now)
  /\ MoverOpens(c, p, OldLoc[Server]) /\ ~IsControl(p)

MoverGrace(c, p) ==
  /\ sv.pc = "mover" /\ GraceTakes(c, p)
  /\ Serve(c, p, [sv EXCEPT !.seen[c] = @ \cup {p.n}], MoverEcho(c, p))

MoverIgnore(c, p, h) ==
  /\ sv.pc = "mover"
  /\ ~(MoverAccepts(c, p, h) \/ MoverTakes(c, p) \/ GraceTakes(c, p))
  /\ Serve(c, p, sv, <<>>)

MoverRetry ==
  LET c == TheClient
      outs == Announce(sv.assoc[c].mgr, Server, sv.assoc[c].endpoint, OldLoc[c], TRUE)
  IN /\ sv.pc = "mover" /\ ~sv.assoc[c].promoted
     /\ sv.tries < Setup.repeats /\ TimedOut
     /\ sv' = [sv EXCEPT !.tries = @ + 1, !.n[c] = @ + Len(outs)]
     /\ net' = net \cup Packets(c, sv.n[c], outs)
     /\ UNCHANGED <<setup, cl, faults, now>>

\* the deadline of the proof, the deadline, or the end of the stream
MoverOver ==
  LET a == sv.assoc[TheClient]
  IN /\ sv.pc = "mover" /\ Overdue
     /\ sv' = [sv EXCEPT !.pc = IF Setup.stream > 0 /\ a.promoted /\ a.post >= Setup.expected
                                THEN "ok" ELSE "failed"]
     /\ net' = Kept(net, cl, sv')
     /\ UNCHANGED <<setup, cl, faults, now>>

-----------------------------------------------------------------------------
(* The network and the clock *)

Lose(p) ==
  /\ faults < Setup.faults /\ p.body.type \in Setup.losable
  /\ faults' = faults + 1
  /\ net' = net \ {p}
  /\ UNCHANGED <<setup, cl, sv, now>>

Repeat(p) ==
  /\ faults < Setup.faults /\ ~Setup.prompt /\ p.copy = 0
  /\ faults' = faults + 1
  /\ net' = net \cup {[p EXCEPT !.copy = 1]}
  /\ UNCHANGED <<setup, cl, sv, now>>

\* The loops of connect_role1_responder and serve_role2_mover expire their
\* manager many times a second.
Tick ==
  /\ now < Setup.time
  /\ now' = now + 1
  /\ cl' = [c \in Clients |->
              IF cl[c].pc = "respond" THEN [cl[c] EXCEPT !.mgr = Expire(@, now')]
              ELSE cl[c]]
  /\ sv' = IF sv.pc = "mover"
           THEN [sv EXCEPT !.assoc[TheClient].mgr = Expire(@, now')] ELSE sv
  /\ UNCHANGED <<setup, net, faults>>

\* the manager a packet meets
ManagerAt(p) ==
  LET a == sv.assoc[p.c]
  IN IF p.to[1] # Server THEN cl[p.c].mgr
     ELSE IF a = None THEN None
     ELSE IF a.mgr = None THEN NewManager(0, OldLoc[Server], OldLoc[p.c], a.endpoint)
     ELSE IF sv.pc = "serving" THEN Expire(a.mgr, now) ELSE a.mgr

FromSocket(c, p, h) ==
  \/ HandshakeVerify(c, p) \/ HandshakeAck(c, p) \/ HandshakeIgnore(c, p)
  \/ ExchangeFail(c, p) \/ ExchangeOther(c, p) \/ ExchangeDone(c, p)
  \/ MoveControl(c, p, h) \/ MoveIgnore(c, p, h)
  \/ RespondControl(c, p, h) \/ RespondData(c, p) \/ RespondIgnore(c, p, h)

FromServerSocket(c, p, h) ==
  \/ ServeOpen(c, p) \/ ServeOpenAuth(c, p) \/ ServeAccept(c, p)
  \/ ServeControl(c, p, h) \/ ServeData(c, p, h) \/ ServeIgnore(c, p, h)
  \/ MoverControl(c, p, h) \/ MoverData(c, p) \/ MoverGrace(c, p)
  \/ MoverIgnore(c, p, h)

Receive(p) ==
  \E h \in {Handled(ManagerAt(p), p.body, p.from)} :
    IF p.to[1] = Server THEN FromServerSocket(p.c, p, h) ELSE FromSocket(p.c, p, h)

Timeout(c) ==
  \/ HandshakeRetry(c) \/ MoveRetry(c) \/ GiveUp(c)
  \/ StreamExchange(c) \/ StreamMove(c) \/ StreamDone(c) \/ StreamTimeout(c)
  \/ RespondSend(c) \/ RespondOver(c)

ServerTimeout == ServeOver \/ MoverRetry \/ MoverOver

Next ==
  \/ \E p \in Receivable : Receive(p)
  \/ \E c \in Clients : Timeout(c) \/ MoveSpin(c)
  \/ ServerTimeout
  \/ \E p \in net : Lose(p) \/ Repeat(p)
  \/ Tick

Received == \E p \in Receivable : p \notin net'

\* Every receive has a timeout and every loop a deadline; a packet that stays
\* in the socket of a process is received.  (The latter is weak fairness of
\* taking a packet, which some action always can.)
Fairness ==
  /\ \A c \in UNION {Setups[s].clients : s \in DOMAIN Setups} :
       WF_vars(c \in Clients /\ Timeout(c))
  /\ WF_vars(ServerTimeout)
  /\ []<>(Receivable = {}) \/ []<><<Received>>_vars

Spec == Init /\ [][Next]_vars /\ Fairness

-----------------------------------------------------------------------------
(* Correctness *)

\* Processes hold values of their types: program counters of their command,
\* locators and sockets of the two ends, counters within their bounds.
TypeOK ==
  LET locs == {OldLoc[p] : p \in Clients \cup {Server}}
                \cup {NewLoc[p] : p \in Clients \cup {Server}}
      sockets == (Clients \cup {Server}) \X {"old", "new"}
  IN /\ \A c \in Clients :
          /\ cl[c].pc \in {"cookie", "auth", "first", "between", "moving",
                           "spinning", "last", "respond"} \cup Done
          /\ cl[c].local \in locs /\ cl[c].peer \in locs /\ cl[c].target \in sockets
          /\ cl[c].post \in 0 .. Setup.stream + 1
          /\ sv.assoc[c] # None =>
               /\ sv.assoc[c].endpoint \in sockets
               /\ sv.assoc[c].post \in 0 .. Setup.stream + 1
     /\ sv.pc \in {"serving", "mover"} \cup Done
     /\ sv.complete \in 0 .. Cardinality(Clients)
     /\ faults \in 0 .. Setup.faults /\ now \in 0 .. Setup.time

\* Where a command sends application data is where the manager of its session
\* says: the drivers keep the endpoint in a field of their own, which they set
\* to the source of the control they have just committed.
EndpointFollowsManager ==
  \A c \in Clients :
    /\ cl[c].pc = "respond" => cl[c].target = cl[c].mgr.binding
    /\ sv.assoc[c] # None /\ sv.assoc[c].mgr # None =>
         sv.assoc[c].endpoint = sv.assoc[c].mgr.binding

Mover(c) == IF Setup.moving = 1 THEN c ELSE Server
Proven(c) ==
  IF Setup.moving = 1
  THEN sv.assoc[c] # None /\ sv.assoc[c].promoted
  ELSE cl[c].promoted

\* No application data travels to or from a candidate socket before the end
\* that does not move has proven and promoted the new binding.
ProofBeforeTraffic ==
  \A p \in net :
    p.body.type = "data" /\ At(Mover(p.c), "new") \in {p.from, p.to} => Proven(p.c)

\* What the commands report has happened.  A `connect` that succeeds has moved
\* together with its server, and without a stream its second message was
\* counted and echoed there.  A `serve` that succeeds has moved together with
\* every client and echoed the expected number of packets of each after its
\* move.  The client of a server that moves counts only echoes of data the
\* server counted on its new socket, not those of data sent to the old one.
SuccessGenuine ==
  /\ \A c \in Clients : cl[c].pc = "ok" =>
       /\ cl[c].promoted /\ sv.assoc[c].promoted
       /\ Setup.moving = 2 => sv.assoc[c].post >= Setup.expected
       /\ Setup.stream = 0 => sv.assoc[c].post >= 1
  /\ sv.pc = "ok" => \A c \in Clients :
       /\ cl[c].promoted /\ sv.assoc[c].promoted
       /\ sv.assoc[c].post >= Setup.expected
  /\ \A c \in Clients :
       Setup.moving = 2 /\ sv.assoc[c] # None => cl[c].post <= sv.assoc[c].post

\* Data a server sends to the new socket of a client that moved is addressed
\* to the locator the promotion of that session installed.
PromotedLocator ==
  \A p \in net :
    p.body.type = "data" /\ p.from = Home /\ p.to = At(p.c, "new") => p.dst = NewLoc[p.c]

Finished == sv.pc \in Done /\ \A c \in Clients : cl[c].pc \in Done

\* Both commands return, whatever is lost, repeated or reordered.
Terminates == <>Finished

\* On a prompt network both commands succeed, although any one packet that is
\* repeated on a timeout may be lost, unless the move of a client spins.
MoveSucceeds ==
  Setup.prompt /\ [](\A c \in Clients : cl[c].pc # "spinning")
    => <>(sv.pc = "ok" /\ \A c \in Clients : cl[c].pc = "ok")

\* On a prompt network that loses nothing both commands succeed.  This does
\* not hold of the code, since a move may spin.
PromptMoveSucceeds ==
  Setup.prompt /\ Setup.faults = 0
    => <>(sv.pc = "ok" /\ \A c \in Clients : cl[c].pc = "ok")
=============================================================================
