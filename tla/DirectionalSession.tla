------------------------- MODULE DirectionalSession -------------------------
(***************************************************************************)
(* One direction of an r8-session association: the sender's                *)
(* `DirectionalSession::encrypt`, the receiver's two-phase                 *)
(* `preview` / `commit`, and the replacement of the receiving session by a *)
(* new one (a new handshake: new keys, new proof owner).                   *)
(*                                                                         *)
(* The network keeps every packet forever and hands any of them to the     *)
(* receiver at any time: packets are lost, duplicated and reordered.       *)
(* Several previews may be outstanding when one of them is committed.      *)
(***************************************************************************)
EXTENDS ReplayWindow

CONSTANTS
  Holder,        \* places a caller can keep an uncommitted preview in
  MaxSessions    \* bound on the number of sessions the receiver goes through

ASSUME SessionsAssumption == MaxSessions \in Nat \ {0}

Session == 1 .. MaxSessions
Packet == Session \X (0 .. U64_MAX)

None == <<>>     \* an empty holder

VARIABLES
  next,         \* send_counters.next of the sending half
  sends,        \* number of plaintexts sealed (their identities)
  net,          \* sealed packets [session, counter, plain] in the network
  owner,        \* receive_owner of the live session, also naming its keys
  replay,       \* the live session's ReplayWindow
  preview,      \* ProtectedPreview held in each holder, or None
  deliveries    \* how often the application was given each packet

vars == <<next, sends, net, owner, replay, preview, deliveries>>

Preview == [counter : 0 .. U64_MAX, generation : 0 .. U64_MAX, owner : Session]

\* Counters stay in 1 .. u64::MAX (the reserved value only ever waits in
\* `next`), the window's bits inside the window, and sealed packets carry valid
\* counters.
TypeOK ==
  /\ next \in 1 .. U64_MAX
  /\ sends \in Nat
  /\ net \subseteq [session : Session, counter : Counter, plain : Nat]
  /\ owner \in Session
  /\ replay \in WindowType
  /\ preview \in [Holder -> Preview \cup {None}]
  /\ deliveries \in [Packet -> Nat]

Init ==
  /\ next = 1
  /\ sends = 0
  /\ net = {}
  /\ owner = 1
  /\ replay = NewWindow
  /\ preview = [h \in Holder |-> None]
  /\ deliveries = [p \in Packet |-> 0]

-----------------------------------------------------------------------------

\* Faulty variant: the counter is read and not advanced.
EncryptWithoutAdvance ==
  /\ CanReserve(next)
  /\ net' = net \cup {[session |-> owner, counter |-> next, plain |-> sends]}
  /\ sends' = sends + 1
  /\ UNCHANGED <<next, owner, replay, preview, deliveries>>

\* DirectionalSession::encrypt (and encrypt_profile3_data): reserve a counter
\* and seal under it.  An exhausted counter space refuses the packet.
Encrypt ==
  /\ CanReserve(next)
  /\ net' = net \cup {[session |-> owner, counter |-> next, plain |-> sends]}
  /\ next' = next + 1
  /\ sends' = sends + 1
  /\ UNCHANGED <<owner, replay, preview, deliveries>>

\* DirectionalSession::preview (and preview_profile3_data): the replay check
\* comes before authentication, authentication fails for another session's
\* keys, and nothing is marked.
PreviewPacket(h, pkt) ==
  /\ preview[h] = None
  /\ Check(replay, pkt.counter)
  /\ pkt.session = owner
  /\ preview' = [preview EXCEPT ![h] =
       [counter |-> pkt.counter, generation |-> replay.generation,
        owner |-> owner]]
  /\ UNCHANGED <<next, sends, net, owner, replay, deliveries>>

\* Faulty variant: the owner of the preview is not compared.
CanCommitAnyOwner(p) == CanCommit(replay, p)

\* DirectionalSession::commit, commit_protected_replay and
\* commit_profile3_data: the preview is consumed whatever happens.  A preview
\* of a replaced session, of an earlier generation, or of a counter that no
\* longer passes is refused.
CanCommitPreview(p) == p.owner = owner /\ CanCommit(replay, p)

Commit(h) ==
  /\ preview[h] # None
  /\ CanCommitPreview(preview[h])
  /\ replay' = Committed(replay, preview[h])
  /\ deliveries' =
       [deliveries EXCEPT ![<<owner, preview[h].counter>>] = @ + 1]
  /\ preview' = [preview EXCEPT ![h] = None]
  /\ UNCHANGED <<next, sends, net, owner>>

RefuseCommit(h) ==
  /\ preview[h] # None
  /\ ~CanCommitPreview(preview[h])
  /\ preview' = [preview EXCEPT ![h] = None]
  /\ UNCHANGED <<next, sends, net, owner, replay, deliveries>>

\* A preview may also be dropped without being offered for commit.
DropPreview(h) ==
  /\ preview[h] # None
  /\ preview' = [preview EXCEPT ![h] = None]
  /\ UNCHANGED <<next, sends, net, owner, replay, deliveries>>

\* The session is dropped and a new handshake makes the next one
\* (DirectionalSession::new, allocate_session_owner): fresh counters, fresh
\* window, fresh keys.  Previews of the dropped session may still be held.
Replace ==
  /\ owner < MaxSessions
  /\ owner' = owner + 1
  /\ next' = 1
  /\ replay' = NewWindow
  /\ UNCHANGED <<sends, net, preview, deliveries>>

Next ==
  \/ Encrypt
  \/ \E h \in Holder :
       \/ \E pkt \in net : PreviewPacket(h, pkt)
       \/ Commit(h)
       \/ RefuseCommit(h)
       \/ DropPreview(h)
  \/ Replace

Spec == Init /\ [][Next]_vars

-----------------------------------------------------------------------------

\* No nonce is used twice: two packets sealed under the same session keys
\* and counter are the same packet (Counters::reserve never repeats).
NonceUnique ==
  \A p, q \in net :
    p.session = q.session /\ p.counter = q.counter => p = q

\* No packet reaches the application twice, whatever previews are
\* outstanding when it is committed and however often the network repeats it.
DeliveredOnce == \A p \in Packet : deliveries[p] <= 1

\* The window's verdict is exact: once a counter was accepted, check accepts
\* precisely the counters inside the jump and window limits that were not
\* delivered yet; a packet is never refused because of another one's bit.
WindowExact ==
  \A c \in 0 .. U64_MAX :
    Check(replay, c) <=>
      /\ c \in Counter
      /\ deliveries[<<owner, c>>] = 0
      /\ replay.largest = 0 \/ ( /\ c - replay.largest <= REPLAY_JUMP_MAX
                                 /\ replay.largest - c < REPLAY_WINDOW )

\* The implementation relation: sealed packets and delivery counts, read as
\* the abstract at-most-once channel.
Channel == INSTANCE AtMostOnce
             WITH sent <- {<<p.session, p.counter>> : p \in net}

\* Every step of the session is a step of the at-most-once channel or leaves
\* it alone.
ImplementsAtMostOnce == Channel!Spec
=============================================================================
