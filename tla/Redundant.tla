------------------------------ MODULE Redundant ------------------------------
(***************************************************************************)
(* Profile-3 delivery (r8-redundant): the sending and the receiving        *)
(* `RedundantSession` of one direction, their two paths, and the network.  *)
(* The other direction is the same code with the ends exchanged.           *)
(*                                                                         *)
(* Every logical delivery is sealed once per active path under that path's *)
(* own counter.  The receiver previews a packet under the session's single *)
(* lease and commits it later; between the two, paths may be activated or  *)
(* removed, the session closed, previews dropped.  Mobility controls       *)
(* travel as deliveries too and are committed together with the candidate  *)
(* manager.                                                                *)
(*                                                                         *)
(* Lengths, budgets and observed bindings are left out: a packet that      *)
(* fails one of their checks is refused without effect.  A delivery's      *)
(* bytes are named by its id.  `receive_generation` advances only in calls *)
(* that find no active lease or take it back, so the lease alone decides   *)
(* whether a preview is current.                                           *)
(***************************************************************************)
EXTENDS ReplayWindow, DeliveredWindow, Sequences, FiniteSets, Functions

CONSTANTS
  Holder,             \* places the receiver's driver keeps previews in
  Setups,             \* the setups by name: see Setup below
  QUEUE_PACKETS,      \* packets in a path's queue (256)
  DEDUP_IDS,          \* entries of the plaintext cache (4096)
  DEDUP_LIFETIME      \* life of an entry (30 s)

ASSUME RedundantAssumption ==
  /\ <<>> \notin Holder                            \* None is no place
  /\ \A u \in DOMAIN Setups :
       Setups[u] \in [seed : 1 .. U64_MAX - 1,       \* delivery_seed, the first delivery id
                      holders : SUBSET Holder,      \* where previews are kept
                      controls : SUBSET Nat,        \* ids that carry a mobility control
                      faulty : BOOLEAN,             \* the peer may send other bytes under an id it used
                      time : Nat]                   \* bound on the clock
  /\ QUEUE_PACKETS \in Nat \ {0}
  /\ DEDUP_IDS \in Nat \ {0} /\ DEDUP_LIFETIME \in Nat

End == {"S", "R"}         \* the sending and the receiving session
Slot == {0, 1}
Id == 1 .. U64_MAX - 1
OtherBytes == U64_MAX     \* bytes no delivery should carry
None == <<>>

VARIABLES
  live,        \* SessionState of each end: Active or Released
  path,        \* PathState of each slot at each end
  issuer,      \* whether an end holds an admission_issuer
  owner,       \* where the end's admission owner is
  next,        \* next_delivery of the sender
  counter,     \* send counter of each of its paths
  queue,       \* queued packets of each of its paths
  sealed,      \* history: every packet sealed
  net,         \* packets put on the wire
  replay,      \* the receiver's replay window of each path
  window,      \* the receiver's DeliveredWindow
  dedup,       \* the receiver's plaintext cache: id -> expiry
  lease,       \* receive_preview: the holder of the lease, or None
  preview,     \* InboundPreview or MobilityInboundCommit in each holder
  now,
  setup,       \* name of this behaviour's setup; never changes
  deliveries,  \* history: how often each id was handed to the application
  accepted     \* history: [id, bytes] of every committed delivery

sending == <<next, counter, queue, sealed>>
receiving == <<replay, window, dedup, lease, preview, deliveries, accepted>>
admission == <<issuer, owner>>
vars == <<live, path, admission, sending, net, receiving, now, setup>>

Setup == Setups[setup]

Init ==
  /\ setup \in DOMAIN Setups
  /\ live = [e \in End |-> TRUE]
  /\ path = [e \in End |-> [s \in Slot |-> IF s = 0 THEN "Active" ELSE "Absent"]]
  /\ issuer = [e \in End |-> FALSE]
  /\ owner = [e \in End |-> "None"]
  /\ next = Setup.seed
  /\ counter = [s \in Slot |-> 1]
  /\ queue = [s \in Slot |-> <<>>]
  /\ sealed = {}
  /\ net = {}
  /\ replay = [s \in Slot |-> NewWindow]
  /\ window = NewDelivered
  /\ dedup = <<>>
  /\ lease = None
  /\ preview = [h \in Holder |-> None]
  /\ now = 0
  /\ deliveries = [id \in Id |-> 0]
  /\ accepted = {}

ActiveSlots(e) == {s \in Slot : path[e][s] = "Active"}

-----------------------------------------------------------------------------
(* Releasing a session *)

\* A lease that was taken back is inactive for whoever still holds it.
Revoked == [h \in Holder |->
              IF h = lease /\ preview[h] # None
              THEN [preview[h] EXCEPT !.active = FALSE] ELSE preview[h]]

\* close, as it changes the variables of end e
Release(e) ==
  /\ live' = [live EXCEPT ![e] = FALSE]
  /\ path' = [path EXCEPT ![e] = [s \in Slot |-> "Released"]]
  /\ issuer' = [issuer EXCEPT ![e] = FALSE]
  /\ IF e = "S"
     THEN /\ next' = 1
          /\ queue' = [s \in Slot |-> <<>>]
          /\ UNCHANGED <<counter, sealed, receiving>>
     ELSE /\ replay' = [s \in Slot |-> NewWindow]
          /\ window' = NewDelivered
          /\ dedup' = <<>>
          /\ lease' = None
          /\ preview' = Revoked
          /\ UNCHANGED <<sending, deliveries, accepted>>

Close(e) ==
  /\ live[e]
  /\ Release(e)
  /\ UNCHANGED <<owner, net, now, setup>>

\* remove_path takes an outstanding lease back before it looks at the slot.
Revoke(e) ==
  /\ lease' = IF e = "R" THEN None ELSE lease
  /\ preview' = IF e = "R" THEN Revoked ELSE preview

\* remove_path of an active slot while the other one stays active
RemovePath(e, s) ==
  /\ live[e]
  /\ s \in ActiveSlots(e) /\ ActiveSlots(e) # {s}
  /\ Revoke(e)
  /\ path' = [path EXCEPT ![e][s] = "Removed"]
  /\ IF e = "S"
     THEN queue' = [queue EXCEPT ![s] = <<>>] /\ UNCHANGED replay
     ELSE replay' = [replay EXCEPT ![s] = NewWindow] /\ UNCHANGED queue
  /\ UNCHANGED <<live, admission, next, counter, sealed, net, window, dedup,
                 now, setup, deliveries, accepted>>

\* remove_path of the last active slot closes the session.
RemoveLastPath(e, s) ==
  /\ live[e]
  /\ ActiveSlots(e) = {s}
  /\ Release(e)
  /\ UNCHANGED <<owner, net, now, setup>>

\* remove_path of a slot that is absent or already removed
RemoveUnusedPath(e, s) ==
  /\ live[e]
  /\ s \notin ActiveSlots(e)
  /\ Revoke(e)
  /\ UNCHANGED <<live, path, admission, sending, net, replay, window, dedup,
                 now, setup, deliveries, accepted>>

-----------------------------------------------------------------------------
(* Admission of slot one *)

\* issue_profile3_admission_owner: the candidate manager receives the owner.
IssueOwner(e) ==
  /\ live[e]
  /\ path[e][1] = "Absent"
  /\ issuer[e] => owner[e] = "None"
  /\ issuer' = [issuer EXCEPT ![e] = TRUE]
  /\ owner' = [owner EXCEPT ![e] = "Manager"]
  /\ UNCHANGED <<live, path, sending, net, receiving, now, setup>>

\* The manager settles or commits a move and mints the admission
\* (CandidateManager); an owner or an admission may also be dropped.
MintAdmission(e) ==
  /\ owner[e] = "Manager"
  /\ owner' = [owner EXCEPT ![e] = "Admission"]
  /\ UNCHANGED <<live, path, issuer, sending, net, receiving, now, setup>>

DropOwner(e) ==
  /\ owner[e] # "None"
  /\ owner' = [owner EXCEPT ![e] = "None"]
  /\ UNCHANGED <<live, path, issuer, sending, net, receiving, now, setup>>

\* A lease whose holder dropped it does not count (reap_preview).
LeaseActive == lease # None /\ preview[lease] # None /\ preview[lease].active

CanActivate(e) ==
  /\ live[e]
  /\ path[e][1] = "Absent"
  /\ issuer[e] /\ owner[e] = "Admission"
  /\ e = "R" => ~LeaseActive

\* activate consumes the admission, whether it succeeds or not.  A successful
\* one advances the generation, but no lease is left to become stale.
Activate(e) ==
  /\ owner[e] = "Admission"
  /\ owner' = [owner EXCEPT ![e] = "None"]
  /\ IF CanActivate(e)
     THEN /\ path' = [path EXCEPT ![e][1] = "Active"]
          /\ issuer' = [issuer EXCEPT ![e] = FALSE]
          /\ lease' = IF e = "R" THEN None ELSE lease
     ELSE /\ lease' = IF e = "R" /\ live[e] /\ ~LeaseActive THEN None ELSE lease
          /\ UNCHANGED <<path, issuer>>
  /\ UNCHANGED <<live, sending, net, replay, window, dedup, preview, now, setup,
                 deliveries, accepted>>

-----------------------------------------------------------------------------
(* Sending *)

Copy(s, bytes) == [slot |-> s, counter |-> counter[s], id |-> next,
                   bytes |-> bytes]

Full(s) == Len(queue[s]) = QUEUE_PACKETS

\* Faulty variant: the delivery id is spent although a queue is full.
OutboundSpendingId ==
  /\ live["S"]
  /\ next # U64_MAX
  /\ \A s \in ActiveSlots("S") : CanReserve(counter[s])
  /\ LET chosen == {s \in ActiveSlots("S") : ~Full(s)}
         packet(s) == Copy(s, next)
     IN /\ counter' = [s \in Slot |->
                         IF s \in chosen THEN counter[s] + 1 ELSE counter[s]]
        /\ queue' = [s \in Slot |-> IF s \in chosen
                                    THEN Append(queue[s], packet(s)) ELSE queue[s]]
        /\ sealed' = sealed \cup {packet(s) : s \in chosen}
  /\ next' = next + 1
  /\ UNCHANGED <<live, path, admission, net, receiving, now, setup>>

\* outbound, when every active path passes the preflight: one copy per active
\* path, under one delivery id.
Outbound ==
  /\ live["S"]
  /\ next # U64_MAX
  /\ \A s \in ActiveSlots("S") : ~Full(s) /\ CanReserve(counter[s])
  /\ \E other \in IF Setup.faulty THEN {next, OtherBytes} ELSE {next} :
       LET packet(s) == Copy(s, IF s = 1 THEN other ELSE next)
       IN /\ queue' = [s \in Slot |-> IF s \in ActiveSlots("S")
                                      THEN Append(queue[s], packet(s)) ELSE queue[s]]
          /\ sealed' = sealed \cup {packet(s) : s \in ActiveSlots("S")}
  /\ counter' = [s \in Slot |-> IF s \in ActiveSlots("S")
                                THEN counter[s] + 1 ELSE counter[s]]
  /\ next' = next + 1
  /\ UNCHANGED <<live, path, admission, net, receiving, now, setup>>

\* outbound, when the first path that fails the preflight has no counter
\* left, or no delivery id is: the session closes.  A full queue drops the
\* newest delivery and changes nothing.
OutboundExhausted ==
  LET fails == {s \in ActiveSlots("S") : Full(s) \/ ~CanReserve(counter[s])}
      first == CHOOSE s \in fails : \A t \in fails : s <= t
  IN /\ live["S"]
     /\ IF fails = {} THEN next = U64_MAX ELSE ~Full(first)
     /\ Release("S")
     /\ UNCHANGED <<owner, net, now, setup>>

\* The driver sends the packet at the front of a queue (front)
Transmit(s) ==
  /\ queue[s] # <<>>
  /\ Head(queue[s]) \notin net
  /\ net' = net \cup {Head(queue[s])}
  /\ UNCHANGED <<live, path, admission, sending, receiving, now, setup>>

\* ... and confirms it (confirm_sent).
ConfirmSent(s) ==
  /\ queue[s] # <<>>
  /\ Head(queue[s]) \in net
  /\ queue' = [queue EXCEPT ![s] = Tail(@)]
  /\ UNCHANGED <<live, path, admission, next, counter, sealed, net, receiving,
                 now, setup>>

-----------------------------------------------------------------------------
(* Receiving *)

\* The path checks and the session's preview_profile3_data
Authentic(p) ==
  /\ path["R"][p.slot] = "Active"
  /\ Check(replay[p.slot], p.counter)

Known(p) == Seen(window, p.id)

Divergent(p) == Known(p) /\ ~Matches(window, p.id, p.bytes)

\* What preview_inbound_inner asks of a packet
CanPreview(p) ==
  /\ live["R"]
  /\ ~LeaseActive
  /\ Authentic(p)
  /\ ~TooOld(window, p.id)
  /\ ~Divergent(p)
  /\ ~Known(p) => WithinGap(window, p.id)

\* preview_inbound / preview_mobility_inbound: one lease at a time; the
\* decision is made now and applied by the commit.
PreviewInbound(h, p) ==
  /\ CanPreview(p)
  /\ h \in Setup.holders
  /\ preview[h] = None
  /\ lease' = h
  /\ preview' = [preview EXCEPT ![h] =
       [packet |-> p, token |-> Token(replay[p.slot], p.counter),
        decision |-> IF Known(p) THEN "Equal" ELSE "New",
        at |-> now, mobility |-> FALSE, active |-> TRUE]]
  /\ UNCHANGED <<live, path, admission, sending, net, replay, window, dedup,
                 now, setup, deliveries, accepted>>

\* An authentic copy with other bytes under a seen id closes the session.
Diverge(p) ==
  /\ live["R"]
  /\ ~LeaseActive
  /\ Authentic(p)
  /\ ~TooOld(window, p.id)
  /\ Divergent(p)
  /\ Release("R")
  /\ UNCHANGED <<owner, net, now, setup>>

\* Faulty variant: a preview is accepted without comparing its lease.
AcceptsWithoutLease(h) == preview[h] # None

\* accepts_preview / accepts_replay_lease
Accepts(h) == preview[h] # None /\ preview[h].active /\ lease = h

\* prepare_mobility_commit: the candidate manager previews the control
PrepareMobility(h) ==
  /\ live["R"]
  /\ Accepts(h)
  /\ preview[h].packet.id \in Setup.controls
  /\ ~preview[h].mobility
  /\ preview' = [preview EXCEPT ![h].mobility = TRUE]
  /\ UNCHANGED <<live, path, admission, sending, net, replay, window, dedup,
                 lease, now, setup, deliveries, accepted>>

Expired(cache, t) == Restrict(cache, {id \in DOMAIN cache : cache[id] > t})

\* A full plaintext cache evicts the entry that expires first, then the
\* smallest id.
Evicted(cache) ==
  LET before(a, b) == cache[a] < cache[b] \/ (cache[a] = cache[b] /\ a <= b)
      victim == CHOOSE a \in DOMAIN cache : \A b \in DOMAIN cache : before(a, b)
  IN IF Cardinality(DOMAIN cache) < DEDUP_IDS THEN cache
     ELSE Restrict(cache, DOMAIN cache \ {victim})

Cached(cache, id, t) ==
  [i \in DOMAIN cache \cup {id} |->
     IF i = id THEN t + DEDUP_LIFETIME ELSE cache[i]]

\* What a commit does once the replay window took the packet's counter
Accept(v) ==
  /\ replay' = [replay EXCEPT ![v.packet.slot] = Committed(@, v.token)]
  /\ IF v.decision = "New"
     THEN /\ window' = Insert(window, v.packet.id, v.packet.bytes)
          /\ dedup' = Cached(Evicted(Expired(dedup, v.at)), v.packet.id, v.at)
          /\ accepted' = accepted \cup {[id |-> v.packet.id, bytes |-> v.packet.bytes]}
     ELSE /\ dedup' = Expired(dedup, v.at)
          /\ UNCHANGED <<window, accepted>>

CanAccept(v) == CanCommit(replay[v.packet.slot], v.token)

\* Faulty variant: a delivery is handed on under its path counter.
DeliveredAsCounter(v) ==
  IF v.decision = "New" THEN [deliveries EXCEPT ![v.packet.counter] = @ + 1] ELSE deliveries

\* The ReceiveOutcome: only a new delivery reaches the application.
Delivered(v) ==
  IF v.decision = "New" THEN [deliveries EXCEPT ![v.packet.id] = @ + 1] ELSE deliveries

\* commit_inbound
CommitInbound(h) ==
  /\ live["R"]
  /\ Accepts(h)
  /\ ~preview[h].mobility
  /\ CanAccept(preview[h])
  /\ Accept(preview[h])
  /\ deliveries' = Delivered(preview[h])
  /\ lease' = None
  /\ preview' = [preview EXCEPT ![h] = None]
  /\ UNCHANGED <<live, path, admission, sending, net, now, setup>>

\* commit_mobility, when the candidate manager takes its part
CommitMobility(h) ==
  /\ live["R"]
  /\ Accepts(h)
  /\ preview[h].mobility
  /\ CanAccept(preview[h])
  /\ Accept(preview[h])
  /\ lease' = None
  /\ preview' = [preview EXCEPT ![h] = None]
  /\ UNCHANGED <<live, path, admission, sending, net, now, setup, deliveries>>

\* A preview is dropped: by its holder, by abort_inbound, or by a commit or a
\* prepare that is refused.  The session notices on its next call.
DropPreview(h) ==
  /\ preview[h] # None
  /\ preview' = [preview EXCEPT ![h] = None]
  /\ lease' \in IF lease = h THEN {lease, None} ELSE {lease}
  /\ UNCHANGED <<live, path, admission, sending, net, replay, window, dedup,
                 now, setup, deliveries, accepted>>

\* tick, and time passing
ExpireTick ==
  /\ live["R"]
  /\ dedup' = Expired(dedup, now)
  /\ lease' = IF LeaseActive THEN lease ELSE None
  /\ UNCHANGED <<live, path, admission, sending, net, replay, window, preview,
                 now, setup, deliveries, accepted>>

Pass ==
  /\ now < Setup.time
  /\ now' = now + 1
  /\ UNCHANGED <<live, path, admission, sending, net, receiving, setup>>

-----------------------------------------------------------------------------

Next ==
  \/ \E e \in End :
       \/ Close(e)
       \/ \E s \in Slot : \/ RemovePath(e, s)
                          \/ RemoveLastPath(e, s)
                          \/ RemoveUnusedPath(e, s)
       \/ IssueOwner(e) \/ MintAdmission(e) \/ DropOwner(e) \/ Activate(e)
  \/ Outbound \/ OutboundExhausted
  \/ \E s \in Slot : Transmit(s) \/ ConfirmSent(s)
  \/ \E h \in Holder :
       \/ \E p \in net : PreviewInbound(h, p)
       \/ PrepareMobility(h)
       \/ CommitInbound(h)
       \/ CommitMobility(h)
       \/ DropPreview(h)
  \/ \E p \in net : Diverge(p)
  \/ ExpireTick \/ Pass

Spec == Init /\ [][Next]_vars

-----------------------------------------------------------------------------
(* Correctness *)

Bytes == Id \cup {OtherBytes}
PacketType == [slot : Slot, counter : Counter, id : Id, bytes : Bytes]

PreviewType ==
  [packet : PacketType,
   token : [counter : Counter, generation : 0 .. U64_MAX],
   decision : {"New", "Equal"},
   at : Nat, mobility : BOOLEAN, active : BOOLEAN]

\* Ids and counters stay in 1 .. u64::MAX, of which the last is only ever held
\* in reserve (next_delivery, Counters), and paths, windows and previews hold
\* values of their types.
TypeOK ==
  /\ live \in [End -> BOOLEAN]
  /\ path \in [End -> [Slot -> {"Absent", "Active", "Removed", "Released"}]]
  /\ issuer \in [End -> BOOLEAN]
  /\ owner \in [End -> {"None", "Manager", "Admission"}]
  /\ next \in 1 .. U64_MAX
  /\ counter \in [Slot -> 1 .. U64_MAX]
  /\ queue \in [Slot -> Seq(PacketType)]
  /\ sealed \subseteq PacketType
  /\ net \subseteq PacketType
  /\ replay \in [Slot -> WindowType]
  /\ window \in [high : 0 .. U64_MAX - 1,
                 prints : [0 .. DELIVERED_WINDOW_IDS - 1 -> 0 .. U64_MAX]]
  /\ DOMAIN dedup \subseteq Id
  /\ lease \in Holder \cup {None}
  /\ preview \in [Holder -> PreviewType \cup {None}]
  /\ setup \in DOMAIN Setups
  /\ now \in 0 .. Setup.time
  /\ deliveries \in [Id -> Nat]
  /\ accepted \subseteq [id : Id, bytes : Bytes]

\* However the copies of a delivery are spread over the two paths, repeated,
\* delayed and interleaved with path changes, the application is given each
\* delivery id at most once.
DeliveredOnce == \A id \in Id : deliveries[id] <= 1

\* While the receiver is live its window knows exactly the accepted ids among
\* the latest DELIVERED_WINDOW_IDS, each with the bytes it was accepted with:
\* an index shared by two ids never confuses them.
WindowExact ==
  live["R"] =>
    \A id \in Id : window.high - id \in 0 .. DELIVERED_WINDOW_IDS - 1 =>
      \A b \in Bytes :
        window.prints[Index(id)] = b <=> [id |-> id, bytes |-> b] \in accepted

\* The decision a preview took is still right when the preview can be
\* committed: no other delivery was committed in between (the lease).
DecisionCurrent ==
  \A h \in Holder : live["R"] /\ Accepts(h) =>
    /\ ~TooOld(window, preview[h].packet.id)
    /\ preview[h].decision = "New" <=> ~Known(preview[h].packet)

\* A peer that never sends other bytes under one id never makes the receiver
\* see a divergent delivery, and so never loses the session to one.
NoDivergence ==
  live["R"] /\ (\A p \in sealed : p.bytes = p.id) =>
    \A p \in net : ~(Authentic(p) /\ Divergent(p))

\* Delivery ids and counters leave no gap and repeat none: while the sender is
\* live every id it spent was sealed, and the counters it used on a path are
\* those below the next one, each for one packet (a refused delivery reserves
\* neither, and no two packets of a path share a nonce).
NothingReservedInVain ==
  live["S"] =>
    /\ {p.id : p \in sealed} = Setup.seed .. next - 1
    /\ \A s \in Slot :
         LET used == {p \in sealed : p.slot = s}
         IN /\ {p.counter : p \in used} = 1 .. counter[s] - 1
            /\ \A p, q \in used : p.counter = q.counter => p = q

\* The plaintext cache holds only ids that are still in the identity window.
DedupWithinWindow ==
  \A id \in DOMAIN dedup : window.high - id < DELIVERED_WINDOW_IDS

\* Sealed deliveries and deliveries to the application, read as the abstract
\* at-most-once channel.
Channel == INSTANCE AtMostOnce
             WITH Packet <- Id, sent <- {p.id : p \in sealed}

\* Two paths and an identity window implement one at-most-once channel.
ImplementsAtMostOnce == Channel!Spec
=============================================================================
