# R8 in TLA+

TLA+ models of the R8 protocol implementation (`src/rust/crates`), checked with
TLC on small instances, with TLAPS proofs for every value of the constants where
the argument is within the prover's reach. The Rust crates are the reference;
the documents under `src/spec` are quoted only where the code and a document
disagree.

## The system

| part | code | modules | state |
|---|---|---|---|
| replay window, counters | `r8-session/src/lib.rs` | `ReplayWindow` | modelled, proved |
| protected direction | `r8-session/src/lib.rs` | `DirectionalSession`, `AtMostOnce` | modelled, proved |
| handshake, session tables | `r8-session/src/lib.rs` | `Handshake` | modelled, proved |
| prevalidation limiter | `r8-session/src/lib.rs` | `PrevalidationLimiter` | modelled, proved |
| candidate manager | `r8-mobility/src/lib.rs` | `CandidateManager`, `Responder` | modelled, proved |
| two managers | `r8-mobility/src/lib.rs` | `Mobility` | modelled |
| redundant delivery | `r8-redundant/src/lib.rs` | `DeliveredWindow`, `Redundant` | modelled, proved |
| move tool | `r8-mobility/src/main.rs` | `MoveTool` | modelled |
| manifest, forwarder, native node | `r8d` | `NativeManifest`, `NativeNode` | modelled, proved |
| AF_PACKET binding, isolation check | `r8d/src/linux.rs` | `NativeNode` | what it decides, not its system calls |
| redundant native tool | `r8-redundant-native` | `RedundantTool` | modelled, proved |
| session tool | `r8-session/src/main.rs` | `Handshake` | call order only |
| wire format, UDP daemon, ping | `r8-proto`, `r8d`, `r8ping` | - | not modelled |
| Python reference, benchmarks, lab tools | `src/reference`, `src/bench`, `src/tools` | - | not modelled |

A client opens a session with the cookie-first handshake
(OPEN, VERIFY_COOKIE, OPEN_AUTH, OPEN_ACK, SESSION_ACCEPT). The limiter decides
whether an OPEN is answered at all. Each end of an established session owns two
directions: a send counter and a replay window. Every protected packet is
received in two phases: a *preview* decrypts it and changes nothing, a *commit*
marks the counter and applies what the packet asks for. A session that moves
runs a candidate manager at each end: LOC_UPDATE proposes a locator, BIND_PROBE,
BIND_CHALLENGE and BIND_RESPONSE prove that it is reachable, CANDIDATE_RESULT
gives the verdict on a frozen cohort of proposals. In Profile 3 a proven move
does not replace the path: it mints an *admission* that lets the redundant
session activate a second path. From then on every delivery is sealed once per
path under one delivery id, and the receiver keeps an identity window over ids
besides the replay window of each path.

Below the sessions, a native node forwards R8 frames between the interfaces of
an isolated namespace, by the routes of a static manifest. Above them, the move
tool runs a whole move from the command line: two processes, each a loop over
its sockets, drive the handshake, the directions and the managers. The redundant
native tool does the same for a second path, and sends one delivery over both.

## Modules

**`ReplayWindow`** (operators): `Check`, `Token`, `CanCommit`, `Committed` are
`ReplayWindow::check`, `preview`, `commit` and `mark`; `CanReserve` is
`Counters::reserve`. The bitmap is a function on window positions. Counters are
bounded by `U64_MAX`, and the additions saturate as in the code.

**`DirectionalSession`**: `Encrypt`, `PreviewPacket`, `Commit`, `RefuseCommit`,
`DropPreview`, and `Replace` for a new handshake in the same table slot. The
network keeps every packet, so it loses, repeats and reorders. Each member of
`Holder` is a place where a caller may keep a preview. A cipher is ideal: a
packet opens only under the keys of its own session.

**`AtMostOnce`**: what a direction promises, as two variables: what was sent,
and how often each item was delivered. `DirectionalSession` and `Redundant`
both implement it, the first per packet, the second per delivery id.

**`Handshake`**: `ClientMachine` attempts and one `ServerMachine`. There is one
action per handler, with its early returns as guards, and each accepting
handler is whole: `ReceiveOpenAuth` expires, verifies, checks occupancy and
limit, and makes the pending entry and the OPEN_ACK. A transcript is the record
of its inputs; it names the keys derived from it. The number of an OPEN_ACK
stands for the server's ephemeral key. The server observes a packet under any
binding. `RotateKey` and `Restart` are the cookie-key rotation of `serve` and
the loss of the process.

**`PrevalidationLimiter`**: `admit`, in three actions: refused before the table
(`RefuseCheap`), refused by the full table (`RefuseFull`), and compared, then
answered or refused (`Admit`). The refill is `% U32`, as `as u32` cuts it.

**`CandidateManager`** (operators): the manager's `State` is a record. Each
control has a guard `Accepts...` and a `Preview...` that returns a transition;
`Apply` commits it, including the settling of a cohort that becomes complete.
`Expire` is the whole of `expire`, with its refreeze of the remaining proposals.
Caches are sequences, because the code searches them in order.

**`Responder`** puts one manager against a peer that has the session's keys and
may do anything its plan of moves allows. **`Mobility`** composes two managers
and the network between them. In both, the profile (and in `Responder` the
moves and bindings) is chosen in `Init`, so that one run covers several
sessions.

**`DeliveredWindow`** (operators) is the ring of fingerprints.
**`Redundant`** is one direction of a redundant session: a sender with two
queues, a receiver with two replay windows, the identity window, the plaintext
cache and the single preview lease, and, at both ends, admission, activation,
removal and close. A fingerprint is the bytes it is taken of. When `Faulty`, the
peer may seal other bytes on the second path.

**`MoveTool`** composes the managers with the four loops that drive them:
`move_client` and `serve` when the client moves, `connect_role1_responder` and
`serve_role2_mover` when the server does. A packet taken from a socket is one
step, and so is each timeout a loop acts on. `Handled` is what all four do with
a control (preview, response, commit, results); it is computed once for the
manager a packet meets and passed to the handlers. A binding is the socket a
packet came from. The handshake is reduced to its five packets and retries,
since `Handshake` has the machines; the replay window is the set of packet
numbers seen. A *setup* says who moves and how, whether a stream runs, what may
be lost and how often a loop retries, and is chosen in `Init`. A packet to a
socket nobody reads again is dropped (`Kept`). `receive_timeout` returns nothing
when the instant waited for has passed. The other loops then act as on a
timeout; `move_client` goes round its loop until its deadline without receiving
or repeating anything (`MoveSpin`).

**`RedundantTool`** composes `Redundant` with the two processes of the native
tool. They call the session in program order; the step within a call of several
parts (seal, transmit, confirm; preview, prepare, commit) is part of their
state, so the other process and the links may act in between. Handshake and
managers keep what the processes tell apart: which packet is the next one. Any
other packet ends the process, and so does a deadline. A receive timeout in the
handshake repeats the last request. `Take` and `Lose` repeat and lose frames, and
frames of one link are read in any order.

**`NativeManifest`** (operators) is the validation of a manifest and its route
lookup, over addresses of a few bits. **`NativeNode`** runs the launcher and the
node of several hosts on one network: manifest, watch, isolation check,
descriptors, a second check, then rounds that look at the watch and read each
descriptor once. The isolation check reads the kernel in several steps, and
links, addresses and routes may change between any two. `Admitted` and `Routes`
are `process_frame`: which frames pass, and where they go. With `faults`, a
poll, a receive or a send may fail and stop the process.

The `MC...` modules declare model values and the small plans; the `.cfg` files
give the constants. `PROJECT.json` maps every definition to its lines. A
definition marked "Faulty variant" is a plausible mistake kept next to the right
definition; substituting it makes the named property fail, and no specification
uses it. Type invariants, and invariants that are proved (`TableBounded`,
`RatioNeverRefuses`, `HopsBounded`) or follow from a refinement
(`DeliveredOnce`), are not repeated in every configuration.

## What the runs check

| run | shows |
|---|---|
| `directional_session` | nonces are unique, delivery is at most once, the bitmap is exact, `AtMostOnce` is implemented |
| `prevalidation_limiter` | responses keep to the global pace and to the byte ratio of their source |
| `handshake_collision` | two attempts, equal SCIDs, two bindings: one entry per SCID, agreement on transcripts, return routability, limits, one bootstrap per transcript |
| `handshake_replay` | expiry, rotation and restart: no packet accepted twice, cookies survive rotation, a recorded opening is of no use after its cookie, undisturbed attempts complete |
| `responder` | bounded caches, a current proof finds its candidate, epochs grow, only proven moves are promoted, one admission |
| `mobility` | the mover never runs ahead of its peer, verdicts do not contradict each other, admissions mirror each other |
| `move_tool` | data follows the proven binding, a command succeeds only if the move happened and was used, commands return, moves on a prompt network succeed unless they miss the instant of a retry |
| `redundant` | exact ring (so one version per id), no false divergence, refused sends spend nothing; a committable preview's decision is current; two paths implement `AtMostOnce` |
| `redundant_live` | each process of the tool is only where the other has made it possible, both end, and both succeed over prompt links that lose requests |
| `native` | a ready node is isolated or about to stop, few late sends, every frame read is counted as dropped, sent or failed, hop limits end loops, routes are unique, revoked nodes stop, the network falls silent |
| `handshake_idle` | violated: see below |
| `responder_proven_binding` | violated: see below |

### Bounds

- Windows have 2 positions and counters end at 4 to 6. That is enough for an
  advance by one, by the window, and by more than the window, and for the
  reserved last value to be reached.
- The directional run has two preview holders and two sessions: the smallest
  instance with two previews of one packet and a preview of a replaced session.
- The handshake runs have one or two attempts and two OPEN_ACKs: the second is
  what a replay or a collision needs. `MaxRotations` and `MaxRestarts` are 1 in
  `handshake_replay`. There `KEY_RETENTION` and `ROTATION` are twice `BUCKET`, the
  least that keeps a cookie usable over a rotation; the clock runs for three
  buckets, past the life of a cookie, and a counter can reach its end.
- The limiter has three sources and a table of two, and a clock that crosses
  two windows. With `U32 = 16` the cut never bites within `MaxTime`; it does in
  `MCPrevalidationLimiterTruncated.cfg`, and the proofs hold for every `U32`.
- The managers have two slots, as in the code. Deadlines are shortened to 1 to
  3 ticks with their order kept, or taken in seconds from the code where a
  disagreement depends on them. The clock of `responder` runs for three ticks,
  the longest of them. In `mobility` an end has one proposal token, which each
  tick refills: two proposals compete when they are a tick apart.
- `redundant` starts near the end of the ids, over a ring of two, in three
  setups: a faulty peer, previews in two places with an id that is a mobility
  control, and entries that expire.
- `move_tool` has eighteen setups. Retries and faults are one each, enough for
  a control to be repeated, lost, or to arrive after what followed it; a
  combination of a retry and a loss is in the prompt setups. A stream has two
  packets where an echo of the first may be taken for one of the second. Two
  clients move in one setup without faults. The clock runs for three ticks, past
  the life of a challenge and of a proposal and to the end of the grace.
- `redundant_live` has three setups, whose four deliveries are three controls
  and the data: no faults and two retries; two frames of any kind lost or
  repeated and one retry; prompt links that lose two requests, with the three
  retries of the code.
- `native` has one node for topology changes and faults, three nodes in a ring
  for the hop limit, and manifests that must be refused. Addresses have two
  bits, enough for a prefix inside another.

Symmetry is declared on sources, and on attempts, SCIDs and bindings in
`handshake_collision`; neither run checks liveness. Deadlock is not checked:
every machine may stop (closed, exhausted, or at the bound of the clock).

### Fairness

- `Handshake!FairSpec`: weak fairness of starting and of each handler of the
  handshake that has a packet to accept: the command lines poll their sockets in
  every round and repeat a packet until it is answered. Neither the clock nor any expiry is fair, and outside the tests
  nothing calls `ClientMachine::expire`, so no property says that a client whose
  packets stay lost is released. `HandshakeCompletes` assumes in its formula that
  time does not run out and the server stays up.
- `Mobility!FairSpec`: weak fairness of proposing, probing and sending results,
  and strong fairness of receiving each kind of control and of committing. Drivers
  repeat a control until it is answered, so one that keeps being acceptable is
  accepted in the end. It is used by `MCMobilityLive.cfg`, which shows
  `MoveCompletes`: with two competing proposals and a clock that stands still
  (the code promises completion only before its deadlines), one is committed at
  both ends. `move_tool` shows the same of the tool, with its own retries.
- `MoveTool!Fairness`: each loop has a receive timeout and a deadline, so its
  timeouts are weakly fair, and a packet that stays in a socket that is read is
  taken. Nothing is assumed of the network: a packet that is lost is gone. In a
  *prompt* setup packets keep their order and arrive before any timeout; that is
  the premise of `MoveSucceeds`, not of `Terminates`. So is that no move spins:
  `MoveSpin` may happen in every setup and is never fair.
- `NativeNode!FairSpec`: weak fairness of each process, which runs whenever it
  has something to do; none of stations, topology changes or faults.
- `RedundantTool!FairToolSpec`: each process of the tool is weakly fair, since
  every wait is a poll with a deadline; nothing is assumed of the links. Success
  needs a *prompt* setup, as in `MoveTool`, in which only requests of the
  handshake are lost: the code repeats nothing else, and a late answer makes it
  send a request again that the receiver takes for the next packet and ends.

## What is proved

The modules named `...Proofs` hold theorems for every value of the constants
that satisfies the named assumptions of the modules. `PROJECT.json` lists them
with the property of a run each of them states, if any.

**Direction.** The theorems `TypeCorrect`, `NonceUniqueness`,
`AtMostOnceDelivery`, `WindowIsExact` and `Refinement`
(`DirectionalSessionProofs`) rest on one inductive invariant. `DeliveredOnce` is
not inductive: a commit is refused on the strength of the bitmap, so the
invariant states that the bitmap and `largest` describe exactly the delivered
counters of the live session, that nothing of a later session was delivered, and
that packets in the network carry counters below `next` for the live session.
`MarkRecords` says what marking a counter does to the bitmap, also when the
window advances, and `CheckExact` what `check` accepts of a window that records
a set; they carry the arithmetic, and each action then needs only them.
`Refinement` maps each step to a step of `AtMostOnce` or to a stutter.

**Handshake.** `ScidNamesOneSession`, `EndsAgree`, `BindingIsRoutable`,
`KeysLeaveOnce`, `PacketsAcceptedOnce`, `RotationKeepsCookies`, `OpeningsDie`
and `TypeCorrect`, for any number of attempts, SCIDs, bindings, acknowledgements,
rotations and restarts. `StepKinds` sorts the steps by what they do to the
session tables: drop entries, let one session go on or end, open one, promote
one. The first two and the last carry every entry over at most once
(`CarriedStep`). The replay properties rest on the number of an acknowledgement,
which stands for the server's fresh ephemeral key: no two entries share one,
none exceeds the count made (`AckInv`), so a number that has left the tables
never returns. An accepted packet therefore belongs to no pending entry, and a
session that has its transcript has marked it (`TakenInv`); a bootstrap's
transcript has no entry left at the end that handed it out (`BootstrapInv`).
Agreement and routability need that the network carries only what a machine sent
(`PacketInv`), which is the idealised cryptography. `RotationKeepsCookies` rests
on `CookieAssumption` (a replaced key is kept, and keys are replaced, at
intervals of at least two buckets), and on an invariant that dates every cookie
of this boot by the key it was made with (`CookieInv`). `OpeningsDie` is
inductive as it stands: an entry is made within the buckets of its cookie and its
deadline never moves. `TypeCorrect` includes
the limits of both session tables. A table grows only after a check of its size,
but the number of bootstraps needs that each uses up an acknowledgement
(`TableInv`).

**Limiter.** `TypeCorrect`, `TableStaysBounded`, `RatioStaysKept`, `PaceIsKept`
and `ComparisonIsRedundant`. `Paced` is not inductive either, as it does not
mention the tokens: the invariant adds `emitted + tokens <= BURST + REFILL *
second`. The refill keeps it because cutting a product to a u32 never makes it
larger (`CutBelow`). `ComparisonIsRedundant` follows from `RatioKept`: an
account that answered no more than it was asked, and a request no smaller than
the response, always fit.

**Native node.** `TypeCorrect`, `AlwaysIsolated`, `LateSendsBounded`,
`HopLimitHolds`, `CountersAddUp` and `RoutesSingleValued`, for any laboratory:
any nodes, manifests, topologies and frames. Isolation means links, addresses,
attachments and routes: the IPv6 switches are read at every check, but the
watcher does not report them, so a process may run on after they are turned on.
`ReadyIsolated` alone is not
inductive, since the process becomes ready on the strength of reads made
earlier: the invariant says that, as long as the watch is silent, every read of
the second check that was made would still pass. `FewLateSends` needs the
position in the round (`late < cursor`), and that the watch is looked at before
the position returns to the start. `HopsBounded` needs the exact sum of hops
left and hops taken. That routes are single-valued is a fact about prefixes
(`CanonicalUnique`): two canonical networks of one length that match one
address are equal, and the validation refuses equal ones.

**Redundant delivery.** `TypeCorrect`, `WindowIsExact`, `DecisionsStayCurrent`,
`NothingIsLost`, `NoFalseDivergence`, `AtMostOnceDelivery` and `Refinement`
(`RedundantProofs`), for every size of ring, gap, queue and cache and any set of
places that hold a preview. `Remembers` says what the ring of fingerprints knows
of a set of deliveries, and the lemmas of the first section what inserting an id
does to it, also when it jumps over several; two ids less than a ring apart never
share a place (`IndexDistinct`). The inductive invariant joins `TypeOK`,
`DecisionCurrent` and: a live end has a path (`PathLeft`), counters and ids spent
are exactly those of sealed copies (`CountersUsed`, `IdsUsed`), everything
further on came from a sealed copy (`FromSealed`), the ring remembers what was
accepted (`AcceptedRemembered`), and what reached the application was accepted
and reached it once (`DeliveredAccepted`). `DecisionCurrent` is inductive only
together with the single lease: no other commit can come between the preview
that holds it and its own commit.

**Redundant tool.** `ToolDrivesSession`: whatever the two processes and the links
do, the session takes only steps of `Redundant`, so all of the above holds in the
tool. `StagesAlwaysMatch`: `StagesMatch` for every setup (`RedundantToolProofs`).
The invariant `Stages` says what each process has done by its position: which ids
`send` has sealed (`Sealing`), that no control is among the copies for the second
path (`Copying`), and which ids frames carry (`FrameIds`); that `receive` holds
a preview only within a call (`Calling`), has accepted the controls up to its
stage (`Proving`) and at most the one delivery (`Delivering`); and that once the
result was sent every control was accepted and the second path is active or
about to be (`Winning`). `commit_inbound` itself does not ask whether a delivery
is a control: none reaches the application because all three were accepted
before the first copy is read, so that a copy of one is known. It is assumed that the seed of a setup leaves room for
the four deliveries of `send` and that its first three are the controls.

**Candidate manager.** `StoresBounded`, `ProofFindsCandidate`,
`EpochsOnlyAdvance`, `OnlyProvenMoves` and `OneAdmission` (`ResponderProofs`), for
any plan of moves, any deadlines and any clock; a plan gives an id to one move
(`SetupAssumption`). `CandidateManagerProofs` shows of each operator of the
manager, settling and the refreeze at expiry included, that it keeps a good state
good and moves epochs, locators and admission only forward (`Steps`). `Good`
bounds every store and ties each candidate and frozen proposal to a move of the
plan, each proven candidate to an answered challenge. The operators that go
through a store are recursive functions; what holds of all their values is shown
by assuming a least index where it fails. Between a preview and its commit the
manager may change: `PendingGood` says that a transition that is still fresh is
one the manager would make now.

**Only model-checked**: the agreement of two managers (`EndsAgree`,
`VerdictsConsistent`, `AdmissionsAgree` of `Mobility`), the properties of the
move tool, and all liveness (which needs fairness and `ENABLED`, outside the
prover's reach).

## Where the code and its documents disagree

Two runs are expected to be violated.

- `handshake_idle`: a protected mobility control is accepted by
  `commit_protected_replay`, which does not refresh `last_active_ms`. The
  parameters count the idle timeout from the last accepted protected packet.
- `responder_proven_binding`: one candidate may be probed on two bindings. The
  proof marks the first with its id and slot, and settling promotes the binding
  of the first with its id: a binding may be promoted that answered nothing.

Eight further disagreements are stated as properties with a configuration that
reproduces each of them.

| configuration | property | what the code does |
|---|---|---|
| `MCResponderProvenStuck` | `ProvenCanSettle` | `expire` (mobility, line 1926) retires the proposal of a proven candidate and leaves it in no cohort; `0006-mobility-v0.1.md:53` excludes that |
| `MCResponderResultCache` | `ResultsBounded` | the refreeze at expiry reserves no result slots; the `debug_assert!` at line 824 fails |
| `MCResponderOldBinding` | `GraceKept` | a second promotion drops a binding still in its grace (line 863; `0006-mobility-v0.1.md:55`) |
| `MCRedundantPlaintext` | `DedupWithinWindow` | the plaintext cache keeps ids behind the identity window (redundant, line 876; `parameters-v0.1.md:101`) |
| `MCHandshakeCookieWait` | `WaitsUntilDeadline` | any packet it rejects releases a client in CookieWait (session, line 1703; `0005-session-security-v0.1.md:84,111`) |
| `MCHandshakeIdleClient` | `IdleClientReleased` | an established client has no idle timeout (line 1614; `0005-session-security-v0.1.md:108`) |
| `MCPrevalidationLimiterTruncated` | `RefillComplete` | a refill that is a multiple of 2^32 adds nothing (line 2788; `parameters-v0.1.md:54`) |
| `MCMoveToolSessions` | `PromotedLocator` | the peer locator in effect is a field of `ServerMachine` (session, line 2553), which `serve` sets at every promotion: with two sessions that move, data for one is addressed to the locator of the other and its `exchange` fails, although `0006-mobility-v0.1.md:55` says of a session's promotion that it "installs the selected binding and LOC" |

One more property is about a case no document speaks of.
`MCMoveToolSpin` shows that `PromptMoveSucceeds` fails: if the instant of the
retry passes while `move_client` handles a packet, `receive_timeout` (line 922)
returns nothing from then on, the loop neither receives nor repeats anything, and
the move fails at its deadline. `MoveSucceeds` is the part that holds.

## What is not modelled

- Byte layouts: `SessionMessage`, `Control` and the common header are records.
- Cryptography is ideal. Randomness is a fresh value, except the SCID, which may
  collide.
- Overflow of the limiter's byte counts (one window's traffic cannot reach it)
  and of the manager's generation (2^64 controls in one session).
- Arguments, logging, reports and exit codes of the command lines, and the
  loops of the session tool (its machines are `Handshake`).
- The system calls of the AF_PACKET binding: what they establish is a field of
  the topology or of a descriptor.
- The header codec, the UDP daemon and ping: functions of one packet, without
  state or concurrency; tests reach them.
- In the move tool, the blocking reads of the optional gate and schedule
  descriptors (lines 692-743), which hold a command back for a measurement:
  `Terminates` is about commands started without them.
- The byte masks of a prefix (`is_canonical_network`, `prefix_matches`): an
  address is its bits, and a mask is taken to select the bits it stands for.
- I/O errors of the move tool and of the redundant native tool, which end the
  process at once.
- The Python reference, a second implementation of the same rules, and the
  benchmarks.
- `Mobility` repeats a control as a fresh packet, and a commit may be refused
  because another packet was committed first; `MoveTool` has the packet numbers.

## Plan

1. `Wire`: header packing, validation and checksum as operators, checked against
   a reference definition over bounded inputs.
2. Both ends moving at once in Profile 3 between two managers; reuse of candidate
   ids after a tombstone is evicted; CLOSE to a pending session.
3. The loops `serve` and `connect` of the session tool over `Handshake`.
4. Proofs: the agreement of two managers, from the lemmas about one.
