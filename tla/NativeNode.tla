------------------------------ MODULE NativeNode ------------------------------
(***************************************************************************)
(* The native forwarding daemon `r8-native` (r8d/src/bin/r8-native.rs,     *)
(* native.rs, forward.rs, linux.rs), started on the nodes of a small lab.  *)
(*                                                                         *)
(* A process passes the launcher's phases in order, then runs: wait in     *)
(* poll, look for a watcher event, read at most one frame from each        *)
(* descriptor and forward it.  The kernel's topology may change between    *)
(* any two steps, also between two of the reads of one isolation check.    *)
(* Sent frames are queued at the descriptor that owns the next hop's MAC.  *)
(*                                                                         *)
(* Packet bytes beyond the header fields the forwarder reads are left out. *)
(* `local` (native.rs:275) is dead code here: launcher and runtime refuse  *)
(* every manifest with a local LOC or local delivery.                      *)
(***************************************************************************)
EXTENDS NativeManifest, Integers, FiniteSets

CONSTANTS
  Node, Name, Mac,     \* machines, interface names and addresses a lab may use
  Labs,                \* the labs by name: manifests, hardware, frames, faults
  Topologies,          \* what a node's network namespace may look like
  MIN_R8_PACKET_BUDGET,\* smallest packet budget of a descriptor (48)
  SERIALIZED_R8_MAX,   \* largest R8 packet (1280)
  HOP_MAX              \* largest hop limit (255)

Topology ==
  [ipv6: BOOLEAN, default: BOOLEAN, loopbackUp: BOOLEAN, names: SUBSET Name,
   up: SUBSET Name, addressed: SUBSET Name, attached: SUBSET Name]

\* An Ethernet frame at interface `at` of a node: the header fields the
\* forwarder reads, the hop limit it was sent with and how often it was
\* forwarded.  `wellformed` stands for every other check of the frame and
\* of Header::unpack_with_budget.
Frame ==
  [node: Node, at: Nat, src: Mac, dst: Loc, length: Nat, wellformed: BOOLEAN,
   hop: 0 .. HOP_MAX, ttl: 0 .. HOP_MAX, hops: Nat]

\* A raw manifest after JSON parsing.
RawInterface == [id: Nat, name: Name, macs: SUBSET Mac, local: BOOLEAN, transit: BOOLEAN]
RawRoute == [network: Loc, length: Nat, egress: Nat, mac: Mac]
RawManifest == [locals: Seq(Loc), interfaces: Seq(RawInterface), routes: Seq(RawRoute)]

ASSUME NativeAssumption ==
  /\ MIN_R8_PACKET_BUDGET \in Nat /\ SERIALIZED_R8_MAX \in Nat /\ HOP_MAX \in Nat
  /\ Topologies \subseteq Topology
  /\ \A l \in DOMAIN Labs :
       /\ DOMAIN Labs[l].raw \subseteq Node
       /\ Labs[l].raw \in [DOMAIN Labs[l].raw -> RawManifest]
       /\ Labs[l].changes \in Nat /\ Labs[l].topology \in Topologies
       /\ \A n \in DOMAIN Labs[l].raw : \A i \in DOMAIN Labs[l].raw[n].interfaces :
            Labs[l].hardware[n][Labs[l].raw[n].interfaces[i].name].mac \in Mac
       /\ Labs[l].frames \subseteq Frame
       /\ \A f \in Labs[l].frames :
            f.hops = 0 /\ f.ttl = f.hop /\ f.at > 0 /\ f.node \in DOMAIN Labs[l].raw

VARIABLES
  lab,        \* name of the lab this behaviour runs in; never changes
  topology,   \* each node's network namespace
  changes,    \* how often the topologies have changed
  pending,    \* whether the node's watcher has an unread event
  phase,      \* where each node's process is
  read,       \* the next kernel read of an isolation check
  opened,     \* descriptors the process has open
  cursor,     \* descriptor the running step reads next; 0 in poll
  telemetry,  \* RuntimeTelemetry
  unsent,     \* whether a failed send stopped the process
  late,       \* history: frames sent with a watcher event unread
  injected,   \* frames the stations of the lab have sent
  queue       \* frames waiting at descriptors

environment == <<lab, topology, changes>>
process == <<phase, read, opened, cursor>>
accounts == <<telemetry, unsent, late>>
traffic == <<injected, queue>>
vars == <<environment, pending, process, accounts, traffic>>

\* The counters of RuntimeTelemetry that change.
Counters == {"received", "dropped", "forwarded", "faults"}

Lab == Labs[lab]
Nodes == DOMAIN Lab.raw
Manifest(n) == Lab.raw[n]
Interfaces(n) == DOMAIN Manifest(n).interfaces
Allowlist(n) == Lab.allowlist[n]
Hardware(n, i) == Lab.hardware[n][Manifest(n).interfaces[i].name]

Init ==
  /\ lab \in DOMAIN Labs
  /\ topology = [n \in Nodes |-> Lab.topology]
  /\ changes = 0
  /\ pending = [n \in Nodes |-> FALSE]
  /\ phase = [n \in Nodes |-> "manifest"]
  /\ read = [n \in Nodes |-> 1]
  /\ opened = [n \in Nodes |-> 0]
  /\ cursor = [n \in Nodes |-> 0]
  /\ telemetry = [n \in Nodes |-> [c \in Counters |-> 0]]
  /\ unsent = [n \in Nodes |-> FALSE]
  /\ late = [n \in Nodes |-> 0]
  /\ injected = {}
  /\ queue = {}

-----------------------------------------------------------------------------
(* Topology and isolation *)

\* verify_isolated_topology reads the kernel four times: the IPv6 switches,
\* the IPv4 route table, the interface addresses, the attachments.
Reads == 1 .. 4

Ipv6Disabled(t) == ~ t.ipv6
NoDefaultRoute(t) == ~ t.default
AddressesInert(t, names) ==
  /\ t.names = names
  /\ ~ t.loopbackUp
  /\ names \subseteq t.up
  /\ names \cap t.addressed = {}
Unattached(t, names) == names \cap t.attached = {}

ReadPasses(k, t, names) ==
  \/ k = 1 /\ Ipv6Disabled(t)
  \/ k = 2 /\ NoDefaultRoute(t)
  \/ k = 3 /\ AddressesInert(t, names)
  \/ k = 4 /\ Unattached(t, names)

\* The watcher is bound to links, addresses and routes: all but the switches.
Watched == Reads \ {1}
Reported(t) == <<t.default, t.loopbackUp, t.names, t.up, t.addressed, t.attached>>

\* What the checks ask of the namespace, but for the IPv6 switches: they are read
\* at the checks only, and nothing reports that they are turned on later.
Isolated(n) == \A k \in Watched : ReadPasses(k, topology[n], Allowlist(n))

\* Faulty variant: the watcher is bound when the process has become ready.
BoundLate(n) == phase[n] = "running"

\* The watcher's socket queues events from its bind to the end of the process.
Bound(n) == phase[n] \notin {"manifest", "watch", "failed", "stopped"}

\* The namespace of a node changes under its process.
ChangeTopology(n) ==
  /\ changes < Lab.changes
  /\ \E t \in Topologies \ {topology[n]} :
       /\ topology' = [topology EXCEPT ![n] = t]
       /\ pending' = [pending EXCEPT ![n] =
                        @ \/ (Bound(n) /\ Reported(t) # Reported(topology[n]))]
  /\ changes' = changes + 1
  /\ UNCHANGED <<lab, process, accounts, traffic>>

-----------------------------------------------------------------------------
(* The launcher: main of r8-native *)

\* The order of main; a phase that fails ends the process.
Following ==
  [manifest |-> "watch", watch |-> "isolation", isolation |-> "descriptors",
   descriptors |-> "pending", pending |-> "revalidation", revalidation |-> "privilege",
   privilege |-> "runtime", runtime |-> "readiness", readiness |-> "final",
   final |-> "running"]

Goto(n, p) == phase' = [phase EXCEPT ![n] = p]

\* The process ends: its descriptors close, and what is queued there is gone.
Exit(n, p) ==
  /\ Goto(n, p)
  /\ pending' = [pending EXCEPT ![n] = FALSE]
  /\ cursor' = [cursor EXCEPT ![n] = 0]
  /\ opened' = [opened EXCEPT ![n] = 0]
  /\ queue' = {f \in queue : f.node # n}
  /\ UNCHANGED <<environment, read, injected>>

Fail(n) == Exit(n, "failed") /\ UNCHANGED accounts

Pass(n) ==
  /\ Goto(n, Following[phase[n]])
  /\ UNCHANGED <<environment, pending, read, opened, cursor, accounts, traffic>>

\* The sealed manifest is validated; local delivery and an allowlist that is
\* not exactly the declared interfaces are refused.
ManifestAccepted(n) ==
  /\ ValidManifest(Manifest(n), Allowlist(n))
  /\ Manifest(n).locals = <<>>
  /\ \A i \in Interfaces(n) : ~ Manifest(n).interfaces[i].local
  /\ Names(Manifest(n).interfaces) = Allowlist(n)

LoadManifest(n) ==
  /\ phase[n] = "manifest"
  /\ IF ManifestAccepted(n) THEN Pass(n) ELSE Fail(n)

BindWatch(n) == phase[n] = "watch" /\ Pass(n)

\* One kernel read of verify_isolated_namespace (before the privilege drop it
\* also compares the namespace with that of PID 1, which cannot change).
Verify(n) ==
  /\ phase[n] \in {"isolation", "revalidation", "final"}
  /\ IF ReadPasses(read[n], topology[n], Allowlist(n)) /\ (phase[n] = "final" \/ Lab.namespace)
     THEN \/ /\ read[n] < 4
             /\ read' = [read EXCEPT ![n] = @ + 1]
             /\ UNCHANGED <<environment, pending, phase, opened, cursor, accounts, traffic>>
          \/ /\ read[n] = 4
             /\ read' = [read EXCEPT ![n] = 1]
             /\ Goto(n, Following[phase[n]])
             /\ UNCHANGED <<environment, pending, opened, cursor, accounts, traffic>>
     ELSE Fail(n)

Budget(n, i) ==
  IF Hardware(n, i).mtu < SERIALIZED_R8_MAX THEN Hardware(n, i).mtu ELSE SERIALIZED_R8_MAX

\* open_filtered_descriptor on the next interface; DescriptorBudgets::new
\* after the last.  An interface that has gone cannot be opened.
OpenDescriptor(n) ==
  /\ phase[n] = "descriptors"
  /\ IF opened[n] < Len(Manifest(n).interfaces)
     THEN \/ /\ Manifest(n).interfaces[opened[n] + 1].name \in topology[n].names
             /\ opened' = [opened EXCEPT ![n] = @ + 1]
             /\ UNCHANGED <<environment, pending, phase, read, cursor, accounts, traffic>>
          \/ /\ Manifest(n).interfaces[opened[n] + 1].name \notin topology[n].names
             /\ Fail(n)
     ELSE IF \A i \in Interfaces(n) : Budget(n, i) >= MIN_R8_PACKET_BUDGET
          THEN Pass(n) ELSE Fail(n)

\* Watch::reject_pending: any queued event ends the start.
RejectPending(n) ==
  /\ phase[n] \in {"pending", "readiness"}
  /\ IF pending[n] THEN Fail(n) ELSE Pass(n)

\* drop_privileges and set_nondumpable, applied and read back, or failure.
DropPrivileges(n) ==
  /\ phase[n] = "privilege"
  /\ Pass(n) \/ (Lab.faults /\ Fail(n))

\* NativeRuntime::new: every local MAC is a unicast address.
StartRuntime(n) ==
  /\ phase[n] = "runtime"
  /\ IF \A i \in Interfaces(n) : Hardware(n, i).unicast THEN Pass(n) ELSE Fail(n)

-----------------------------------------------------------------------------
(* The running process *)

Count(n, counters) ==
  telemetry' = [telemetry EXCEPT ![n] =
                  [c \in Counters |-> IF c \in counters THEN telemetry[n][c] + 1 ELSE telemetry[n][c]]]

\* NativeRuntime::fatal, and the `?` in main's loop that ends the process.
Fatal(n) ==
  /\ Exit(n, "stopped")
  /\ Count(n, {"faults"})

Queued(n, i) == {f \in queue : f.node = n /\ f.at = i}

\* Faulty variant: only the descriptors are polled.
ReadableFrames(n) == \E i \in Interfaces(n) : Queued(n, i) # {}

\* poll returns when a descriptor or the watcher is readable.
Readable(n) == pending[n] \/ \E i \in Interfaces(n) : Queued(n, i) # {}

BeginStepOn(n) ==
  /\ cursor' = [cursor EXCEPT ![n] = 1]
  /\ UNCHANGED <<environment, pending, phase, read, opened, accounts, traffic>>

\* The head of step: any watcher event is a revocation, whether or not the
\* topology is isolated again.
BeginStep(n) ==
  /\ phase[n] = "running" /\ cursor[n] = 0
  /\ Readable(n)
  /\ IF pending[n] THEN Fatal(n) /\ UNCHANGED <<unsent, late>> ELSE BeginStepOn(n)

\* poll fails or reports an error on a descriptor: main returns.
PollFails(n) ==
  /\ Lab.faults
  /\ phase[n] = "running" /\ cursor[n] = 0
  /\ Exit(n, "stopped")
  /\ UNCHANGED accounts

-----------------------------------------------------------------------------
(* Frames *)

\* The descriptors a frame for `mac` reaches on a segment.
Owners(mac, segment) ==
  {p \in UNION {{<<m, j>> : j \in 1 .. opened[m]} : m \in Nodes} :
     Hardware(p[1], p[2]).mac = mac /\ Hardware(p[1], p[2]).segment = segment}

\* process_frame up to the route: the frame is well formed, comes from a
\* permitted station, fits the ingress budget and may pass through.
Admitted(n, i, f) ==
  LET ingress == Manifest(n).interfaces[i]
  IN  /\ f.src \in ingress.macs
      /\ f.length <= Budget(n, i)
      /\ f.wellformed /\ f.hop # 0
      /\ ingress.transit
      /\ f.hop > 1

Egress(n, r) ==
  CHOOSE i \in Interfaces(n) : Manifest(n).interfaces[i].id = Manifest(n).routes[r].egress

\* The routes process_frame takes for f: at most one (the last of the longest
\* prefixes), and none when the packet exceeds the egress budget.
Routes(n, i, f) ==
  {r \in route_for(Manifest(n), f.dst) :
     /\ Admitted(n, i, f)
     /\ \A q \in route_for(Manifest(n), f.dst) : q <= r
     /\ f.length <= Budget(n, Egress(n, r))}

\* FrameAction::Forward: one hop less (a u8), the egress MAC as source.
Forwarded(n, r, f) ==
  [f EXCEPT !.hop = (@ - 1) % (HOP_MAX + 1), !.hops = @ + 1, !.src = Hardware(n, Egress(n, r)).mac]

Arrivals(n, r, f) ==
  {[f EXCEPT !.node = p[1], !.at = p[2]] :
     p \in Owners(Manifest(n).routes[r].mac, Hardware(n, Egress(n, r)).segment)}

\* Faulty variant: a descriptor is read until it is empty.
Drain(n) ==
  cursor' = [cursor EXCEPT ![n] = IF Cardinality(Queued(n, @)) > 1 THEN @
                                  ELSE IF @ < Len(Manifest(n).interfaces) THEN @ + 1 ELSE 0]

\* Where the loop over the descriptors goes on; after the last, in poll.
Advance(n) ==
  cursor' = [cursor EXCEPT ![n] = IF @ < Len(Manifest(n).interfaces) THEN @ + 1 ELSE 0]

\* Faulty variant: the read of an empty descriptor blocks.
ReadBlocks(n) ==
  /\ FALSE
  /\ UNCHANGED vars

NothingQueued(n) ==
  /\ phase[n] = "running" /\ cursor[n] > 0
  /\ Queued(n, cursor[n]) = {}
  /\ Advance(n)
  /\ UNCHANGED <<environment, pending, phase, read, opened, accounts, traffic>>

ReceiveFails(n) ==
  /\ Lab.faults
  /\ phase[n] = "running" /\ cursor[n] > 0
  /\ Fatal(n)
  /\ UNCHANGED <<unsent, late>>

\* A frame is read and dropped: oversized, or refused by process_frame.
DropFrame(n) ==
  /\ phase[n] = "running" /\ cursor[n] > 0
  /\ \E f \in Queued(n, cursor[n]) :
       /\ f.length > SERIALIZED_R8_MAX \/ Routes(n, cursor[n], f) = {}
       /\ queue' = queue \ {f}
  /\ Count(n, {"received", "dropped"})
  /\ Advance(n)
  /\ UNCHANGED <<environment, pending, phase, read, opened, unsent, late, injected>>

\* A frame is read and sent on.
ForwardFrame(n) ==
  /\ phase[n] = "running" /\ cursor[n] > 0
  /\ \E f \in Queued(n, cursor[n]) :
       /\ f.length <= SERIALIZED_R8_MAX
       /\ \E r \in Routes(n, cursor[n], f) :
            queue' = (queue \ {f}) \cup Arrivals(n, r, Forwarded(n, r, f))
  /\ Count(n, {"received", "forwarded"})
  /\ late' = [late EXCEPT ![n] = IF pending[n] THEN @ + 1 ELSE @]
  /\ Advance(n)
  /\ UNCHANGED <<environment, pending, phase, read, opened, unsent, injected>>

\* Faulty variant: a frame is counted as forwarded before it is sent.
SendFailsCounted(n) ==
  /\ Lab.faults
  /\ phase[n] = "running" /\ cursor[n] > 0
  /\ \E f \in Queued(n, cursor[n]) :
       f.length <= SERIALIZED_R8_MAX /\ Routes(n, cursor[n], f) # {}
  /\ Exit(n, "stopped")
  /\ Count(n, {"received", "forwarded", "faults"})
  /\ unsent' = [unsent EXCEPT ![n] = TRUE]
  /\ UNCHANGED late

\* A frame is read and its send fails or is short: a fault.
SendFails(n) ==
  /\ Lab.faults
  /\ phase[n] = "running" /\ cursor[n] > 0
  /\ \E f \in Queued(n, cursor[n]) :
       f.length <= SERIALIZED_R8_MAX /\ Routes(n, cursor[n], f) # {}
  /\ Exit(n, "stopped")
  /\ Count(n, {"received", "faults"})
  /\ unsent' = [unsent EXCEPT ![n] = TRUE]
  /\ UNCHANGED late

\* A station of the lab sends a frame that an open descriptor receives.
Inject(f) ==
  /\ f \notin injected
  /\ f.at <= opened[f.node]
  /\ injected' = injected \cup {f}
  /\ queue' = queue \cup {f}
  /\ UNCHANGED <<environment, pending, process, accounts>>

-----------------------------------------------------------------------------
Launch(n) ==
  \/ LoadManifest(n) \/ BindWatch(n) \/ Verify(n) \/ OpenDescriptor(n)
  \/ RejectPending(n) \/ DropPrivileges(n) \/ StartRuntime(n)

Step(n) == BeginStep(n) \/ NothingQueued(n) \/ DropFrame(n) \/ ForwardFrame(n)

Fault(n) == PollFails(n) \/ ReceiveFails(n) \/ SendFails(n)

Next ==
  \/ \E n \in Nodes : Launch(n) \/ Step(n) \/ Fault(n) \/ ChangeTopology(n)
  \/ \E f \in Lab.frames : Inject(f)

Spec == Init /\ [][Next]_vars

\* A process is scheduled, and poll wakes it when something is readable.
FairSpec == Spec /\ \A n \in Node : WF_vars(n \in Nodes /\ (Launch(n) \/ Step(n)))

-----------------------------------------------------------------------------
(* Properties *)

TypeOK ==
  /\ lab \in DOMAIN Labs
  /\ topology \in [Nodes -> Topologies]
  /\ changes \in 0 .. Lab.changes
  /\ phase \in [Nodes -> DOMAIN Following \cup {"running", "failed", "stopped"}]
  /\ pending \in [Nodes -> BOOLEAN] /\ unsent \in [Nodes -> BOOLEAN]
  /\ read \in [Nodes -> Reads]
  /\ opened \in [Nodes -> Nat] /\ cursor \in [Nodes -> Nat] /\ late \in [Nodes -> Nat]
  /\ telemetry \in [Nodes -> [Counters -> Nat]]
  /\ \A n \in Nodes : opened[n] <= Len(Manifest(n).interfaces) /\ cursor[n] <= opened[n]
  /\ injected \subseteq Lab.frames
  /\ queue \subseteq Frame
  /\ \A f \in queue : f.node \in Nodes /\ f.at \in 1 .. opened[f.node]

\* A ready process whose watcher is silent is isolated in its links, addresses,
\* attachments and routes: no interleaving of their changes with the launcher's
\* checks lets it run in a namespace that a check would refuse for them
\* (r8-native.rs:206, the watcher is bound before the first check, and looked
\* at before the last).
ReadyIsolated ==
  \A n \in Nodes : phase[n] = "running" /\ ~ pending[n] => Isolated(n)

\* After a change of links, addresses or routes a process sends at most one
\* more frame per descriptor: the rest of the step it is in (native.rs:201,
\* the event is looked at before each round of reads).
FewLateSends == \A n \in Nodes : late[n] <= Len(Manifest(n).interfaces)

\* A packet with hop limit h is sent on at most h - 1 times, however the
\* routes of the lab are joined, and still has a hop left wherever it is
\* queued (forward.rs:173 and :187).
HopsBounded ==
  \A f \in queue : f.hops > 0 => f.hop >= 1 /\ f.hop + f.hops = f.ttl

\* A frame read is dropped or forwarded, and counted so, except for the one
\* whose failed send stopped the process (native.rs:223-273).
Accounted ==
  \A n \in Nodes :
    telemetry[n].received =
      telemetry[n].dropped + telemetry[n].forwarded + (IF unsent[n] THEN 1 ELSE 0)

\* Every process past the manifest has single-valued routes.
LookupSingleValued ==
  \A n \in Nodes : phase[n] \notin {"manifest", "failed"} => SingleValued(Manifest(n))

\* An event ends the process, in whatever phase it finds it.
RevocationStops ==
  \A n \in Node :
    (n \in Nodes /\ pending[n]) ~> (n \in Nodes /\ phase[n] \in {"failed", "stopped"})

\* What stations send is used up: the lab falls silent again and again, also
\* when its routes form a loop.
Quiet == []<>(queue = {})
=============================================================================
