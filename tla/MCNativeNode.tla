----------------------------- MODULE MCNativeNode -----------------------------
(***************************************************************************)
(* Labs for TLC: one forwarder under topology changes and faults, a ring   *)
(* of three whose routes form a loop, and manifests that must not start.   *)
(***************************************************************************)
EXTENDS NativeNode, TLC

Names2 == {"e1", "e2"}
MCBroadcast == <<"ff", 0>>

\* Topologies: isolated, and one departure from it per kernel read.
Clean ==
  [ipv6 |-> FALSE, default |-> FALSE, loopbackUp |-> FALSE, names |-> Names2,
   up |-> Names2, addressed |-> {}, attached |-> {}]
MCTopologies ==
  {Clean, [Clean EXCEPT !.ipv6 = TRUE], [Clean EXCEPT !.default = TRUE],
   [Clean EXCEPT !.names = {"e1"}, !.up = {"e1"}], [Clean EXCEPT !.attached = {"e2"}]}

Bits(a, b) == (1 :> a) @@ (2 :> b)
Interface(id, name, macs) ==
  [id |-> id, name |-> name, macs |-> macs, local |-> FALSE, transit |-> TRUE]
Route(network, length, egress, mac) ==
  [network |-> network, length |-> length, egress |-> egress, mac |-> mac]
Card(mac, segment) == [mac |-> mac, mtu |-> 4, segment |-> segment, unicast |-> TRUE]
Packet(n, i, src, dst, hop) ==
  [node |-> n, at |-> i, src |-> src, dst |-> dst, length |-> 3, wellformed |-> TRUE,
   hop |-> hop, ttl |-> hop, hops |-> 0]

\* One forwarder between two stations; one route is more specific.
Station(i) == <<"s", i>>
GateManifest ==
  [locals |-> <<>>,
   interfaces |-> <<Interface(1, "e1", {Station(1)}), Interface(2, "e2", {Station(2)})>>,
   routes |-> <<Route(Bits(1, 0), 1, 2, Station(2)), Route(Bits(1, 1), 2, 1, Station(1))>>]
Gate ==
  [raw |-> [n \in {"a"} |-> GateManifest],
   allowlist |-> [n \in {"a"} |-> Names2],
   hardware |-> [n \in {"a"} |-> [e1 |-> Card(<<"a", 1>>, 1), e2 |-> Card(<<"a", 2>>, 2)]],
   topology |-> Clean, namespace |-> TRUE, changes |-> 2, faults |-> TRUE,
   frames |-> {Packet("a", 1, Station(1), Bits(1, 0), 2), Packet("a", 1, Station(1), Bits(1, 1), 3),
               Packet("a", 2, Station(2), Bits(1, 0), 2)}]

\* A ring: each node sends on its e2 to the e1 of the next.
RingNode == {"a", "b", "c"}
After == [a |-> "b", b |-> "c", c |-> "a"]
Before == [a |-> "c", b |-> "a", c |-> "b"]
RingManifest(n) ==
  [locals |-> <<>>,
   interfaces |-> <<Interface(1, "e1", {<<Before[n], 2>>, Station(1)}), Interface(2, "e2", {Station(2)})>>,
   routes |-> <<Route(Bits(1, 0), 1, 2, <<After[n], 1>>)>>]
Ring ==
  [raw |-> [n \in RingNode |-> RingManifest(n)],
   allowlist |-> [n \in RingNode |-> Names2],
   hardware |-> [n \in RingNode |-> [e1 |-> Card(<<n, 1>>, Before[n]), e2 |-> Card(<<n, 2>>, n)]],
   topology |-> Clean, namespace |-> TRUE, changes |-> 0, faults |-> FALSE,
   frames |-> {Packet("a", 1, Station(1), Bits(1, 0), 5), Packet("b", 2, Station(2), Bits(1, 1), 3)}]

\* A start without disturbance, frames that are all dropped, and starts that
\* must fail.
Quick == [Gate EXCEPT !.changes = 0, !.faults = FALSE, !.frames = {}]
Noise ==
  [Quick EXCEPT !.frames =
     {Packet("a", 1, Station(2), Bits(1, 0), 2), Packet("a", 1, Station(1), Bits(1, 0), 0),
      Packet("a", 1, Station(1), Bits(0, 1), 5),
      [Packet("a", 2, Station(2), Bits(1, 0), 2) EXCEPT !.length = 6],
      [Packet("a", 2, Station(2), Bits(1, 0), 2) EXCEPT !.wellformed = FALSE]}]
With(m) == [Quick EXCEPT !.raw = [n \in {"a"} |-> m]]
Refused ==
  [local_loc |-> With([GateManifest EXCEPT !.locals = <<Bits(0, 0)>>]),
   local_delivery |-> With([GateManifest EXCEPT !.interfaces[1].local = TRUE]),
   same_descriptor |-> With([GateManifest EXCEPT !.interfaces[2].id = 1]),
   broadcast_source |-> With([GateManifest EXCEPT !.interfaces[2].macs = {MCBroadcast}]),
   host_bits |-> With([GateManifest EXCEPT !.routes[2].length = 1]),
   same_route |-> With([GateManifest EXCEPT !.routes[2] = Route(Bits(1, 0), 1, 1, Station(1))]),
   default_route |-> With([GateManifest EXCEPT !.routes[2].length = 0]),
   undeclared |-> [Quick EXCEPT !.allowlist["a"] = Names2 \cup {"e3"}],
   small_budget |-> [Quick EXCEPT !.hardware["a"].e1.mtu = 1],
   group_address |-> [Quick EXCEPT !.hardware["a"].e1.unicast = FALSE],
   host_namespace |-> [Quick EXCEPT !.namespace = FALSE]]

MCMac == (RingNode \cup {"s"}) \X {1, 2} \cup {MCBroadcast}

MCLabs == [gate |-> Gate, ring |-> Ring, noise |-> Noise] @@ Refused
=============================================================================
