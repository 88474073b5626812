---------------------------- MODULE NativeManifest ----------------------------
(***************************************************************************)
(* The native forwarder's manifest (r8d/src/manifest.rs): what             *)
(* `validate_manifest_json` accepts, and the route lookup it makes         *)
(* single-valued.                                                          *)
(*                                                                         *)
(* A LOC is its sequence of bits, so that the byte and mask arithmetic of  *)
(* `prefix_matches` and `is_canonical_network` is what it computes: the    *)
(* first `prefix_length` bits agree, the others are zero.  JSON syntax is  *)
(* left out: a raw manifest is a record.                                   *)
(***************************************************************************)
EXTENDS Naturals, Sequences

CONSTANTS
  LocBits,      \* bits of a LOC (128)
  Broadcast     \* the MAC address ff:ff:ff:ff:ff:ff

ASSUME LocBitsAssumption == LocBits \in Nat \ {0}

Loc == [1 .. LocBits -> {0, 1}]

prefix_matches(network, loc, length) == \A i \in 1 .. length : network[i] = loc[i]

\* Faulty variant: any address may stand for a network.
any_network(network, length) == TRUE

is_canonical_network(network, length) == \A i \in length + 1 .. LocBits : network[i] = 0

ValidInterfaces(interfaces, allowed) ==
  /\ \A i \in DOMAIN interfaces :
       LET interface == interfaces[i]
       IN  /\ interface.id # 0
           /\ interface.name \in allowed
           /\ interface.macs # {}
           /\ Broadcast \notin interface.macs
  /\ \A i, j \in DOMAIN interfaces :
       interfaces[i].id = interfaces[j].id \/ interfaces[i].name = interfaces[j].name => i = j

ValidRoutes(routes, ids) ==
  /\ \A i \in DOMAIN routes :
       LET route == routes[i]
       IN  /\ route.length \in 1 .. LocBits
           /\ is_canonical_network(route.network, route.length)
           /\ route.egress \in ids
           /\ route.mac # Broadcast
  /\ \A i, j \in DOMAIN routes :
       routes[i].network = routes[j].network /\ routes[i].length = routes[j].length => i = j

Ids(interfaces) == {interfaces[i].id : i \in DOMAIN interfaces}
Names(interfaces) == {interfaces[i].name : i \in DOMAIN interfaces}

\* validate_manifest_json: all or nothing.
ValidManifest(raw, allowed) ==
  /\ ValidInterfaces(raw.interfaces, allowed)
  /\ \A i, j \in DOMAIN raw.locals : raw.locals[i] = raw.locals[j] => i = j
  /\ ValidRoutes(raw.routes, Ids(raw.interfaces))

\* route_for: the matching routes, and those of them with the longest prefix.
Matching(m, loc) ==
  {i \in DOMAIN m.routes : prefix_matches(m.routes[i].network, loc, m.routes[i].length)}

route_for(m, loc) ==
  {i \in Matching(m, loc) :
     \A j \in Matching(m, loc) : m.routes[j].length <= m.routes[i].length}

\* The lookup is single-valued: no destination has two longest routes, so a
\* packet's way never depends on the order of the routes in the manifest
\* (manifest.rs:130, `max_by_key` takes the last of equals).
SingleValued(m) ==
  \A loc \in Loc : \A i, j \in route_for(m, loc) : i = j
=============================================================================
