---------------------------- MODULE MCRedundant ----------------------------
(* Small instances of Redundant for TLC. *)
EXTENDS Redundant, TLC

CONSTANTS h1, h2

\* A faulty peer; previews in two places and a control; entries that expire.
Plain(seed) == [seed |-> seed, holders |-> {h1}, controls |-> {}, faulty |-> FALSE, time |-> 0]
FaultyPeer == [Plain(2) EXCEPT !.faulty = TRUE]
Leases == [Plain(3) EXCEPT !.holders = {h1, h2}, !.controls = {4}]
Expiring == [Plain(3) EXCEPT !.time = 1]

MCSetups == [faulty |-> FaultyPeer, leases |-> Leases, expiring |-> Expiring]
PlaintextSetups == [plain |-> Plain(2)]
=============================================================================
