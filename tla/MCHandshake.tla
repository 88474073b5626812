----------------------------- MODULE MCHandshake -----------------------------
(* Small instances of Handshake for TLC. *)
EXTENDS Handshake, TLC

CONSTANTS a1, a2, b1, b2, c1, c2

\* Attempts, SCIDs and bindings are interchangeable; used for safety only.
Interchange ==
  Permutations({a1, a2}) \cup Permutations({b1, b2}) \cup Permutations({c1, c2})
=============================================================================
