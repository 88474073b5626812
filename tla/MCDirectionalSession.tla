------------------------ MODULE MCDirectionalSession ------------------------
(* Small instance of DirectionalSession for TLC. *)
EXTENDS DirectionalSession

CONSTANTS h1, h2

MCHolder == {h1, h2}
=============================================================================
