----------------------- MODULE MCPrevalidationLimiter -----------------------
(* Small instances of PrevalidationLimiter for TLC. *)
EXTENDS PrevalidationLimiter, TLC

CONSTANTS s1, s2, s3

Symmetry == Permutations(Source)
=============================================================================
