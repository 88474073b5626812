----------------------------- MODULE MCMobility -----------------------------
(* Small instances of Mobility for TLC. *)
EXTENDS Mobility

CONSTANTS A, B, a0, a1, a2, b0, onA0, onA1, onB

MCEndpoint == {A, B}
MCLoc0 == (A :> a0) @@ (B :> b0)

\* B is reached on one binding; A is observed on its initial binding and on
\* a new one.
MCBinding0 == (A :> onB) @@ (B :> onA0)
OneBinding == (A :> {onB}) @@ (B :> {onA1})

Move(e, id, loc, epoch) == [from |-> e, id |-> id, loc |-> loc, epoch |-> epoch]

\* Two competing moves of A in one epoch.
PlanSameEpoch == {Move(A, 1, a1, 1), Move(A, 2, a2, 1)}
=============================================================================
