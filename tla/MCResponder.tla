----------------------------- MODULE MCResponder -----------------------------
(* Small instances of Responder for TLC. *)
EXTENDS Responder

CONSTANTS a1, a2, b1, onA1, onA2

Move(id, loc, epoch) == [id |-> id, loc |-> loc, epoch |-> epoch]

SameEpoch == {Move(1, a1, 1), Move(2, a2, 1)}
TwoEpochs == {Move(1, a1, 1), Move(2, a2, 2)}
OwnMove == {Move(9, b1, 1)}

Session(profile, plan, own, bindings) ==
  [profile |-> profile, plan |-> plan, own |-> own, bindings |-> bindings]

\* The peer moves twice and is seen on two bindings.
Roaming == Session(0, TwoEpochs, {}, {onA1, onA2})
\* Two moves of the peer compete, and this end moves as well.
Competing(profile) == Session(profile, SameEpoch, OwnMove, {onA1})

AllSetups == {Roaming, Competing(0), Competing(3)}

\* The setups of the runs that refute a claim
RoamingSetup == {Roaming}
OneBindingSetup == {Session(0, TwoEpochs, {}, {onA1})}
CompetingSetup == {Session(0, SameEpoch, {}, {onA1, onA2})}
OwnMoveSetup == {Session(0, TwoEpochs, OwnMove, {onA1})}
=============================================================================
