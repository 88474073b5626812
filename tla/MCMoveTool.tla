----------------------------- MODULE MCMoveTool -----------------------------
(* Small instances of MoveTool for TLC. *)
EXTENDS MoveTool

CONSTANTS C1, C2, a0, a1, a2, b0, b1

MCOldLoc == (C1 :> a0) @@ (C2 :> a0) @@ (Server :> b0)
MCNewLoc == (C1 :> a1) @@ (C2 :> a2) @@ (Server :> b1)

One(moving, mode, stream, shakes, repeats, limit) ==
  [clients |-> {C1}, moving |-> moving, mode |-> mode, expected |-> 1,
   stream |-> stream, shakes |-> shakes, repeats |-> repeats,
   prompt |-> FALSE, faults |-> limit,
   losable |-> Kinds \cup {"data", "ack"}, time |-> 0]

\* what a driver sends again when nothing comes back
Repeated == {"open", "verify", "auth", "ack"} \cup (Kinds \ {"CandidateResult"})

Prompt(moving, mode) ==
  [One(moving, mode, 0, 1, 1, 1) EXCEPT !.prompt = TRUE, !.losable = Repeated]

\* Two clients of one server, which may both move
Two == [One(1, "Mbb", 0, 0, 0, 0) EXCEPT !.clients = {C1, C2}]

\* The clock runs: proposals and challenges may expire, and the grace of the
\* old binding may end.
Timed(moving, repeats) == [One(moving, "Mbb", 1, 0, repeats, 0) EXCEPT !.time = 3]

MCSetups ==
  [mbb1 |-> One(1, "Mbb", 0, 0, 1, 0), abrupt1 |-> One(1, "Abrupt", 0, 0, 0, 1),
   mbb2 |-> One(2, "Mbb", 0, 0, 1, 0), fault2 |-> One(2, "Mbb", 0, 0, 0, 1),
   shake1 |-> One(1, "Mbb", 0, 1, 0, 1),
   stream1 |-> One(1, "Mbb", 1, 0, 0, 1), long1 |-> One(1, "Mbb", 2, 0, 0, 0),
   stream2 |-> One(2, "Mbb", 1, 0, 1, 0), faultyStream2 |-> One(2, "Mbb", 1, 0, 0, 1),
   long2 |-> One(2, "Mbb", 2, 0, 0, 0), longAbrupt2 |-> One(2, "Abrupt", 2, 0, 0, 0),
   timed1 |-> Timed(1, 0), timed2 |-> Timed(2, 0), two |-> Two,
   promptMbb1 |-> Prompt(1, "Mbb"), promptAbrupt1 |-> Prompt(1, "Abrupt"),
   promptMbb2 |-> Prompt(2, "Mbb"), promptAbrupt2 |-> Prompt(2, "Abrupt")]

TwoSessions == [two |-> Two]

Calm == [calm |-> [Prompt(1, "Mbb") EXCEPT !.faults = 0]]
=============================================================================
