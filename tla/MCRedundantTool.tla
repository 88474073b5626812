-------------------------- MODULE MCRedundantTool --------------------------
(* Small instances of RedundantTool for TLC. *)
EXTENDS RedundantTool, TLC

CONSTANT h1

\* three controls and one delivery
Tool == [seed |-> 1, holders |-> {h1}, controls |-> 1 .. 3, faulty |-> FALSE, time |-> 0]

MCSetups == [quiet |-> Tool, faulty |-> Tool, prompt |-> Tool]

\* the requests of the handshake, which are sent again
Requests == {"open", "auth"}
All == {"open", "verify", "auth", "ack", "accept", "data", "LocUpdate",
        "BindProbe", "BindChallenge", "BindResponse", "CandidateResult"}

MCDrives ==
  [quiet |-> [prompt |-> FALSE, faults |-> 0, losable |-> {}, retries |-> 2],
   faulty |-> [prompt |-> FALSE, faults |-> 2, losable |-> All, retries |-> 1],
   prompt |-> [prompt |-> TRUE, faults |-> 2, losable |-> Requests, retries |-> 3]]
=============================================================================
