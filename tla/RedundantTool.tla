---------------------------- MODULE RedundantTool ----------------------------
(***************************************************************************)
(* r8-redundant-native: two processes, `send` and `receive`, each with a   *)
(* socket on two links.  They shake hands over link 0, prove a candidate   *)
(* path over link 1 with the controls of r8-mobility, activate it as the   *)
(* second path of a Profile-3 session, and send one delivery over both.    *)
(* Either process stops at the first error: `receive` succeeds if one copy *)
(* was delivered and the other suppressed.                                 *)
(*                                                                         *)
(* The module composes Redundant (the session of the direction from `send` *)
(* to `receive`) with the two processes, which call it in program order.   *)
(* Every control is sealed for slot 0, whatever link it leaves on.  The    *)
(* two controls of the other direction keep only their frame number, which *)
(* is what the replay window marks.  A session is read as there from the   *)
(* start and used once the handshake is over.                              *)
(*                                                                         *)
(* The machines of the handshake and the candidate managers keep what the  *)
(* processes tell apart: a manager refuses a control that is not the next  *)
(* one, or answers it with another response than run insists on, so each   *)
(* receive goes on with one kind of packet and ends the process on any     *)
(* other.  (Handshake and Mobility model the machines and the managers.)   *)
(* Deadlines are receive timeouts: the managers' expiries are the same     *)
(* instants.                                                               *)
(***************************************************************************)
EXTENDS Redundant

CONSTANTS
  Drives               \* what the links do in a setup: see RedundantToolAssumption

ASSUME RedundantToolAssumption ==
  /\ DOMAIN Drives = DOMAIN Setups
  /\ \A u \in DOMAIN Drives :
       Drives[u] \in [prompt : BOOLEAN,        \* frames arrive in order and before any timeout
                      faults : Nat,            \* frames the links may lose or repeat
                      losable : SUBSET STRING, \* the kinds of frame they may lose
                      retries : 0 .. 3]        \* CONTROL_RETRY_DELAYS.len()
  \* `send` spends its first three delivery ids on the controls and one more on
  \* the delivery; its random seed leaves that many.
  /\ \A u \in DOMAIN Drives :
       /\ Setups[u].controls = Setups[u].seed .. Setups[u].seed + 2
       /\ Setups[u].seed + 3 < U64_MAX

VARIABLES
  tx,       \* the process in Mode::Send
  rx,       \* the process in Mode::Receive
  wire,     \* frames on a link or in a socket buffer
  faults    \* frames lost or repeated so far

toolVars == <<tx, rx, wire, faults>>
allVars == <<vars, toolVars>>

Drive == Drives[setup]

-----------------------------------------------------------------------------
(* Frames *)

\* a handshake packet, or a sealed packet by what it holds
Frame(to, link, n, type, packet) ==
  [to |-> to, link |-> link, n |-> n, type |-> type, packet |-> packet]

\* what each process waits for, and on which link
TxWaits == [cookie |-> 0, auth |-> 0, challenge |-> 1, result |-> 1]
RxWaits == [listen |-> 0, auth |-> 0, accept |-> 0, update |-> 0,
            probe |-> 1, response |-> 1, first |-> 0, second |-> 1]

RxWaiting == rx.pc \in DOMAIN RxWaits /\ rx.step = "take"

Readable(f) ==
  IF f.to = "S" THEN tx.pc \in DOMAIN TxWaits /\ TxWaits[tx.pc] = f.link
  ELSE RxWaiting /\ RxWaits[rx.pc] = f.link

Receivable(e) ==
  {f \in wire : /\ f.to = e /\ Readable(f)
                /\ Drive.prompt => \A g \in wire : g.to = e /\ g.link = f.link => f.n <= g.n}

\* Nothing is on its way and neither process has anything else to do.
Idle ==
  /\ tx.pc \in DOMAIN TxWaits \cup {"ok", "failed"}
  /\ RxWaiting \/ rx.pc \in {"ok", "failed"}
  /\ \A f \in wire : ~Readable(f)

\* Faulty variant of CanRetry: only the first request is repeated.
CanRetryOpen == tx.pc = "cookie" /\ tx.tries < Drive.retries

CanRetry == tx.pc \in {"cookie", "auth"} /\ tx.tries < Drive.retries

\* a receive timeout that repeats the last packet; a deadline
TimedOut == Drive.prompt => Idle
Overdue == TimedOut /\ (Drive.prompt => ~CanRetry)

\* Frames sent to a process that ended are gone.
Sent(frames, to) == IF live[to] THEN frames ELSE {}

\* A frame is taken from its socket; the link may have repeated it.
Take(f, frames) ==
  \/ wire' = (wire \ {f}) \cup frames /\ UNCHANGED faults
  \/ /\ faults < Drive.faults /\ ~Drive.prompt
     /\ wire' = wire \cup frames /\ faults' = faults + 1

ToolInit ==
  /\ Init
  /\ tx = [pc |-> "open", step |-> "seal", tries |-> 0, n |-> 0, seen |-> {}]
  /\ rx = [pc |-> "listen", step |-> "take", n |-> 0, first |-> None, second |-> None]
  /\ wire = {}
  /\ faults = 0

-----------------------------------------------------------------------------
(* Mode::Send *)

\* The process becomes t; the session is left alone.
Tx(t) == tx' = t /\ UNCHANGED <<vars, rx>>

TxFail == [tx EXCEPT !.pc = "quit"]

\* transmit of a handshake packet on link 0
ShakeFrame(n, type) == Sent({Frame("R", 0, n, type, None)}, "R")

TxOpen ==
  /\ tx.pc = "open"
  /\ Tx([tx EXCEPT !.pc = "cookie", !.n = 1])
  /\ wire' = wire \cup ShakeFrame(1, "open")
  /\ UNCHANGED faults

\* receive_client_control: the current packet again
TxRetry ==
  /\ CanRetry /\ TimedOut
  /\ Tx([tx EXCEPT !.tries = @ + 1, !.n = @ + 1])
  /\ wire' = wire \cup ShakeFrame(tx.n + 1, IF tx.pc = "cookie" THEN "open" ELSE "auth")
  /\ UNCHANGED faults

\* receive_verify, receive_ack: any other packet is an error
TxVerify(f) ==
  /\ tx.pc = "cookie"
  /\ IF f.type = "verify"
     THEN /\ Tx([tx EXCEPT !.pc = "auth", !.n = @ + 1])
          /\ Take(f, ShakeFrame(tx.n + 1, "auth"))
     ELSE Tx(TxFail) /\ Take(f, {})

TxAck(f) ==
  /\ tx.pc = "auth"
  /\ IF f.type = "ack"
     THEN /\ Tx([tx EXCEPT !.pc = "issue", !.n = @ + 1])
          /\ Take(f, ShakeFrame(tx.n + 1, "accept"))
     ELSE Tx(TxFail) /\ Take(f, {})

\* issue_profile3_admission_owner, manager and propose_local
TxIssue ==
  /\ tx.pc = "issue"
  /\ IssueOwner("S")
  /\ tx' = [tx EXCEPT !.pc = "update"]
  /\ UNCHANGED <<rx, wire, faults>>

\* send_control, and the delivery to both paths: the packets of one outbound
\* are transmitted and confirmed one after the other
Sends == [update |-> "LocUpdate", probe |-> "BindProbe",
          response |-> "BindResponse", data |-> "data"]

TxSeal ==
  /\ tx.pc \in DOMAIN Sends /\ tx.step = "seal"
  /\ Outbound
  /\ tx' = [tx EXCEPT !.step = "transmit"]
  /\ UNCHANGED <<rx, wire, faults>>

NextSlot == IF queue[0] # <<>> THEN 0 ELSE 1

\* the link the packet of a slot leaves on
Link(pc, s) == IF pc = "data" THEN s ELSE IF pc = "update" THEN 0 ELSE 1

TxTransmit ==
  /\ tx.pc \in DOMAIN Sends /\ tx.step = "transmit"
  /\ Transmit(NextSlot)
  /\ tx' = [tx EXCEPT !.step = "confirm", !.n = @ + 1]
  /\ wire' = wire \cup Sent({Frame("R", Link(tx.pc, NextSlot), tx.n + 1,
                                   Sends[tx.pc], Head(queue[NextSlot]))}, "R")
  /\ UNCHANGED <<rx, faults>>

AfterSend == [update |-> "probe", probe |-> "challenge", response |-> "result",
              data |-> "sent"]

TxConfirm ==
  /\ tx.pc \in DOMAIN Sends /\ tx.step = "confirm"
  /\ ConfirmSent(NextSlot)
  /\ tx' = IF \A s \in Slot : queue'[s] = <<>>
           THEN [tx EXCEPT !.pc = AfterSend[@], !.step = "seal"]
           ELSE [tx EXCEPT !.step = "transmit"]
  /\ UNCHANGED <<rx, wire, faults>>

\* Faulty variant of TxOpens: neither the replay window nor the kind counts.
TxOpensControl(f, type) == f.type \in {"BindChallenge", "CandidateResult"}

\* commit_control of a packet the replay window has not seen, and what run
\* makes of it: the challenge is answered, the result leaves the manager one
\* admission (take_profile3_admissions)
TxOpens(f, type) == f.type = type /\ f.n \notin tx.seen

TxChallenge(f) ==
  /\ tx.pc = "challenge"
  /\ Take(f, {})
  /\ Tx(IF TxOpens(f, "BindChallenge")
        THEN [tx EXCEPT !.pc = "response", !.seen = @ \cup {f.n}] ELSE TxFail)

TxResult(f) ==
  /\ tx.pc = "result"
  /\ Take(f, {})
  /\ IF TxOpens(f, "CandidateResult")
     THEN /\ MintAdmission("S")
          /\ tx' = [tx EXCEPT !.pc = "activate"]
          /\ UNCHANGED rx
     ELSE Tx(TxFail)

\* activate, READY, and the delivery
TxActivate ==
  /\ tx.pc = "activate"
  /\ Activate("S")
  /\ tx' = [tx EXCEPT !.pc = IF CanActivate("S") THEN "data" ELSE "quit"]
  /\ UNCHANGED <<rx, wire, faults>>

\* a deadline passes
TxGiveUp ==
  /\ tx.pc \in DOMAIN TxWaits
  /\ Overdue
  /\ Tx(TxFail)
  /\ UNCHANGED <<wire, faults>>

\* The process ends and with it its session and its sockets.
TxExit ==
  /\ tx.pc \in {"sent", "quit"}
  /\ Close("S")
  /\ tx' = [tx EXCEPT !.pc = IF @ = "sent" THEN "ok" ELSE "failed"]
  /\ wire' = {f \in wire : f.to # "S"}
  /\ UNCHANGED <<rx, faults>>

TxNext ==
  \/ TxOpen \/ TxRetry \/ TxIssue \/ TxSeal \/ TxTransmit \/ TxConfirm
  \/ \E f \in Receivable("S") :
       TxVerify(f) \/ TxAck(f) \/ TxChallenge(f) \/ TxResult(f)
  \/ TxActivate \/ TxGiveUp \/ TxExit

-----------------------------------------------------------------------------
(* Mode::Receive *)

Rx(r) == rx' = r /\ UNCHANGED <<vars, tx>>

RxFail == [rx EXCEPT !.pc = "quit"]

\* receive_open, receive_open_auth and receive_accept, each of the packet it
\* expects; any other packet is an error
RxShakes == [listen |-> [expects |-> "open", answers |-> {"verify"}, next |-> "auth"],
             auth |-> [expects |-> "auth", answers |-> {"ack"}, next |-> "accept"],
             accept |-> [expects |-> "accept", answers |-> {}, next |-> "issue"]]

RxShake(f) ==
  /\ rx.pc \in DOMAIN RxShakes
  /\ LET shake == RxShakes[rx.pc]
     IN IF f.type = shake.expects
        THEN /\ Rx([rx EXCEPT !.pc = shake.next, !.n = @ + 1])
             /\ Take(f, Sent({Frame("S", 0, rx.n + 1, t, None) : t \in shake.answers}, "S"))
        ELSE Rx(RxFail) /\ Take(f, {})

\* issue_profile3_admission_owner and manager
RxIssue ==
  /\ rx.pc = "issue"
  /\ IssueOwner("R")
  /\ rx' = [rx EXCEPT !.pc = "update"]
  /\ UNCHANGED <<tx, wire, faults>>

\* preview_inbound_inner of a sealed packet; its header names the slot
RxOpens(packet, s) ==
  /\ packet # None
  /\ packet.slot = s
  /\ CanPreview(packet)

RxControls == [update |-> "LocUpdate", probe |-> "BindProbe", response |-> "BindResponse"]

\* commit_control: preview_mobility_inbound
RxPreview(f) ==
  /\ rx.pc \in DOMAIN RxControls
  /\ Take(f, {})
  /\ IF RxOpens(f.packet, 0) /\ f.type = RxControls[rx.pc]
     THEN /\ \E h \in Holder : PreviewInbound(h, f.packet)
          /\ rx' = [rx EXCEPT !.step = "prepare"]
          /\ UNCHANGED tx
     ELSE Rx(RxFail)

\* ... prepare_mobility_commit
RxPrepare ==
  /\ rx.pc \in DOMAIN RxControls /\ rx.step = "prepare"
  /\ \E h \in Holder : PrepareMobility(h)
  /\ rx' = [rx EXCEPT !.step = "commit"]
  /\ UNCHANGED <<tx, wire, faults>>

\* ... and commit_mobility.  The probe is answered with a challenge, the
\* response settles the candidate and leaves one result (take_results).
AfterCommit == [update |-> "probe", probe |-> "challenge", response |-> "settled"]

RxCommit ==
  /\ rx.pc \in DOMAIN RxControls /\ rx.step = "commit"
  /\ \E h \in Holder : CommitMobility(h)
  /\ rx' = [rx EXCEPT !.pc = AfterCommit[@], !.step = "take"]
  /\ UNCHANGED <<tx, wire, faults>>

\* send_control of the challenge and of the result
RxSend ==
  /\ rx.pc \in {"challenge", "settled"}
  /\ Rx([rx EXCEPT !.pc = IF @ = "challenge" THEN "response" ELSE "admit", !.n = @ + 1])
  /\ wire' = wire \cup
       Sent({Frame("S", 1, rx.n + 1, IF rx.pc = "challenge" THEN "BindChallenge"
                                     ELSE "CandidateResult", None)}, "S")
  /\ UNCHANGED faults

\* take_profile3_admissions
RxAdmit ==
  /\ rx.pc = "admit"
  /\ MintAdmission("R")
  /\ rx' = [rx EXCEPT !.pc = "activate"]
  /\ UNCHANGED <<tx, wire, faults>>

RxActivate ==
  /\ rx.pc = "activate"
  /\ Activate("R")
  /\ rx' = [rx EXCEPT !.pc = IF CanActivate("R") THEN "first" ELSE "quit"]
  /\ UNCHANGED <<tx, wire, faults>>

\* Both copies are read, link 0 first, before either is opened.
RxRead(f) ==
  /\ rx.pc \in {"first", "second"}
  /\ Take(f, {})
  /\ Rx(IF rx.pc = "first" THEN [rx EXCEPT !.pc = "second", !.first = f.packet]
        ELSE [rx EXCEPT !.pc = "deliver", !.second = f.packet])

\* inbound of the first copy, then of the second
CopyOf == [deliver |-> rx.first, suppress |-> rx.second]
SlotOf == [deliver |-> 0, suppress |-> 1]

RxInbound ==
  /\ rx.pc \in DOMAIN SlotOf /\ rx.step = "take"
  /\ IF RxOpens(CopyOf[rx.pc], SlotOf[rx.pc])
     THEN /\ \E h \in Holder : PreviewInbound(h, CopyOf[rx.pc])
          /\ rx' = [rx EXCEPT !.step = "commit"]
          /\ UNCHANGED tx
     ELSE Rx(RxFail)
  /\ UNCHANGED <<wire, faults>>

\* Delivered, then Suppressed: nothing else succeeds, whatever the second is.
AfterInbound(decision) ==
  CASE rx.pc = "deliver" /\ decision = "New" -> "suppress"
    [] rx.pc = "suppress" /\ decision = "Equal" -> "pass"
    [] OTHER -> "quit"

RxDeliver ==
  /\ rx.pc \in DOMAIN SlotOf /\ rx.step = "commit"
  /\ \E h \in Holder :
       /\ CommitInbound(h)
       /\ rx' = [rx EXCEPT !.pc = AfterInbound(preview[h].decision), !.step = "take"]
  /\ UNCHANGED <<tx, wire, faults>>

RxGiveUp ==
  /\ RxWaiting
  /\ Overdue
  /\ Rx(RxFail)
  /\ UNCHANGED <<wire, faults>>

RxExit ==
  /\ rx.pc \in {"pass", "quit"}
  /\ Close("R")
  /\ rx' = [rx EXCEPT !.pc = IF @ = "pass" THEN "ok" ELSE "failed"]
  /\ wire' = {f \in wire : f.to # "R"}
  /\ UNCHANGED <<tx, faults>>

RxNext ==
  \/ \E f \in Receivable("R") : RxShake(f) \/ RxPreview(f) \/ RxRead(f)
  \/ RxIssue \/ RxPrepare \/ RxCommit \/ RxSend \/ RxAdmit \/ RxActivate
  \/ RxInbound \/ RxDeliver \/ RxGiveUp \/ RxExit

-----------------------------------------------------------------------------

\* A link loses a frame.
Lose ==
  /\ faults < Drive.faults
  /\ \E f \in wire : f.type \in Drive.losable /\ wire' = wire \ {f}
  /\ faults' = faults + 1
  /\ UNCHANGED <<vars, tx, rx>>

ToolNext == TxNext \/ RxNext \/ Lose

ToolSpec == ToolInit /\ [][ToolNext]_allVars

\* Each process runs on, and a poll returns by its deadline.
FairToolSpec ==
  /\ ToolSpec
  /\ WF_allVars(TxNext)
  /\ WF_allVars(RxNext)

-----------------------------------------------------------------------------
(* Correctness *)

\* What one process has reached, the other has made possible.  `send` has its
\* second path active only after `receive` committed every control of the
\* candidate, and while `receive` runs its end of the path is active or becomes
\* so without fail: no copy meets a path it does not know.  `receive` reports
\* success only for one delivery that `send` put on both links, handed to the
\* application exactly once; no control ever is.
StagesMatch ==
  /\ path["S"][1] = "Active" =>
       /\ Setup.controls \subseteq {a.id : a \in accepted}
       /\ live["R"] => \/ path["R"][1] = "Active"
                       \/ rx.pc = "admit" /\ issuer["R"] /\ owner["R"] = "Manager"
                       \/ rx.pc = "activate" /\ CanActivate("R")
  /\ rx.pc \in {"pass", "ok"} =>
       \E id \in Id \ Setup.controls :
         /\ deliveries[id] = 1
         /\ \A s \in Slot : \E p \in net : p.slot = s /\ p.id = id
  /\ \A id \in Setup.controls : deliveries[id] = 0

\* Both processes end.  If the links are prompt and lose no more than the
\* requests of the handshake, which receive_client_control repeats, both
\* succeed.
ToolSettles ==
  <>(/\ tx.pc \in {"ok", "failed"} /\ rx.pc \in {"ok", "failed"}
     /\ Drive.prompt => tx.pc = "ok" /\ rx.pc = "ok")
=============================================================================
