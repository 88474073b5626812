------------------------------ MODULE Mobility ------------------------------
(***************************************************************************)
(* Two CandidateManagers of one established session, the network between   *)
(* them and a clock.  Every call of the library is an action: proposing,   *)
(* probing, previewing a received control, committing the transition the   *)
(* preview returned, taking results, expiring and closing.                 *)
(*                                                                         *)
(* A control that was sent may be received at any later time, any number   *)
(* of times (its sender repeats it under a fresh packet counter), in any   *)
(* order, or never; the binding a control is observed on is the network's  *)
(* choice, as a path or an address translation may change between two      *)
(* retries.  Duplicates of one protected packet are the replay window's    *)
(* business (DirectionalSession).                                          *)
(***************************************************************************)
EXTENDS CandidateManager

CONSTANTS
  Endpoint,    \* the two ends of the session
  Plan,        \* moves an end may propose: [from, id, loc, epoch]
  Loc0,        \* initial locator of each end
  Binding0,    \* initial binding each end observes of its peer
  Bindings,    \* bindings each end may observe of its peer
  Profiles,    \* profiles a session may have
  Closing,     \* ends that may close
  MaxTime      \* bound on the clock

VARIABLES
  mgr,         \* State of each end's manager
  pending,     \* at each end, the Transition of an uncommitted preview
  net,         \* controls sent so far
  now,         \* the clock, in seconds
  provenOn     \* history: <<end, id, binding>> of every committed proof

vars == <<mgr, pending, net, now, provenOn>>

Peer(e) == CHOOSE f \in Endpoint : f # e

Init ==
  /\ \E profile \in Profiles :
       mgr = [e \in Endpoint |->
                NewManager(profile, Loc0[e], Loc0[Peer(e)], Binding0[e])]
  /\ pending = [e \in Endpoint |-> None]
  /\ net = {}
  /\ now = 0
  /\ provenOn = {}

-----------------------------------------------------------------------------

Set(e, m) == mgr' = [mgr EXCEPT ![e] = m]

\* A change of generation makes an outstanding transition stale.
Stale(e) ==
  pending' = [pending EXCEPT ![e] =
                IF @ = None THEN None ELSE [@ EXCEPT !.fresh = FALSE]]

Send(e, controls) == net' = net \cup {[to |-> Peer(e), ctl |-> c] : c \in controls}

\* propose_local, and sending the signed LOC_UPDATE
Propose(e, p) ==
  /\ p.from = e
  /\ CanPropose(mgr[e], p.id, p.loc, p.epoch, now)
  /\ Set(e, ProposeLocal(mgr[e], p.id, p.loc, p.epoch, now))
  /\ IF Has(mgr[e].outbound, p.id) THEN UNCHANGED pending ELSE Stale(e)
  /\ Send(e, {Update(mgr[e], p)})
  /\ UNCHANGED <<now, provenOn>>

\* make_probe, and sending the BIND_PROBE; the generation stays
Probe(e, p, carrier) ==
  /\ p.from = e
  /\ CanProbe(mgr[e], p.id, carrier, now)
  /\ Set(e, MakeProbe(mgr[e], p.id, carrier))
  /\ LET c == mgr[e].outbound[OutboundIndex(mgr[e], p.id)]
     IN Send(e, {[type |-> "BindProbe", id |-> c.id, loc |-> c.loc,
                  epoch |-> c.epoch]})
  /\ UNCHANGED <<pending, now, provenOn>>

-----------------------------------------------------------------------------

\* A transition that changes the manager waits for its commit.  One that only
\* answers is committed at once: committing it later would but delay the
\* answer, which the network may do anyway.
Hold(e, t) ==
  IF Mutates(t)
  THEN /\ pending' = [pending EXCEPT ![e] = [fresh |-> TRUE, action |-> t]]
       /\ UNCHANGED <<mgr, net, now, provenOn>>
  ELSE /\ Send(e, Reply(t))
       /\ UNCHANGED <<mgr, pending, now, provenOn>>

\* preview_protected / preview_profile3: one action per kind of control.  A
\* preview the code refuses leaves no trace and is no step.
ReceiveLocUpdate(e, c, b) ==
  /\ c.type = "LocUpdate"
  /\ AcceptsLocUpdate(mgr[e], c, now)
  /\ Hold(e, PreviewLocUpdate(mgr[e], c, now))

ReceiveProbe(e, c, b) ==
  /\ c.type = "BindProbe"
  /\ AcceptsProbe(mgr[e], c, b, now)
  /\ Hold(e, PreviewProbe(mgr[e], c, b, now))

ReceiveChallenge(e, c, b) ==
  /\ c.type = "BindChallenge"
  /\ AcceptsChallenge(mgr[e], c, b, now)
  /\ Hold(e, PreviewChallenge(c))

ReceiveResponse(e, c, b) ==
  /\ c.type = "BindResponse"
  /\ AcceptsResponse(mgr[e], c, b, now)
  /\ Hold(e, PreviewResponse(mgr[e], c, b, now))

ReceiveResult(e, c, b) ==
  /\ c.type = "CandidateResult"
  /\ AcceptsResult(mgr[e], c, b, now)
  /\ Hold(e, PreviewResult(mgr[e], c, b, now))

Receive(e, c, b) ==
  /\ pending[e] = None
  /\ CanPreview(mgr[e])
  /\ \/ ReceiveLocUpdate(e, c, b)
     \/ ReceiveProbe(e, c, b)
     \/ ReceiveChallenge(e, c, b)
     \/ ReceiveResponse(e, c, b)
     \/ ReceiveResult(e, c, b)

\* commit_protected / commit_profile3 of a current transition, and sending
\* the answer.
Commit(e) ==
  /\ pending[e] # None
  /\ pending[e].fresh
  /\ ~mgr[e].closed
  /\ LET t == pending[e].action
     IN /\ Set(e, Apply(mgr[e], t))
        /\ Send(e, Reply(t))
        /\ provenOn' = provenOn \cup
             IF t.kind = "Prove" THEN {<<e, t.id, t.response.binding>>} ELSE {}
  /\ pending' = [pending EXCEPT ![e] = None]
  /\ UNCHANGED now

\* A stale transition is refused; a current one may also be lost, because
\* another packet was committed to the replay window in between.
Refuse(e) ==
  /\ pending[e] # None
  /\ pending' = [pending EXCEPT ![e] = None]
  /\ UNCHANGED <<mgr, net, now, provenOn>>

\* take_results, and sending them
TakeResults(e) ==
  /\ mgr[e].emitted # <<>>
  /\ Send(e, {[type |-> "CandidateResult"] @@ r : r \in Range(mgr[e].emitted)})
  /\ Set(e, [mgr[e] EXCEPT !.emitted = <<>>])
  /\ UNCHANGED <<pending, now, provenOn>>

\* expire, called by the driver at any time
ExpireManager(e) ==
  LET after == Expire(mgr[e], now)
      changes == ExpireChanges(mgr[e], after, now)
  IN /\ after # mgr[e] \/ changes
     /\ Set(e, after)
     /\ IF changes THEN Stale(e) ELSE UNCHANGED pending
     /\ UNCHANGED <<net, now, provenOn>>

CloseManager(e) ==
  /\ e \in Closing
  /\ ~mgr[e].closed
  /\ Set(e, Close(mgr[e]))
  /\ Stale(e)
  /\ UNCHANGED <<net, now, provenOn>>

Tick ==
  /\ now < MaxTime
  /\ now' = now + 1
  /\ UNCHANGED <<mgr, pending, net, provenOn>>

Next ==
  \/ \E e \in Endpoint :
       \/ \E p \in Plan : Propose(e, p) \/ \E b \in Bindings[e] : Probe(e, p, b)
       \/ \E c \in {m \in net : m.to = e}, b \in Bindings[e] : Receive(e, c.ctl, b)
       \/ Commit(e)
       \/ Refuse(e)
       \/ TakeResults(e)
       \/ ExpireManager(e)
       \/ CloseManager(e)
  \/ Tick

Spec == Init /\ [][Next]_vars

-----------------------------------------------------------------------------
(* Fairness: the drivers repeat what they send until it is answered, poll    *)
(* their sockets and commit what they previewed; a refused commit is tried   *)
(* again with the next repetition.                                           *)

ReceiveKind(e, k) ==
  \E c \in {m \in net : m.to = e /\ m.ctl.type = k}, b \in Bindings[e] :
    Receive(e, c.ctl, b)

FairSpec ==
  /\ Spec
  /\ \A e \in Endpoint :
       /\ WF_vars(\E p \in Plan : Propose(e, p))
       /\ WF_vars(\E p \in Plan, b \in Bindings[e] : Probe(e, p, b))
       /\ \A k \in Kinds : SF_vars(ReceiveKind(e, k))
       /\ SF_vars(Commit(e))
       /\ WF_vars(Refuse(e) /\ ~pending[e].fresh)
       /\ WF_vars(TakeResults(e))

-----------------------------------------------------------------------------
(* Correctness *)

Ids == {p.id : p \in Plan}

\* Each end's State holds values of its types: tokens within their burst,
\* entries of planned candidates, observed bindings; and the network carries
\* the five kinds of control.
TypeOK ==
  /\ now \in 0 .. MaxTime
  /\ \A e \in Endpoint :
       /\ mgr[e].tokens \in 0 .. PROPOSAL_TOKENS
       /\ mgr[e].binding \in Bindings[e] \cup {Binding0[e]}
       /\ \A x \in Range(mgr[e].proposals) \cup Range(mgr[e].candidates)
              \cup Range(mgr[e].outbound) \cup Range(mgr[e].results) :
            x.id \in Ids /\ x.expiry \in 0 .. MaxTime + RESULT_LIFE
       /\ pending[e] # None => Mutates(pending[e].action)
  /\ \A m \in net : m.to \in Endpoint /\ m.ctl.type \in Kinds
  /\ provenOn \subseteq Endpoint \X Ids \X UNION {Bindings[e] : e \in Endpoint}

\* The moving end commits a move only after its peer did, and to the
\* locator its peer promoted.
EndsAgree ==
  \A e \in Endpoint :
    /\ mgr[e].localEpoch <= mgr[Peer(e)].peerEpoch
    /\ mgr[e].localEpoch = mgr[Peer(e)].peerEpoch
         => mgr[e].localLoc = mgr[Peer(e)].peerLoc

Verdicts == {m \in net : m.ctl.type = "CandidateResult"}

\* Whatever is retried or repeated, an end never sends two different verdicts
\* on one candidate, and never tells two candidates of one epoch that they won.
VerdictsConsistent ==
  \A m, n \in Verdicts :
    m.to = n.to /\ m.ctl.epoch = n.ctl.epoch =>
      /\ m.ctl.id = n.ctl.id => m.ctl.result = n.ctl.result
      /\ m.ctl.result = 1 /\ n.ctl.result = 1 => m.ctl.id = n.ctl.id

\* Profile 3: when one end moves, the end that moves admits the additional
\* path only after its peer did, and the two admissions are mirror images.
AdmissionsAgree ==
  \A e \in Endpoint :
    (\E p \in Plan : p.from = e) /\ mgr[e].admission # None =>
      LET own == mgr[e].admission
          other == mgr[Peer(e)].admission
      IN /\ other # None
         /\ own.localLoc = other.peerLoc /\ own.peerLoc = other.localLoc
         /\ own.epoch = other.epoch

\* With both ends and the network making progress in time, a proposed move is
\* committed by both ends.
MoveCompletes ==
  <>(\E p \in Plan : /\ mgr[p.from].localLoc = p.loc
                     /\ mgr[Peer(p.from)].peerLoc = p.loc)
=============================================================================
