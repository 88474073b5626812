------------------------------ MODULE Responder ------------------------------
(***************************************************************************)
(* One CandidateManager against any behaviour of an authenticated peer: it *)
(* receives the peer's location updates, probes and responses in any       *)
(* order, at any time, on any binding, while proposing a move of its own.  *)
(*                                                                         *)
(* A control that the manager refuses changes nothing, so only the         *)
(* controls it can accept are offered: updates and probes for the moves    *)
(* the peer plans, answers to challenges it issued, repetitions of answers *)
(* it has a cached result for, and results for its own proposals.  Mobility*)
(* composes two managers; here the clock can run longer and the peer can   *)
(* be seen on more bindings.                                               *)
(***************************************************************************)
EXTENDS CandidateManager

CONSTANTS
  Setups,      \* sessions to look at: [profile, plan, own, bindings]
  Loc0, PeerLoc0, Binding0,
  MaxTime      \* bound on the clock

\* A candidate id is a number and names one move of its peer.
ASSUME SetupAssumption ==
  \A s \in Setups :
    /\ \A p \in s.plan : p.id \in Nat /\ p.epoch \in Nat
    /\ \A p, q \in s.plan : p.id = q.id => p = q
    /\ \A p \in s.own : p.epoch \in Nat

VARIABLES mgr, pending, now,
          provenOn,    \* history: <<id, binding>> of every committed proof
          setup        \* the session's profile, the moves [id, loc, epoch] of
                       \* the peer and of this end, and the bindings the peer
                       \* may be observed on

vars == <<mgr, pending, now, provenOn, setup>>

Init ==
  /\ setup \in Setups
  /\ mgr = NewManager(setup.profile, Loc0, PeerLoc0, Binding0)
  /\ pending = None
  /\ now = 0
  /\ provenOn = {}

\* A change of generation makes an outstanding transition stale.
Stale == pending' = IF pending = None THEN None
                    ELSE [pending EXCEPT !.fresh = FALSE]

\* Only transitions that change the manager are worth holding.
Hold(t) ==
  /\ Mutates(t)
  /\ pending' = [fresh |-> TRUE, action |-> t]
  /\ UNCHANGED <<mgr, now, provenOn, setup>>

CanReceive == pending = None /\ CanPreview(mgr)

-----------------------------------------------------------------------------

Propose(p) ==
  /\ CanPropose(mgr, p.id, p.loc, p.epoch, now)
  /\ ~Has(mgr.outbound, p.id)
  /\ mgr' = ProposeLocal(mgr, p.id, p.loc, p.epoch, now)
  /\ Stale
  /\ UNCHANGED <<now, provenOn, setup>>

Probe(p, b) ==
  /\ CanProbe(mgr, p.id, b, now)
  /\ mgr' = MakeProbe(mgr, p.id, b)
  /\ UNCHANGED <<pending, now, provenOn, setup>>

ReceiveLocUpdate(p) ==
  LET u == [id |-> p.id, old |-> mgr.peerLoc, loc |-> p.loc, epoch |-> p.epoch]
  IN /\ CanReceive
     /\ AcceptsLocUpdate(mgr, u, now)
     /\ Hold(PreviewLocUpdate(mgr, u, now))

ReceiveProbe(p, b) ==
  /\ CanReceive
  /\ AcceptsProbe(mgr, p, b, now)
  /\ Hold(PreviewProbe(mgr, p, b, now))

\* The answer to the challenge issued for candidate c, on any binding
ReceiveResponse(c, b) ==
  LET r == [id |-> c.id, loc |-> c.loc, epoch |-> c.epoch,
            expiry |-> c.expiry, token |-> Token(c)]
  IN /\ CanReceive
     /\ AcceptsResponse(mgr, r, b, now)
     /\ Hold(PreviewResponse(mgr, r, b, now))

\* The peer's verdict on a move of this end: 1 promotes, 2 and 3 are alike
ReceiveResult(c, code, b) ==
  LET r == [id |-> c.id, epoch |-> c.epoch, result |-> code]
  IN /\ CanReceive
     /\ AcceptsResult(mgr, r, b, now)
     /\ Hold(PreviewResult(mgr, r, b, now))

Commit ==
  /\ pending # None
  /\ pending.fresh
  /\ ~mgr.closed
  /\ LET t == pending.action
     IN /\ mgr' = Apply(mgr, t)
        /\ provenOn' = provenOn \cup
             IF t.kind = "Prove" THEN {<<t.id, t.response.binding>>} ELSE {}
  /\ pending' = None
  /\ UNCHANGED <<now, setup>>

Refuse ==
  /\ pending # None
  /\ pending' = None
  /\ UNCHANGED <<mgr, now, provenOn, setup>>

TakeResults ==
  /\ mgr.emitted # <<>>
  /\ mgr' = [mgr EXCEPT !.emitted = <<>>]
  /\ UNCHANGED <<pending, now, provenOn, setup>>

\* take_profile3_admissions: only once the results were taken
TakeAdmission ==
  /\ mgr.emitted = <<>>
  /\ mgr.admission # None
  /\ mgr' = [mgr EXCEPT !.admission = None]
  /\ UNCHANGED <<pending, now, provenOn, setup>>

ExpireManager ==
  LET after == Expire(mgr, now)
      changes == ExpireChanges(mgr, after, now)
  IN /\ after # mgr \/ changes
     /\ mgr' = after
     /\ IF changes THEN Stale ELSE UNCHANGED pending
     /\ UNCHANGED <<now, provenOn, setup>>

CloseManager ==
  /\ ~mgr.closed
  /\ mgr' = Close(mgr)
  /\ Stale
  /\ UNCHANGED <<now, provenOn, setup>>

Tick ==
  /\ now < MaxTime
  /\ now' = now + 1
  /\ UNCHANGED <<mgr, pending, provenOn, setup>>

Next ==
  \/ \E p \in setup.own : Propose(p) \/ \E b \in setup.bindings : Probe(p, b)
  \/ \E p \in setup.plan :
       ReceiveLocUpdate(p) \/ \E b \in setup.bindings : ReceiveProbe(p, b)
  \/ \E b \in setup.bindings :
       \/ \E c \in Range(mgr.candidates) : ReceiveResponse(c, b)
       \/ \E c \in Range(mgr.outbound), code \in {1, 3} : ReceiveResult(c, code, b)
  \/ Commit \/ Refuse
  \/ TakeResults \/ TakeAdmission
  \/ ExpireManager \/ CloseManager
  \/ Tick

Spec == Init /\ [][Next]_vars

-----------------------------------------------------------------------------
(* Correctness *)

Binding == setup.bindings \cup {Binding0}
Time == 0 .. MaxTime + RESULT_LIFE
PeerIds == {p.id : p \in setup.plan}

\* The manager's State holds values of its types: tokens within their burst,
\* entries of the peer's own ids, bindings that were observed, and expiries no
\* later than the longest life from now.
TypeOK ==
  /\ now \in 0 .. MaxTime
  /\ mgr.closed \in BOOLEAN /\ mgr.secret \in BOOLEAN
  /\ mgr.admitted \in BOOLEAN /\ mgr.owner \in BOOLEAN
  /\ mgr.binding \in Binding
  /\ mgr.old # None => mgr.old \in [binding : Binding, expiry : Time]
  /\ mgr.tokens \in 0 .. PROPOSAL_TOKENS
  /\ \A p \in Range(mgr.proposals) : p.id \in PeerIds /\ p.expiry \in Time
  /\ \A c \in Range(mgr.candidates) :
       /\ c.id \in PeerIds /\ c.binding \in Binding /\ c.expiry \in Time
       /\ c.state \in {"Challenged", "Proven", "Failed"}
  /\ pending # None => pending.fresh \in BOOLEAN /\ Mutates(pending.action)
  /\ provenOn \subseteq PeerIds \X Binding

\* The bounded stores stay within their two slots: proposals, candidates,
\* results waiting to be sent, own proposals and tombstones.
CachesBounded ==
  /\ Len(mgr.proposals) <= SLOTS /\ Len(mgr.candidates) <= SLOTS
  /\ Len(mgr.emitted) <= SLOTS /\ Len(mgr.outbound) <= SLOTS
  /\ Len(mgr.tombs) <= SLOTS /\ FrozenSlots(mgr) <= SLOTS

\* The result cache has two slots; settle_frozen_cohort asserts that its
\* outcomes fit.
ResultsBounded == Len(mgr.results) <= SLOTS

\* No step takes a committed epoch back, and a locator changes only together
\* with a strictly greater epoch: one candidate per epoch is promoted, once.
EpochsAdvance ==
  [][/\ mgr'.peerEpoch >= mgr.peerEpoch
     /\ mgr'.localEpoch >= mgr.localEpoch
     /\ mgr'.peerLoc # mgr.peerLoc => mgr'.peerEpoch > mgr.peerEpoch
     /\ mgr'.localLoc # mgr.localLoc => mgr'.localEpoch > mgr.localEpoch]_vars

\* A settlement promotes the locator of a move some challenge of which was
\* answered: no timeout, refusal or cached proposal moves the peer.
PromotesProvenMove ==
  [][mgr'.peerEpoch # mgr.peerEpoch =>
       \E p \in setup.plan, b \in setup.bindings :
         /\ p.loc = mgr'.peerLoc /\ p.epoch = mgr'.peerEpoch
         /\ <<p.id, b>> \in provenOn']_vars

\* A settlement promotes the binding that answered the challenge.
PromotesProvenBinding ==
  [][mgr'.peerEpoch # mgr.peerEpoch =>
       \E p \in setup.plan : <<p.id, mgr'.binding>> \in provenOn']_vars

\* A proven candidate can still be settled: its proposal is cached or belongs
\* to the frozen cohort.
ProvenCanSettle ==
  \A c \in Range(mgr.candidates) :
    c.state = "Proven" =>
      Has(mgr.proposals, c.id) \/ Has(FrozenMembers(mgr), c.id)

\* The generation protects the candidate a proof was previewed for: applying
\* a current Prove transition always finds it (`expect` in
\* apply_after_replay), whatever happened between preview and commit.
ProveFindsCandidate ==
  pending # None /\ pending.fresh /\ ~mgr.closed =>
    (pending.action.kind = "Prove" =>
       \E c \in Range(mgr.candidates) :
         c.id = pending.action.id /\ c.epoch = pending.action.epoch)

\* A replaced binding stays usable for inbound traffic until its grace ends.
GraceKept ==
  [][mgr.old # None /\ now' < mgr.old.expiry /\ ~mgr'.closed
       => AllowedInbound(mgr', mgr.old.binding, now')]_vars

\* Profile 3 admits one path: once admitted the manager holds no candidate,
\* no secret and no owner, and mints no second admission.
AdmittedOnce ==
  [][mgr.admitted => /\ mgr'.admitted
                     /\ mgr'.admission \in {mgr.admission, None}
                     /\ mgr'.candidates = <<>> /\ ~mgr'.secret]_vars
=============================================================================
