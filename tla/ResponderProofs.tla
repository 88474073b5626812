--------------------------- MODULE ResponderProofs ---------------------------
(***************************************************************************)
(* What one CandidateManager promises against any authenticated peer, for  *)
(* every set of planned moves, bindings and lifetimes: its stores stay     *)
(* within their slots, a current proof finds its candidate, committed      *)
(* epochs only advance, the peer is moved only to a move that answered a   *)
(* challenge, and a path is admitted once.                                 *)
(*                                                                         *)
(* CandidateManagerProofs shows what each operation does to a State; here  *)
(* the operations are the actions of Responder, and what is added is the   *)
(* outstanding transition: while it is current, it can be applied.         *)
(***************************************************************************)
EXTENDS Responder, CandidateManagerProofs

-----------------------------------------------------------------------------
(* Previews return transitions that are ready. *)

LEMMA PreviewsBefore ==
  ASSUME NEW m, NEW plan, NEW W, Good(m, plan, W), ~Spent(m)
  PROVE  ~m.admitted
BY Zenon DEF Good, AdmittedGood, Spent

LEMMA RoomLeft == \A a, b \in Nat : a + b < SLOTS => b < SLOTS
BY DEF SLOTS

LEMMA LocUpdateReady ==
  ASSUME NEW m, NEW plan, NEW W, Good(m, plan, W), CanPreview(m),
         NEW p \in plan, NEW clock, NEW u,
         u = [id |-> p.id, old |-> m.peerLoc, loc |-> p.loc, epoch |-> p.epoch],
         AcceptsLocUpdate(m, u, clock), Mutates(PreviewLocUpdate(m, u, clock))
  PROVE  Ready(m, PreviewLocUpdate(m, u, clock), plan)
         /\ PreviewLocUpdate(m, u, clock).kind # "Prove"
<1> DEFINE t == PreviewLocUpdate(m, u, clock)
<1>1. ~LocUpdateRepeats(m, u)
  <2>1. LocUpdateRepeats(m, u) => t = [kind |-> "None"]
    BY Zenon DEF PreviewLocUpdate
  <2> HIDE DEF t
  <2>2. t.kind # "None"
    BY DEF Mutates, t
  <2> QED
    BY <2>1, <2>2
<1>2. /\ t.kind = "CacheProposal"
      /\ t.proposal.id = p.id /\ t.proposal.loc = p.loc
      /\ t.proposal.epoch = p.epoch
  BY <1>1 DEF PreviewLocUpdate
<1> HIDE DEF t
<1>3. Named(t.proposal, plan)
  BY <1>2, Zenon DEF Named
<1>4. u.epoch = p.epoch /\ u.epoch > m.peerEpoch /\ LocUpdateIsNew(m, u, clock)
  BY <1>1 DEF AcceptsLocUpdate
<1>5. Len(m.proposals) < SLOTS
  <2>1. Len(m.results) \in Nat /\ Len(m.proposals) \in Nat
    BY SeqShape, Zenon DEF Good, Stores, Fits
  <2>2. Len(m.results) + Len(m.proposals) < SLOTS
    BY <1>4, Zenon DEF LocUpdateIsNew
  <2> QED
    BY <2>1, <2>2, RoomLeft, Zenon
<1>6. ~m.admitted
  BY PreviewsBefore, Zenon DEF CanPreview
<1>7. t.proposal.epoch > m.peerEpoch
  BY <1>2, <1>4, Zenon
<1>8. t.kind # "Prove" /\ t.kind # "Challenge" /\ t.kind # "CommitLocal"
  BY <1>2
<1>9. Ready(m, t, plan)
  BY <1>3, <1>5, <1>6, <1>7, <1>8, Zenon DEF Ready
<1> QED
  BY <1>8, <1>9, Zenon DEF t

LEMMA ProbeReady ==
  ASSUME NEW m, NEW plan, NEW W, PlanGood(plan), Good(m, plan, W), CanPreview(m),
         NEW p \in plan, NEW b, NEW clock, AcceptsProbe(m, p, b, clock),
         Mutates(PreviewProbe(m, p, b, clock))
  PROVE  Ready(m, PreviewProbe(m, p, b, clock), plan)
         /\ PreviewProbe(m, p, b, clock).kind # "Prove"
<1> DEFINE t == PreviewProbe(m, p, b, clock)
<1>1. ~Probed(m, p, b)
  <2>1. Probed(m, p, b) => t.kind = "ExistingChallenge"
    BY DEF PreviewProbe
  <2> HIDE DEF t
  <2>2. t.kind # "ExistingChallenge"
    BY DEF Mutates, t
  <2> QED
    BY <2>1, <2>2
<1>2. t = [kind |-> "Challenge",
           candidate |-> [id |-> p.id, loc |-> p.loc, epoch |-> p.epoch,
                          binding |-> b, expiry |-> clock + CHALLENGE_EXPIRY,
                          response |-> None, state |-> "Challenged"]]
  BY <1>1, Zenon DEF PreviewProbe
<1> HIDE DEF t
<1>3. /\ t.kind = "Challenge" /\ DOMAIN t.candidate = CandidateFields
      /\ t.candidate.id = p.id /\ t.candidate.loc = p.loc
      /\ t.candidate.epoch = p.epoch /\ t.candidate.state = "Challenged"
  BY <1>2 DEF CandidateFields
<1>4. Named(t.candidate, plan)
  BY <1>3, Zenon DEF Named
<1>5. Len(m.candidates) < SLOTS
  BY <1>1, Zenon DEF AcceptsProbe
<1>6. p.epoch > m.peerEpoch
  BY Zenon DEF AcceptsProbe, Proposed, Good, ProposalsGood
<1>7. ~m.admitted
  BY PreviewsBefore, Zenon DEF CanPreview
<1>8. t.kind # "Prove" /\ t.kind # "CacheProposal" /\ t.kind # "CommitLocal"
  BY <1>3
<1>9. Ready(m, t, plan)
  BY <1>3, <1>4, <1>5, <1>6, <1>7, <1>8, Zenon DEF Ready
<1> QED
  BY <1>8, <1>9, Zenon DEF t

LEMMA ResponseReady ==
  ASSUME NEW m, NEW plan, NEW W, Good(m, plan, W), CanPreview(m),
         NEW r, NEW b, NEW clock, AcceptsResponse(m, r, b, clock),
         Mutates(PreviewResponse(m, r, b, clock))
  PROVE  Ready(m, PreviewResponse(m, r, b, clock), plan)
         /\ PreviewResponse(m, r, b, clock).response.binding = b
<1> DEFINE t == PreviewResponse(m, r, b, clock)
<1>1. ~CachedResult(m, r.id, r.epoch, clock)
  <2>1. CachedResult(m, r.id, r.epoch, clock) => t.kind = "RespondResult"
    BY DEF PreviewResponse
  <2> HIDE DEF t
  <2>2. t.kind # "RespondResult"
    BY DEF Mutates, t
  <2> QED
    BY <2>1, <2>2
<1>2. /\ t.kind = "Prove" /\ t.id = r.id /\ t.epoch = r.epoch
      /\ t.response.binding = b
  BY <1>1 DEF PreviewResponse, ResponseIdentity
<1> HIDE DEF t
<1>3. \E c \in Range(m.candidates) : c.id = r.id /\ c.epoch = r.epoch
  BY <1>1, Zenon DEF AcceptsResponse, ProvesCandidate, Probed, SameCandidate
<1>4. ~m.admitted
  BY PreviewsBefore, Zenon DEF CanPreview
<1>5. t.kind # "CacheProposal" /\ t.kind # "Challenge" /\ t.kind # "CommitLocal"
  BY <1>2
<1>6. Ready(m, t, plan)
  BY <1>2, <1>3, <1>4, <1>5, Zenon DEF Ready
<1> QED
  BY <1>2, <1>6, Zenon DEF t

LEMMA ResultReady ==
  ASSUME NEW m, NEW plan, NEW W, Good(m, plan, W), CanPreview(m),
         NEW r, NEW b, NEW clock, AcceptsResult(m, r, b, clock),
         Mutates(PreviewResult(m, r, b, clock))
  PROVE  Ready(m, PreviewResult(m, r, b, clock), plan)
         /\ PreviewResult(m, r, b, clock).kind # "Prove"
<1> DEFINE t == PreviewResult(m, r, b, clock)
           O == OutboundFor(m, r, b, clock)
           x == CHOOSE y \in O : TRUE
<1>1. ~CachedResult(m, r.id, r.epoch, clock)
  <2>1. CachedResult(m, r.id, r.epoch, clock) => t.kind = "None"
    BY DEF PreviewResult
  <2> HIDE DEF t
  <2>2. t.kind # "None"
    BY DEF Mutates, t
  <2> QED
    BY <2>1, <2>2
<1>2. O # {}
  BY <1>1, Zenon DEF AcceptsResult
<1>3. x \in O
  BY <1>2, Zenon
<1>4. t.kind = "CommitLocal" /\ t.candidate = x
  BY <1>1 DEF PreviewResult
<1> HIDE DEF t, x
<1>5. x.epoch \in Nat /\ x.epoch > m.localEpoch
  BY <1>3, Zenon DEF OutboundFor, Good, OutboundGood
<1>6. ~m.admitted
  BY PreviewsBefore, Zenon DEF CanPreview
<1>7. t.kind # "CacheProposal" /\ t.kind # "Challenge" /\ t.kind # "Prove"
  BY <1>4
<1>8. Ready(m, t, plan)
  BY <1>4, <1>5, <1>6, <1>7, Zenon DEF Ready
<1> QED
  BY <1>7, <1>8, Zenon DEF t

-----------------------------------------------------------------------------
(* The remaining operations *)

\* Own proposals: an entry is replaced by one of the same epoch, or added.
LEMMA OutboundChanges ==
  ASSUME NEW m, NEW n, NEW plan, NEW W, NEW os, Good(m, plan, W), ~m.admitted,
         Fits(os), n = [m EXCEPT !.outbound = os],
         \A c \in Range(os) : /\ DOMAIN c = OutboundFields
                              /\ c.epoch \in Nat /\ c.epoch > m.localEpoch
  PROVE  /\ Steps(m, n, plan, W) /\ SameCore(m, n)
         /\ n.proposals = m.proposals /\ n.candidates = m.candidates
<1>1. /\ IsState(n) /\ SameCore(m, n) /\ n.outbound = os
      /\ n.candidates = m.candidates /\ n.proposals = m.proposals
      /\ n.emitted = m.emitted /\ n.tombs = m.tombs /\ n.results = m.results
      /\ n.frozen = m.frozen
  BY DEF Good, IsState, Fields, SameCore
<1>2. Stores(n)
  BY <1>1, Zenon DEF Good, Stores
<1>3. OutboundGood(n)
  BY <1>1, Zenon DEF OutboundGood, SameCore
<1>4. ProposalsGood(n, plan) /\ CandidatesGood(n, plan, W) /\ FrozenGood(n, plan)
  BY <1>1, Zenon DEF Good, ProposalsGood, CandidatesGood, FrozenGood, SameCore
<1> QED
  BY <1>1, <1>2, <1>3, <1>4, Grows, Zenon

LEMMA ProposeGood ==
  ASSUME NEW m, NEW plan, NEW W, NEW id, NEW loc, NEW epoch \in Nat, NEW clock,
         Good(m, plan, W), CanPropose(m, id, loc, epoch, clock),
         ~Has(m.outbound, id)
  PROVE  Steps(m, ProposeLocal(m, id, loc, epoch, clock), plan, W)
<1> DEFINE c == [id |-> id, loc |-> loc, epoch |-> epoch, binding |-> None,
                 expiry |-> clock + PROPOSAL_LIFE]
           os == Append(m.outbound, c)
           n == [m EXCEPT !.outbound = os]
<1>1. ProposeLocal(m, id, loc, epoch, clock) = n
  BY Zenon DEF ProposeLocal
<1>2. ~m.admitted /\ epoch > m.localEpoch
  BY PreviewsBefore, Zenon DEF CanPropose
<1>3. ~ProposedAlready(m, id, loc, epoch)
  BY Zenon DEF ProposedAlready, Has, Range
<1>4. Fits(m.outbound) /\ Len(m.outbound) < SLOTS
  BY <1>3, Zenon DEF CanPropose, Good, Stores
<1>5. DOMAIN c = OutboundFields /\ c.epoch = epoch
  BY DEF OutboundFields
<1> HIDE DEF c
<1>6. Fits(os) /\ \A y \in Range(os) : y \in Range(m.outbound) \/ y = c
  BY <1>4, OneMore
<1>7. \A y \in Range(os) : /\ DOMAIN y = OutboundFields
                           /\ y.epoch \in Nat /\ y.epoch > m.localEpoch
  <2> HIDE DEF os
  <2> QED
    BY <1>2, <1>5, <1>6, Zenon DEF Good, OutboundGood
<1> HIDE DEF os
<1>8. Steps(m, n, plan, W)
  BY <1>2, <1>6, <1>7, OutboundChanges, Zenon
<1> QED
  BY <1>1, <1>8, Zenon

LEMMA MakeProbeGood ==
  ASSUME NEW m, NEW plan, NEW W, NEW id, NEW carrier, NEW clock,
         Good(m, plan, W), CanProbe(m, id, carrier, clock)
  PROVE  /\ Steps(m, MakeProbe(m, id, carrier), plan, W)
         /\ SameCore(m, MakeProbe(m, id, carrier))
         /\ MakeProbe(m, id, carrier).proposals = m.proposals
         /\ MakeProbe(m, id, carrier).candidates = m.candidates
<1> DEFINE I == {j \in DOMAIN m.outbound : m.outbound[j].id = id}
           i == OutboundIndex(m, id)
           c == m.outbound[i]
           d == [c EXCEPT !.binding = carrier]
           os == [m.outbound EXCEPT ![i] = d]
           n == [m EXCEPT !.outbound = os]
<1>1. /\ IsSeq(m.outbound) /\ Len(m.outbound) <= SLOTS
      /\ Len(m.outbound) \in Nat
      /\ DOMAIN m.outbound = 1 .. Len(m.outbound)
      /\ \A j \in 1 .. Len(m.outbound) : m.outbound[j] \in Range(m.outbound)
  BY SeqShape, Zenon DEF Good, Stores, Fits
<1>2. i \in DOMAIN m.outbound
  <2>1. I \in SUBSET Nat /\ I # {}
    <3>1. DOMAIN m.outbound \in SUBSET Nat
      BY <1>1
    <3> QED
      BY <3>1, Zenon DEF CanProbe, Has
  <2>2. i = Min(I)
    BY DEF OutboundIndex, FirstIndex
  <2>3. Min(I) \in I
    <3> HIDE DEF I
    <3> QED
      BY <2>1, MinIn, Zenon
  <2> QED
    BY <2>2, <2>3, Zenon
<1>3. MakeProbe(m, id, carrier) = n
  BY Zenon DEF MakeProbe
<1> HIDE DEF i
<1>4. /\ DOMAIN c = OutboundFields /\ c.epoch \in Nat
      /\ c.epoch > m.localEpoch
  BY <1>1, <1>2, Zenon DEF Good, OutboundGood
<1>5. DOMAIN d = OutboundFields /\ d.epoch = c.epoch
  BY <1>4 DEF OutboundFields
<1> HIDE DEF c, d
<1>6. Fits(os) /\ \A y \in Range(os) : y \in Range(m.outbound) \/ y = d
  <2>1. os = [j \in 1 .. Len(m.outbound) |-> os[j]]
    BY <1>1, Zenon
  <2>2. \A j \in 1 .. Len(m.outbound) : os[j] \in Range(m.outbound) \/ os[j] = d
    BY <1>1, Zenon
  <2> HIDE DEF os
  <2>3. /\ IsSeq(os) /\ Len(os) = Len(m.outbound)
        /\ Range(os) = {os[j] : j \in 1 .. Len(m.outbound)}
    BY <1>1, <2>1, FunctionIsSeq
  <2> QED
    BY <1>1, <2>2, <2>3, Zenon DEF Fits
<1> HIDE DEF os
<1>7. \A y \in Range(os) : /\ DOMAIN y = OutboundFields
                           /\ y.epoch \in Nat /\ y.epoch > m.localEpoch
  BY <1>4, <1>5, <1>6, Zenon DEF Good, OutboundGood
<1>8. ~m.admitted
  BY PreviewsBefore, Zenon DEF CanProbe
<1>9. /\ Steps(m, n, plan, W) /\ SameCore(m, n)
      /\ n.proposals = m.proposals /\ n.candidates = m.candidates
  BY <1>6, <1>7, <1>8, OutboundChanges, Zenon
<1> QED
  BY <1>3, <1>9, Zenon

LEMMA CloseGood ==
  ASSUME NEW m, NEW plan, NEW W, Good(m, plan, W)
  PROVE  Steps(m, Close(m), plan, W)
<1> DEFINE n == Close(m)
<1>1. /\ IsState(n)
      /\ n.profile = m.profile /\ n.admitted = m.admitted
      /\ n.peerEpoch = m.peerEpoch /\ n.localEpoch = m.localEpoch
      /\ n.peerLoc = m.peerLoc /\ n.localLoc = m.localLoc
      /\ n.admission = None
  <2>1. IsState(m)
    BY Zenon DEF Good
  <2>2. IsState(n)
    BY <2>1 DEF Close, IsState
  <2>3. /\ n.profile = m.profile /\ n.admitted = m.admitted
        /\ n.peerEpoch = m.peerEpoch /\ n.localEpoch = m.localEpoch
    BY <2>1 DEF Close, IsState, Fields
  <2>4. /\ n.peerLoc = m.peerLoc /\ n.localLoc = m.localLoc
        /\ n.admission = None
    BY <2>1 DEF Close, IsState, Fields
  <2> QED
    BY <2>2, <2>3, <2>4, Zenon
<1>2. /\ n.owner = FALSE /\ n.secret = FALSE
      /\ n.emitted = <<>> /\ n.tombs = <<>>
      /\ n.proposals = <<>> /\ n.candidates = <<>> /\ n.outbound = <<>>
      /\ n.results = <<>> /\ n.frozen = None
  BY DEF Close, Good, IsState, Fields
<1> HIDE DEF n
<1>3. Stores(n)
  BY <1>2, NullSeq, NullFits, Zenon DEF Stores
<1>4. ProposalsGood(n, plan) /\ CandidatesGood(n, plan, W) /\ OutboundGood(n)
  BY <1>2, NullSeq, Zenon DEF ProposalsGood, CandidatesGood, OutboundGood
<1>5. FrozenGood(n, plan) /\ AdmittedGood(n)
  BY <1>1, <1>2, Zenon DEF Good, FrozenGood, AdmittedGood
<1>6. Good(n, plan, W)
  BY <1>1, <1>2, <1>3, <1>4, <1>5, Zenon DEF Good
<1>7. n.peerEpoch >= m.peerEpoch /\ n.localEpoch >= m.localEpoch
  BY <1>1 DEF Good
<1>8. Moves(m, n, plan, W)
  BY <1>1, <1>7, Zenon DEF Moves
<1> QED
  BY <1>6, <1>8, Zenon DEF Steps, n

\* Taking the admission
LEMMA TakeAdmissionGood ==
  ASSUME NEW m, NEW n, NEW plan, NEW W, Good(m, plan, W),
         n = [m EXCEPT !.admission = None]
  PROVE  /\ Steps(m, n, plan, W)
         /\ n.admitted = m.admitted /\ n.peerEpoch = m.peerEpoch
         /\ n.localEpoch = m.localEpoch
         /\ n.proposals = m.proposals /\ n.candidates = m.candidates
<1>1. /\ IsState(n)
      /\ n.profile = m.profile /\ n.admitted = m.admitted
      /\ n.peerEpoch = m.peerEpoch /\ n.localEpoch = m.localEpoch
      /\ n.peerLoc = m.peerLoc /\ n.localLoc = m.localLoc
      /\ n.admission = None /\ n.owner = m.owner /\ n.secret = m.secret
  BY DEF Good, IsState, Fields
<1>2. /\ n.emitted = m.emitted /\ n.tombs = m.tombs
      /\ n.proposals = m.proposals /\ n.candidates = m.candidates
      /\ n.outbound = m.outbound /\ n.results = m.results
      /\ n.frozen = m.frozen
  BY DEF Good, IsState, Fields
<1>3. Stores(n)
  BY <1>2, Zenon DEF Good, Stores
<1>4. ProposalsGood(n, plan) /\ CandidatesGood(n, plan, W) /\ OutboundGood(n)
  BY <1>1, <1>2, Zenon DEF Good, ProposalsGood, CandidatesGood, OutboundGood
<1>5. FrozenGood(n, plan) /\ AdmittedGood(n)
  BY <1>1, <1>2, Zenon DEF Good, FrozenGood, AdmittedGood
<1>6. Good(n, plan, W)
  BY <1>1, <1>3, <1>4, <1>5, Zenon DEF Good
<1>7. n.peerEpoch >= m.peerEpoch /\ n.localEpoch >= m.localEpoch
  BY <1>1 DEF Good
<1>8. Moves(m, n, plan, W)
  BY <1>1, <1>7, Zenon DEF Moves
<1> QED
  BY <1>1, <1>2, <1>6, <1>8, Zenon DEF Steps

\* A new manager
LEMMA NewGood ==
  ASSUME NEW m, NEW plan, NEW W, NEW profile, NEW l, NEW p, NEW b,
         m = NewManager(profile, l, p, b)
  PROVE  Good(m, plan, W)
<1>1. /\ IsState(m) /\ m.peerEpoch = 0 /\ m.localEpoch = 0
      /\ m.admitted = FALSE /\ m.owner = (profile = 3)
      /\ m.emitted = <<>> /\ m.tombs = <<>>
      /\ m.proposals = <<>> /\ m.candidates = <<>> /\ m.outbound = <<>>
      /\ m.results = <<>> /\ m.frozen = None
  BY DEF NewManager, IsState, Fields
<1>2. Stores(m)
  BY <1>1, NullSeq, NullFits, Zenon DEF Stores
<1>3. ProposalsGood(m, plan) /\ CandidatesGood(m, plan, W) /\ OutboundGood(m)
  BY <1>1, NullSeq, Zenon DEF ProposalsGood, CandidatesGood, OutboundGood
<1>4. FrozenGood(m, plan) /\ AdmittedGood(m)
  BY <1>1, Zenon DEF FrozenGood, AdmittedGood
<1>5. 0 \in Nat /\ (profile = 3) \in BOOLEAN
  OBVIOUS
<1> QED
  BY <1>1, <1>2, <1>3, <1>4, <1>5, Zenon DEF Good

-----------------------------------------------------------------------------
(* The inductive invariant *)

\* The ids whose challenge was answered on an observed binding
Answered ==
  {p.id : p \in {q \in setup.plan :
                   \E b \in setup.bindings : <<q.id, b>> \in provenOn}}

\* A current transition can be applied to the manager as it is now.
Current(m, t) ==
  /\ Ready(m, t, setup.plan)
  /\ t.kind = "Prove" => t.response.binding \in setup.bindings

PendingGood ==
  pending # None =>
    /\ DOMAIN pending = {"fresh", "action"}
    /\ Mutates(pending.action)
    /\ pending.fresh => Current(mgr, pending.action)

IInv ==
  /\ setup \in Setups
  /\ Good(mgr, setup.plan, Answered)
  /\ PendingGood

\* What a step does to the committed state
Moved == setup' = setup /\ Moves(mgr, mgr', setup.plan, Answered')

-----------------------------------------------------------------------------

LEMMA SetupGood ==
  ASSUME setup \in Setups
  PROVE  PlanGood(setup.plan) /\ \A p \in setup.own : p.epoch \in Nat
BY SetupAssumption, Zenon DEF PlanGood

LEMMA InitGood == Init => IInv
<1> SUFFICES ASSUME Init PROVE IInv
  OBVIOUS
<1>1. Good(mgr, setup.plan, Answered)
  BY NewGood, Zenon DEF Init
<1> QED
  BY <1>1, Zenon DEF Init, IInv, PendingGood

\* A stale transition needs nothing.
LEMMA StaleGood ==
  ASSUME PendingGood, Stale
  PROVE  PendingGood'
<1>1. CASE pending = None
  BY <1>1, Zenon DEF Stale, PendingGood
<1>2. CASE pending # None
  <2>1. pending' = [pending EXCEPT !.fresh = FALSE]
    BY <1>2, Zenon DEF Stale
  <2>2. DOMAIN pending = {"fresh", "action"} /\ Mutates(pending.action)
    BY <1>2, Zenon DEF PendingGood
  <2>3. /\ DOMAIN pending' = {"fresh", "action"}
        /\ pending'.action = pending.action /\ pending'.fresh = FALSE
    BY <2>1, <2>2
  <2> QED
    BY <2>2, <2>3, Zenon DEF PendingGood
<1> QED
  BY <1>1, <1>2, Zenon

\* A current transition stays so while the manager's epochs, proposals and
\* candidates do.
LEMMA FreshGood ==
  ASSUME PendingGood, pending' = pending, setup' = setup,
         mgr'.admitted = mgr.admitted, mgr'.peerEpoch = mgr.peerEpoch,
         mgr'.localEpoch = mgr.localEpoch, mgr'.proposals = mgr.proposals,
         mgr'.candidates = mgr.candidates
  PROVE  PendingGood'
<1>1. ASSUME pending # None, pending.fresh
      PROVE  Current(mgr', pending.action)
  <2>1. Current(mgr, pending.action)
    BY <1>1, Zenon DEF PendingGood
  <2> QED
    BY <2>1, ReadyStays, Zenon DEF Current
<1> QED
  BY <1>1, Zenon DEF PendingGood, Current

\* Steps of the manager that commit no proof
LEMMA ManagerSteps ==
  ASSUME IInv, UNCHANGED <<provenOn, setup>>, PendingGood',
         Steps(mgr, mgr', setup.plan, Answered)
  PROVE  IInv' /\ Moved
<1>1. Answered' = Answered
  BY Zenon DEF Answered
<1> QED
  BY <1>1, Zenon DEF IInv, Moved, Steps

LEMMA HoldGood ==
  ASSUME IInv, NEW t, Hold(t), Current(mgr, t)
  PROVE  IInv' /\ Moved
<1>1. /\ pending' = [fresh |-> TRUE, action |-> t] /\ Mutates(t)
      /\ mgr' = mgr /\ setup' = setup /\ provenOn' = provenOn
  BY Zenon DEF Hold
<1>2. DOMAIN pending' = {"fresh", "action"} /\ pending'.action = t
  BY <1>1
<1>3. PendingGood'
  BY <1>1, <1>2, Zenon DEF PendingGood, Current
<1>4. Steps(mgr, mgr', setup.plan, Answered)
  BY <1>1, StepsRefl, Zenon DEF IInv
<1> QED
  BY <1>1, <1>3, <1>4, ManagerSteps, Zenon

LEMMA ProposeStep ==
  ASSUME IInv, NEW p \in setup.own, Propose(p)
  PROVE  IInv' /\ Moved
<1>1. p.epoch \in Nat
  BY SetupGood, Zenon DEF IInv
<1>2. Steps(mgr, mgr', setup.plan, Answered)
  BY <1>1, ProposeGood, Zenon DEF IInv, Propose
<1> QED
  BY <1>2, StaleGood, ManagerSteps, Zenon DEF IInv, Propose

LEMMA ProbeStep ==
  ASSUME IInv, NEW p \in setup.own, NEW b \in setup.bindings, Probe(p, b)
  PROVE  IInv' /\ Moved
<1>1. /\ Steps(mgr, mgr', setup.plan, Answered) /\ SameCore(mgr, mgr')
      /\ mgr'.proposals = mgr.proposals /\ mgr'.candidates = mgr.candidates
  <2>1. CanProbe(mgr, p.id, b, now) /\ Good(mgr, setup.plan, Answered)
    BY Zenon DEF IInv, Probe
  <2> DEFINE n == MakeProbe(mgr, p.id, b)
  <2>2. /\ Steps(mgr, n, setup.plan, Answered) /\ SameCore(mgr, n)
        /\ n.proposals = mgr.proposals /\ n.candidates = mgr.candidates
    BY <2>1, MakeProbeGood
  <2>3. mgr' = n
    BY Zenon DEF Probe
  <2> HIDE DEF n
  <2> QED
    BY <2>2, <2>3, Zenon
<1>2. PendingGood'
  BY <1>1, FreshGood, Zenon DEF IInv, Probe, SameCore
<1> QED
  BY <1>1, <1>2, ManagerSteps, Zenon DEF Probe

LEMMA ReceiveLocUpdateStep ==
  ASSUME IInv, NEW p \in setup.plan, ReceiveLocUpdate(p)
  PROVE  IInv' /\ Moved
<1> DEFINE u == [id |-> p.id, old |-> mgr.peerLoc, loc |-> p.loc,
                 epoch |-> p.epoch]
           t == PreviewLocUpdate(mgr, u, now)
<1>1. CanPreview(mgr) /\ AcceptsLocUpdate(mgr, u, now) /\ Hold(t)
  BY Zenon DEF ReceiveLocUpdate, CanReceive
<1>2. Ready(mgr, t, setup.plan) /\ t.kind # "Prove"
  BY <1>1, LocUpdateReady, Zenon DEF IInv, Hold
<1> HIDE DEF t
<1> QED
  BY <1>1, <1>2, HoldGood, Zenon DEF Current

LEMMA ReceiveProbeStep ==
  ASSUME IInv, NEW p \in setup.plan, NEW b \in setup.bindings,
         ReceiveProbe(p, b)
  PROVE  IInv' /\ Moved
<1> DEFINE t == PreviewProbe(mgr, p, b, now)
<1>1. CanPreview(mgr) /\ AcceptsProbe(mgr, p, b, now) /\ Hold(t)
  BY Zenon DEF ReceiveProbe, CanReceive
<1>2. Ready(mgr, t, setup.plan) /\ t.kind # "Prove"
  BY <1>1, SetupGood, ProbeReady, Zenon DEF IInv, Hold
<1> HIDE DEF t
<1> QED
  BY <1>1, <1>2, HoldGood, Zenon DEF Current

LEMMA ReceiveResponseStep ==
  ASSUME IInv, NEW c, NEW b \in setup.bindings, ReceiveResponse(c, b)
  PROVE  IInv' /\ Moved
<1> DEFINE r == [id |-> c.id, loc |-> c.loc, epoch |-> c.epoch,
                 expiry |-> c.expiry, token |-> Token(c)]
           t == PreviewResponse(mgr, r, b, now)
<1>1. CanPreview(mgr) /\ AcceptsResponse(mgr, r, b, now) /\ Hold(t)
  BY Zenon DEF ReceiveResponse, CanReceive
<1>2. Ready(mgr, t, setup.plan) /\ t.response.binding = b
  <2>1. Good(mgr, setup.plan, Answered) /\ Mutates(t)
    BY <1>1, Zenon DEF IInv, Hold
  <2> HIDE DEF r
  <2> QED
    BY <1>1, <2>1, ResponseReady
<1> HIDE DEF t
<1> QED
  BY <1>1, <1>2, HoldGood, Zenon DEF Current

LEMMA ReceiveResultStep ==
  ASSUME IInv, NEW c, NEW code, NEW b \in setup.bindings,
         ReceiveResult(c, code, b)
  PROVE  IInv' /\ Moved
<1> DEFINE r == [id |-> c.id, epoch |-> c.epoch, result |-> code]
           t == PreviewResult(mgr, r, b, now)
<1>1. CanPreview(mgr) /\ AcceptsResult(mgr, r, b, now) /\ Hold(t)
  BY Zenon DEF ReceiveResult, CanReceive
<1>2. Ready(mgr, t, setup.plan) /\ t.kind # "Prove"
  BY <1>1, ResultReady, Zenon DEF IInv, Hold
<1> HIDE DEF t
<1> QED
  BY <1>1, <1>2, HoldGood, Zenon DEF Current

\* Committing a proof adds its candidate to the answered ones.
LEMMA CommitStep ==
  ASSUME IInv, Commit
  PROVE  IInv' /\ Moved
<1> DEFINE t == pending.action
           more == IF t.kind = "Prove" THEN {<<t.id, t.response.binding>>} ELSE {}
<1>1. /\ mgr' = Apply(mgr, t) /\ provenOn' = provenOn \cup more
      /\ pending' = None /\ setup' = setup
      /\ pending # None /\ pending.fresh
  BY Zenon DEF Commit
<1>2. Mutates(t) /\ Current(mgr, t)
  BY <1>1, Zenon DEF IInv, PendingGood
<1> HIDE DEF t
<1>3. Answered \subseteq Answered'
  BY <1>1, Zenon DEF Answered
<1>4. Good(mgr, setup.plan, Answered')
  <2> DEFINE W == Answered'
  <2>1. Answered \subseteq W /\ Good(mgr, setup.plan, Answered)
    BY <1>3, Zenon DEF IInv
  <2> HIDE DEF W
  <2>2. Good(mgr, setup.plan, W)
    BY <2>1, MoreAnswers, Zenon
  <2> QED
    BY <2>2, Zenon DEF W
<1>5. ASSUME t.kind = "Prove" PROVE t.id \in Answered'
  <2>1. PICK c \in Range(mgr.candidates) : c.id = t.id /\ c.epoch = t.epoch
    BY <1>2, <1>5, Zenon DEF Current, Ready
  <2>2. PICK p \in setup.plan : p.id = t.id
    BY <2>1, Zenon DEF IInv, Good, CandidatesGood, Named
  <2>3. <<t.id, t.response.binding>> \in provenOn'
    BY <1>1, <1>5, Zenon
  <2>4. t.response.binding \in setup'.bindings /\ p \in setup'.plan
    BY <1>1, <1>2, <1>5, Zenon DEF Current
  <2> QED
    BY <2>2, <2>3, <2>4, Zenon DEF Answered
<1>6. Steps(mgr, mgr', setup.plan, Answered')
  <2> DEFINE W == Answered'
  <2>1. Good(mgr, setup.plan, W) /\ (t.kind = "Prove" => t.id \in W)
    BY <1>4, <1>5, Zenon
  <2> HIDE DEF W
  <2>2. Steps(mgr, Apply(mgr, t), setup.plan, W)
    BY <1>2, <2>1, SetupGood, ApplyGood, Zenon DEF IInv, Current
  <2> QED
    BY <1>1, <2>2, Zenon DEF W
<1> QED
  BY <1>1, <1>6, Zenon DEF IInv, Moved, Steps, PendingGood

LEMMA TakeResultsStep ==
  ASSUME IInv, TakeResults
  PROVE  IInv' /\ Moved
<1>1. Steps(mgr, mgr', setup.plan, Answered)
  BY NullFits, EmittedGood, Zenon DEF IInv, TakeResults
<1>2. /\ mgr'.admitted = mgr.admitted /\ mgr'.peerEpoch = mgr.peerEpoch
      /\ mgr'.localEpoch = mgr.localEpoch
      /\ mgr'.proposals = mgr.proposals /\ mgr'.candidates = mgr.candidates
  BY DEF IInv, Good, IsState, Fields, TakeResults
<1>3. PendingGood'
  BY <1>2, FreshGood, Zenon DEF IInv, TakeResults
<1> QED
  BY <1>1, <1>3, ManagerSteps, Zenon DEF TakeResults

LEMMA TakeAdmissionStep ==
  ASSUME IInv, TakeAdmission
  PROVE  IInv' /\ Moved
<1>1. /\ Steps(mgr, mgr', setup.plan, Answered)
      /\ mgr'.admitted = mgr.admitted /\ mgr'.peerEpoch = mgr.peerEpoch
      /\ mgr'.localEpoch = mgr.localEpoch
      /\ mgr'.proposals = mgr.proposals /\ mgr'.candidates = mgr.candidates
  BY TakeAdmissionGood, Zenon DEF IInv, TakeAdmission
<1>2. PendingGood'
  BY <1>1, FreshGood, Zenon DEF IInv, TakeAdmission
<1> QED
  BY <1>1, <1>2, ManagerSteps, Zenon DEF TakeAdmission

\* An expiry that leaves the generation alone touched the tombstones only.
LEMMA ExpireStep ==
  ASSUME IInv, ExpireManager
  PROVE  IInv' /\ Moved
<1> DEFINE after == Expire(mgr, now)
           changes == ExpireChanges(mgr, after, now)
<1>1. /\ mgr' = after /\ (IF changes THEN Stale ELSE UNCHANGED pending)
      /\ UNCHANGED <<provenOn, setup>>
  BY Zenon DEF ExpireManager
<1>2. Steps(mgr, after, setup.plan, Answered)
  BY SetupGood, ExpireGood, Zenon DEF IInv
<1> HIDE DEF after
<1>3. CASE changes
  BY <1>1, <1>2, <1>3, StaleGood, ManagerSteps, Zenon DEF IInv
<1>4. CASE ~changes
  <2>1. mgr = [after EXCEPT !.tombs = mgr.tombs]
    BY <1>4, Zenon DEF ExpireChanges
  <2>2. IsState(after)
    BY <1>2, Zenon DEF Steps, Good
  <2>3. /\ after.admitted = mgr.admitted /\ after.peerEpoch = mgr.peerEpoch
        /\ after.localEpoch = mgr.localEpoch
        /\ after.proposals = mgr.proposals /\ after.candidates = mgr.candidates
    <3> HIDE DEF changes
    <3> QED
      BY <2>1, <2>2 DEF IsState, Fields
  <2>4. PendingGood'
    BY <1>1, <1>4, <2>3, FreshGood, Zenon DEF IInv
  <2> QED
    BY <1>1, <1>2, <2>4, ManagerSteps, Zenon
<1> QED
  BY <1>3, <1>4, Zenon

LEMMA CloseStep ==
  ASSUME IInv, CloseManager
  PROVE  IInv' /\ Moved
<1>1. Steps(mgr, mgr', setup.plan, Answered)
  BY CloseGood, Zenon DEF IInv, CloseManager
<1> QED
  BY <1>1, StaleGood, ManagerSteps, Zenon DEF IInv, CloseManager

\* Steps that leave the manager alone and drop or keep the transition
LEMMA IdleStep ==
  ASSUME IInv, UNCHANGED <<mgr, provenOn, setup>>,
         pending' = None \/ pending' = pending
  PROVE  IInv' /\ Moved
<1>1. PendingGood'
  BY Zenon DEF IInv, PendingGood, Current
<1>2. Steps(mgr, mgr', setup.plan, Answered)
  BY StepsRefl, Zenon DEF IInv
<1> QED
  BY <1>1, <1>2, ManagerSteps, Zenon

LEMMA NextGood == IInv /\ [Next]_vars => IInv' /\ Moved
<1> SUFFICES ASSUME IInv, [Next]_vars PROVE IInv' /\ Moved
  OBVIOUS
<1>1. ASSUME NEW p \in setup.own, Propose(p) PROVE IInv' /\ Moved
  BY <1>1, ProposeStep, Zenon
<1>2. ASSUME NEW p \in setup.own, NEW b \in setup.bindings, Probe(p, b)
      PROVE  IInv' /\ Moved
  BY <1>2, ProbeStep, Zenon
<1>3. ASSUME NEW p \in setup.plan, ReceiveLocUpdate(p) PROVE IInv' /\ Moved
  BY <1>3, ReceiveLocUpdateStep, Zenon
<1>4. ASSUME NEW p \in setup.plan, NEW b \in setup.bindings, ReceiveProbe(p, b)
      PROVE  IInv' /\ Moved
  BY <1>4, ReceiveProbeStep, Zenon
<1>5. ASSUME NEW c, NEW b \in setup.bindings, ReceiveResponse(c, b)
      PROVE  IInv' /\ Moved
  BY <1>5, ReceiveResponseStep, Zenon
<1>6. ASSUME NEW c, NEW code, NEW b \in setup.bindings, ReceiveResult(c, code, b)
      PROVE  IInv' /\ Moved
  BY <1>6, ReceiveResultStep, Zenon
<1>7. CASE Commit
  BY <1>7, CommitStep, Zenon
<1>8. CASE Refuse
  BY <1>8, IdleStep, Zenon DEF Refuse
<1>9. CASE TakeResults
  BY <1>9, TakeResultsStep, Zenon
<1>10. CASE TakeAdmission
  BY <1>10, TakeAdmissionStep, Zenon
<1>11. CASE ExpireManager
  BY <1>11, ExpireStep, Zenon
<1>12. CASE CloseManager
  BY <1>12, CloseStep, Zenon
<1>13. CASE Tick
  BY <1>13, IdleStep, Zenon DEF Tick
<1>14. CASE UNCHANGED vars
  BY <1>14, IdleStep, Zenon DEF vars
<1> QED
  BY <1>1, <1>2, <1>3, <1>4, <1>5, <1>6, <1>7, <1>8, <1>9, <1>10, <1>11,
     <1>12, <1>13, <1>14, Zenon DEF Next

LEMMA Invariance == Spec => []IInv
<1>1. IInv /\ [Next]_vars => IInv'
  BY NextGood, Zenon
<1> QED
  BY <1>1, InitGood, PTL DEF Spec

-----------------------------------------------------------------------------
(* The theorems *)

\* Every bounded store of the manager stays within its two slots, whatever the
\* peer sends and whenever it is expired, settled or closed.
THEOREM StoresBounded == Spec => []CachesBounded
<1>1. IInv => CachesBounded
  <2> SUFFICES ASSUME IInv PROVE CachesBounded
    OBVIOUS
  <2>1. Stores(mgr) /\ FrozenGood(mgr, setup.plan)
    BY Zenon DEF IInv, Good
  <2>2. FrozenSlots(mgr) <= SLOTS
    <3>1. CASE mgr.frozen = None
      BY <3>1 DEF FrozenSlots, SLOTS
    <3>2. CASE mgr.frozen # None
      BY <2>1, <3>2, Zenon DEF FrozenSlots, FrozenGood, Fits
    <3> QED
      BY <3>1, <3>2, Zenon
  <2> QED
    BY <2>1, <2>2, Zenon DEF CachesBounded, Stores, Fits
<1> QED
  BY <1>1, Invariance, PTL

\* Applying a current Prove transition finds the candidate it was previewed
\* for, so the `expect` in apply_after_replay never fails.
THEOREM ProofFindsCandidate == Spec => []ProveFindsCandidate
<1>1. IInv => ProveFindsCandidate
  BY Zenon DEF IInv, PendingGood, Current, Ready, ProveFindsCandidate
<1> QED
  BY <1>1, Invariance, PTL

\* No step takes a committed epoch back, and a locator changes only with a
\* strictly greater epoch.
THEOREM EpochsOnlyAdvance == Spec => EpochsAdvance
<1>1. IInv /\ [Next]_vars =>
        [/\ mgr'.peerEpoch >= mgr.peerEpoch
         /\ mgr'.localEpoch >= mgr.localEpoch
         /\ mgr'.peerLoc # mgr.peerLoc => mgr'.peerEpoch > mgr.peerEpoch
         /\ mgr'.localLoc # mgr.localLoc => mgr'.localEpoch > mgr.localEpoch]_vars
  BY NextGood, Zenon DEF Moved, Moves
<1> QED
  BY <1>1, Invariance, PTL DEF Spec, EpochsAdvance

\* The peer's epoch changes only to a planned move whose challenge was
\* answered on an observed binding.
THEOREM OnlyProvenMoves == Spec => PromotesProvenMove
<1>1. IInv /\ [Next]_vars =>
        [mgr'.peerEpoch # mgr.peerEpoch =>
           \E p \in setup.plan, b \in setup.bindings :
             /\ p.loc = mgr'.peerLoc /\ p.epoch = mgr'.peerEpoch
             /\ <<p.id, b>> \in provenOn']_vars
  <2> SUFFICES ASSUME IInv, [Next]_vars, mgr'.peerEpoch # mgr.peerEpoch
               PROVE  \E p \in setup.plan, b \in setup.bindings :
                        /\ p.loc = mgr'.peerLoc /\ p.epoch = mgr'.peerEpoch
                        /\ <<p.id, b>> \in provenOn'
    BY Zenon
  <2>1. Moved
    BY NextGood, Zenon
  <2>2. PICK p \in setup.plan :
          /\ p.loc = mgr'.peerLoc /\ p.epoch = mgr'.peerEpoch
          /\ p.id \in Answered'
    BY <2>1, Zenon DEF Moved, Moves
  <2>3. PICK b \in setup.bindings : <<p.id, b>> \in provenOn'
    BY <2>1, <2>2, Zenon DEF Moved, Answered
  <2> QED
    BY <2>2, <2>3, Zenon
<1> QED
  BY <1>1, Invariance, PTL DEF Spec, PromotesProvenMove

\* Profile 3 admits one path: the admission is never undone or replaced, and
\* no candidate or secret outlives it.
THEOREM OneAdmission == Spec => AdmittedOnce
<1>1. IInv /\ [Next]_vars =>
        [mgr.admitted => /\ mgr'.admitted
                         /\ mgr'.admission \in {mgr.admission, None}
                         /\ mgr'.candidates = <<>> /\ ~mgr'.secret]_vars
  <2> SUFFICES ASSUME IInv, [Next]_vars, mgr.admitted
               PROVE  /\ mgr'.admitted
                      /\ mgr'.admission \in {mgr.admission, None}
                      /\ mgr'.candidates = <<>> /\ ~mgr'.secret
    BY Zenon
  <2>1. IInv' /\ Moved
    BY NextGood, Zenon
  <2>2. AdmittedGood(mgr')
    BY <2>1, Zenon DEF IInv, Good
  <2> QED
    BY <2>1, <2>2, Zenon DEF Moved, Moves, AdmittedGood
<1> QED
  BY <1>1, Invariance, PTL DEF Spec, AdmittedOnce
=============================================================================
