-------------------------- MODULE CandidateManager --------------------------
(***************************************************************************)
(* r8-mobility's `CandidateManager` as operators on the value of its       *)
(* `State`: proposing a local locator, previewing each received control,   *)
(* applying the transition a preview returned, expiring, settling a frozen *)
(* cohort and closing.                                                     *)
(*                                                                         *)
(* A preview that the code answers with an error changes nothing, so each  *)
(* Preview operator is split into its acceptance condition and the         *)
(* transition it returns.  The `path_slot` field is left out: a profile    *)
(* admits one value of it only and any other is refused on parsing.        *)
(* A signed or MAC'd field is the tuple of the values it covers.           *)
(* Time is in seconds, the unit every deadline of the code is a multiple   *)
(* of.  `generation` is compared for equality only: the composing module   *)
(* keeps with each outstanding transition whether it still is current.     *)
(***************************************************************************)
EXTENDS Integers, Sequences, FiniteSetsExt, TLC

CONSTANTS
  CHALLENGE_EXPIRY,    \* CHALLENGE_EXPIRY_MS (3000)
  PROPOSAL_LIFE,       \* life of a cached or outbound proposal (5000)
  RESULT_LIFE,         \* life of a result and of a tombstone (10000)
  OLD_BINDING_GRACE,   \* OLD_BINDING_GRACE_MS (10000)
  PROPOSAL_TOKENS      \* proposal tokens, one refilled per time unit (2)

\* LIVE_CANDIDATES_MAX = PROPOSAL_SLOTS = RESULT_CACHE_SLOTS
SLOTS == 2

ASSUME ManagerAssumption ==
  /\ CHALLENGE_EXPIRY \in Nat /\ PROPOSAL_LIFE \in Nat
  /\ RESULT_LIFE \in Nat /\ OLD_BINDING_GRACE \in Nat
  /\ PROPOSAL_TOKENS \in Nat

None == <<>>           \* Option::None

\* CandidateManager::new_inner; profile 3 is redundant delivery.
NewManager(profile, localLoc, peerLoc, binding) ==
  [profile |-> profile, closed |-> FALSE,
   localEpoch |-> 0, peerEpoch |-> 0,
   localLoc |-> localLoc, peerLoc |-> peerLoc,
   binding |-> binding, old |-> None,
   proposals |-> <<>>, candidates |-> <<>>, results |-> <<>>,
   tokens |-> PROPOSAL_TOKENS, refill |-> 0,
   secret |-> TRUE, frozen |-> None,
   outbound |-> <<>>, emitted |-> <<>>,
   admitted |-> FALSE, admission |-> None, owner |-> profile = 3,
   tombs |-> <<>>]

-----------------------------------------------------------------------------
(* Helpers *)

Minimum(a, b) == IF a < b THEN a ELSE b

\* iter().any(|entry| entry.candidate_id == id)
Has(seq, id) == \E i \in DOMAIN seq : seq[i].id = id

\* iter().position(...): the first match, which must exist
FirstIndex(seq, Test(_)) == Min({i \in DOMAIN seq : Test(seq[i])})

\* iter().find(...)
First(seq, Test(_)) == seq[FirstIndex(seq, Test)]

\* retain: the entries of a sequence at some indices, in their order
Keep(seq, I) ==
  LET kept[i \in 0 .. Len(seq)] ==
        IF i = 0 THEN <<>>
        ELSE IF i \in I THEN Append(kept[i - 1], seq[i])
        ELSE kept[i - 1]
  IN kept[Len(seq)]

Live(seq, now) == Keep(seq, {i \in DOMAIN seq : now < seq[i].expiry})

Expired(seq, now) == Keep(seq, {i \in DOMAIN seq : now >= seq[i].expiry})

Above(seq, epoch) == Keep(seq, {i \in DOMAIN seq : seq[i].epoch > epoch})

Without(seq, id) == Keep(seq, {i \in DOMAIN seq : seq[i].id # id})

Buried(m, id, now) ==
  \E i \in DOMAIN m.tombs : m.tombs[i].id = id /\ now < m.tombs[i].expiry

FrozenSlots(m) == IF m.frozen = None THEN 0 ELSE Len(m.frozen.members)

Members(m, epoch) ==
  Keep(m.proposals, {i \in DOMAIN m.proposals : m.proposals[i].epoch = epoch})

GreatestEpoch(m) == Max({p.epoch : p \in Range(m.proposals)})

\* Faulty variant: mobility goes on after the admission.
SpentNever(m) == FALSE

\* Profile 3 admits its one additional path once; afterwards every mobility
\* operation is refused.
Spent(m) == m.profile = 3 /\ m.admitted

\* record_tombstone
RecordTombstone(tombs, id, now) ==
  IF Has(tombs, id) THEN tombs
  ELSE Append(IF Len(tombs) = SLOTS THEN Tail(tombs) ELSE tombs,
              [id |-> id, expiry |-> now + RESULT_LIFE])

\* record_tombstone for each entry of a sequence
RecordTombstones(tombs, seq, now) ==
  LET after[i \in 0 .. Len(seq)] ==
        IF i = 0 THEN tombs
        ELSE RecordTombstone(after[i - 1], seq[i].id, now)
  IN after[Len(seq)]

\* result_entry
ResultEntry(p, code, now, response) ==
  [id |-> p.id, epoch |-> p.epoch, result |-> code,
   expiry |-> now + RESULT_LIFE, response |-> response,
   origin |-> "Emitted", via |-> None]

\* The bytes of a result, as they are sent
ResultBytes(entry) ==
  [id |-> entry.id, epoch |-> entry.epoch, result |-> entry.result]

\* What the candidate token covers
Token(c) == <<c.id, c.loc, c.binding, c.epoch, c.expiry>>

-----------------------------------------------------------------------------
(* settle_frozen_cohort *)

CandidateProven(m, id) ==
  \E i \in DOMAIN m.candidates :
    m.candidates[i].id = id /\ m.candidates[i].state = "Proven"

\* A member that is still proposed has a candidate that is not terminal.
CohortOpen(m) ==
  \E p \in Range(m.frozen.members) :
    /\ Has(m.proposals, p.id)
    /\ \E c \in Range(m.candidates) :
         c.id = p.id /\ c.state \notin {"Proven", "Failed"}

\* Faulty variant: two outcomes never fit.
CanSettleStrict(m) ==
  /\ m.frozen # None
  /\ ~CohortOpen(m)
  /\ Len(m.emitted) + Len(m.frozen.members) < SLOTS

CanSettle(m) ==
  /\ m.frozen # None
  /\ ~CohortOpen(m)
  /\ Len(m.emitted) + Len(m.frozen.members) <= SLOTS

\* Faulty variant: a member only needs a candidate, proven or not.
ProbedMembers(m) ==
  {p.id : p \in {q \in Range(m.frozen.members) : Has(m.candidates, q.id)}}

\* The smallest proven candidate id among the members wins.
ProvenMembers(m) ==
  {p.id : p \in {q \in Range(m.frozen.members) : CandidateProven(m, q.id)}}

\* Faulty variant: every proven member is told that it won.
OutcomeOfAnyProven(m, p, now) ==
  LET known == Has(m.candidates, p.id)
      response == IF known
                  THEN First(m.candidates, LAMBDA c : c.id = p.id).response
                  ELSE None
  IN ResultEntry(p, IF CandidateProven(m, p.id) THEN 1 ELSE 3, now, response)

Outcome(m, p, now) ==
  LET proven == ProvenMembers(m)
      known == Has(m.candidates, p.id)
      code == IF proven = {} THEN 3
              ELSE IF p.id = Min(proven) THEN 1
              ELSE IF known THEN 2 ELSE 3
      response == IF known
                  THEN First(m.candidates, LAMBDA c : c.id = p.id).response
                  ELSE None
  IN ResultEntry(p, code, now, response)

Outcomes(m, now) ==
  [i \in DOMAIN m.frozen.members |-> Outcome(m, m.frozen.members[i], now)]

\* The candidate a settlement promotes: the first one of the winning id.
Winner(m) ==
  First(m.candidates, LAMBDA c : c.id = Min(ProvenMembers(m)))

Admission(binding, localLoc, peerLoc, epoch) ==
  [binding |-> binding, localLoc |-> localLoc, peerLoc |-> peerLoc,
   epoch |-> epoch]

\* A profile-3 manager spends its owner on an admission, once, and keeps
\* nothing else of its candidates.
AdmitPath(m, admission) ==
  LET spent == IF ~m.admitted /\ m.owner
               THEN [m EXCEPT !.owner = FALSE, !.admitted = TRUE,
                              !.admission = admission]
               ELSE m
  IN IF ~spent.admitted THEN spent
     ELSE [spent EXCEPT !.results = <<>>, !.proposals = <<>>,
                        !.candidates = <<>>, !.outbound = <<>>,
                        !.frozen = None, !.secret = FALSE]

Promote(m, now) ==
  [m EXCEPT !.peerEpoch = m.frozen.epoch,
            !.peerLoc = Winner(m).loc,
            !.old = [binding |-> m.binding, expiry |-> now + OLD_BINDING_GRACE],
            !.binding = Winner(m).binding]

Settle(m, now) ==
  LET outcomes == Outcomes(m, now)
      bytes == [i \in DOMAIN outcomes |-> ResultBytes(outcomes[i])]
      epoch == m.frozen.epoch
      won == ProvenMembers(m) # {}
      moved == IF won /\ m.profile # 3 THEN Promote(m, now) ELSE m
      admitted == AdmitPath(m, Admission(Winner(m).binding, m.localLoc,
                                         Winner(m).loc, epoch))
  IN IF ~CanSettle(m) THEN m
     ELSE IF won /\ m.profile = 3 /\ admitted.admitted
     THEN [admitted EXCEPT !.emitted = bytes]
     ELSE [moved EXCEPT !.emitted = m.emitted \o bytes,
                        !.results = m.results \o outcomes,
                        !.proposals = Above(m.proposals, epoch),
                        !.candidates = Above(m.candidates, epoch),
                        !.frozen = None]

-----------------------------------------------------------------------------
(* propose_local and make_probe *)

\* A proposal that repeats a live one only signs the same update again.
ProposedAlready(m, id, loc, epoch) ==
  \E c \in Range(m.outbound) : c.id = id /\ c.loc = loc /\ c.epoch = epoch

CanPropose(m, id, loc, epoch, now) ==
  /\ ~m.closed
  /\ epoch > m.localEpoch
  /\ ~Spent(m)
  /\ ~Buried(m, id, now)
  /\ \/ ProposedAlready(m, id, loc, epoch)
     \/ ~Has(m.outbound, id) /\ Len(m.outbound) < SLOTS

ProposeLocal(m, id, loc, epoch, now) ==
  IF Has(m.outbound, id) THEN m
  ELSE [m EXCEPT !.outbound =
         Append(@, [id |-> id, loc |-> loc, epoch |-> epoch,
                    binding |-> None, expiry |-> now + PROPOSAL_LIFE])]

\* The LOC_UPDATE a proposal is announced with
Update(m, p) ==
  [type |-> "LocUpdate", id |-> p.id, old |-> m.localLoc, loc |-> p.loc,
   epoch |-> p.epoch]

OutboundIndex(m, id) == FirstIndex(m.outbound, LAMBDA c : c.id = id)

CanProbe(m, id, carrier, now) ==
  /\ ~m.closed /\ ~Spent(m)
  /\ Has(m.outbound, id)
  /\ LET c == m.outbound[OutboundIndex(m, id)]
     IN now < c.expiry /\ c.binding \in {None, carrier}

MakeProbe(m, id, carrier) ==
  [m EXCEPT !.outbound[OutboundIndex(m, id)].binding = carrier]

-----------------------------------------------------------------------------
(* preview_inner, by kind of control *)

CanPreview(m) == ~m.closed /\ ~Spent(m)

\* LOC_UPDATE
SameProposal(p, u) ==
  p.id = u.id /\ p.old = u.old /\ p.loc = u.loc /\ p.epoch = u.epoch

Tokens(m, now) == Minimum(m.tokens + (now - m.refill), PROPOSAL_TOKENS)

LocUpdateRepeats(m, u) ==
  \E p \in Range(m.proposals) : SameProposal(p, u)

LocUpdateIsNew(m, u, now) ==
  /\ m.frozen # None => u.epoch > m.frozen.epoch
  /\ ~Has(m.proposals, u.id) /\ ~Has(m.candidates, u.id)
  /\ ~Has(m.outbound, u.id) /\ ~Has(m.results, u.id)
  /\ ~Buried(m, u.id, now)
  /\ m.emitted = <<>>
  /\ Len(m.results) + Len(m.proposals) < SLOTS
  /\ Tokens(m, now) > 0

\* Faulty variant: an update of the committed epoch is taken.
AcceptsLocUpdateSameEpoch(m, u, now) ==
  /\ u.old = m.peerLoc
  /\ u.epoch >= m.peerEpoch
  /\ LocUpdateRepeats(m, u) \/ LocUpdateIsNew(m, u, now)

AcceptsLocUpdate(m, u, now) ==
  /\ u.old = m.peerLoc
  /\ u.epoch > m.peerEpoch
  /\ LocUpdateRepeats(m, u) \/ LocUpdateIsNew(m, u, now)

PreviewLocUpdate(m, u, now) ==
  IF LocUpdateRepeats(m, u) THEN [kind |-> "None"]
  ELSE [kind |-> "CacheProposal",
        proposal |-> [id |-> u.id, old |-> u.old, loc |-> u.loc,
                      epoch |-> u.epoch, expiry |-> now + PROPOSAL_LIFE],
        tokens |-> Tokens(m, now) - 1,
        refill |-> now]

\* BIND_PROBE
SameCandidate(c, b, binding) ==
  c.id = b.id /\ c.loc = b.loc /\ c.epoch = b.epoch /\ c.binding = binding

Proposed(m, b, now) ==
  \E p \in Range(m.proposals) :
    p.id = b.id /\ p.loc = b.loc /\ p.epoch = b.epoch /\ now < p.expiry

Probed(m, b, binding) ==
  \E c \in Range(m.candidates) : SameCandidate(c, b, binding)

FindCandidate(m, b, binding) ==
  First(m.candidates, LAMBDA c : SameCandidate(c, b, binding))

\* Faulty variant: a new challenge without a free candidate slot.
AcceptsProbeUncapped(m, b, binding, now) ==
  /\ Proposed(m, b, now)
  /\ IF Probed(m, b, binding)
     THEN FindCandidate(m, b, binding).state = "Challenged"
     ELSE m.old = None

AcceptsProbe(m, b, binding, now) ==
  /\ Proposed(m, b, now)
  /\ IF Probed(m, b, binding)
     THEN FindCandidate(m, b, binding).state = "Challenged"
     ELSE Len(m.candidates) < SLOTS /\ m.old = None

PreviewProbe(m, b, binding, now) ==
  IF Probed(m, b, binding)
  THEN [kind |-> "ExistingChallenge",
        candidate |-> FindCandidate(m, b, binding)]
  ELSE [kind |-> "Challenge",
        candidate |-> [id |-> b.id, loc |-> b.loc, epoch |-> b.epoch,
                       binding |-> binding, expiry |-> now + CHALLENGE_EXPIRY,
                       response |-> None, state |-> "Challenged"]]

\* BIND_RESPONSE
CachedResult(m, id, epoch, now) ==
  \E r \in Range(m.results) : r.id = id /\ r.epoch = epoch /\ now < r.expiry

FindResult(m, id, epoch, now) ==
  First(m.results, LAMBDA r : r.id = id /\ r.epoch = epoch /\ now < r.expiry)

ResponseIdentity(r, binding) ==
  [loc |-> r.loc, binding |-> binding, expiry |-> r.expiry, token |-> r.token]

\* results plus the cohort this response would freeze must fit the cache
RoomForCohort(m, epoch) ==
  m.frozen = None /\ epoch = GreatestEpoch(m)
    => Len(m.results) + Len(Members(m, epoch)) <= SLOTS

ProvesCandidate(m, r, binding, now) ==
  /\ Probed(m, r, binding)
  /\ LET c == FindCandidate(m, r, binding)
     IN /\ c.state = "Challenged"
        /\ now < c.expiry
        /\ r.expiry = c.expiry
        /\ r.token = Token(c)
  /\ m.secret
  /\ m.proposals # <<>>
  /\ RoomForCohort(m, r.epoch)

AcceptsResponse(m, r, binding, now) ==
  IF CachedResult(m, r.id, r.epoch, now)
  THEN FindResult(m, r.id, r.epoch, now).response
         = ResponseIdentity(r, binding)
  ELSE ProvesCandidate(m, r, binding, now)

PreviewResponse(m, r, binding, now) ==
  IF CachedResult(m, r.id, r.epoch, now)
  THEN [kind |-> "RespondResult",
        bytes |-> ResultBytes(FindResult(m, r.id, r.epoch, now))]
  ELSE [kind |-> "Prove", id |-> r.id, epoch |-> r.epoch, at |-> now,
        response |-> ResponseIdentity(r, binding)]

\* BIND_CHALLENGE, received by the side that moves
AcceptsChallenge(m, ch, binding, now) ==
  \E c \in Range(m.outbound) :
    SameCandidate(c, ch, binding) /\ now < c.expiry

PreviewChallenge(ch) ==
  [kind |-> "Respond", id |-> ch.id, loc |-> ch.loc, epoch |-> ch.epoch,
   expiry |-> ch.expiry, token |-> ch.token]

\* CANDIDATE_RESULT, received by the side that moves
OutboundFor(m, r, binding, now) ==
  {c \in Range(m.outbound) :
     c.id = r.id /\ c.epoch = r.epoch /\ c.binding = binding
       /\ now < c.expiry}

AcceptsResult(m, r, binding, now) ==
  IF CachedResult(m, r.id, r.epoch, now)
  THEN LET entry == FindResult(m, r.id, r.epoch, now)
       IN entry.origin = "Received" /\ entry.result = r.result
            /\ entry.via = binding
  ELSE /\ OutboundFor(m, r, binding, now) # {}
       /\ Len(m.results) + FrozenSlots(m) < SLOTS

\* Faulty variant: where a move replaces the path, every verdict promotes.
PreviewResultPromotes(m, r, binding, now) ==
  IF CachedResult(m, r.id, r.epoch, now) THEN [kind |-> "None"]
  ELSE LET c == CHOOSE x \in OutboundFor(m, r, binding, now) : TRUE
       IN [kind |-> "CommitLocal",
           candidate |-> c,
           promote |-> m.profile # 3 \/ r.result = 1,
           entry |-> [id |-> r.id, epoch |-> r.epoch, result |-> r.result,
                      expiry |-> now + RESULT_LIFE, response |-> None,
                      origin |-> "Received", via |-> binding]]

PreviewResult(m, r, binding, now) ==
  IF CachedResult(m, r.id, r.epoch, now) THEN [kind |-> "None"]
  ELSE LET c == CHOOSE x \in OutboundFor(m, r, binding, now) : TRUE
       IN [kind |-> "CommitLocal",
           candidate |-> c,
           promote |-> r.result = 1,
           entry |-> [id |-> r.id, epoch |-> r.epoch, result |-> r.result,
                      expiry |-> now + RESULT_LIFE, response |-> None,
                      origin |-> "Received", via |-> binding]]

\* the controls of the protocol
Kinds == {"LocUpdate", "BindProbe", "BindChallenge", "BindResponse",
          "CandidateResult"}

\* preview_inner of a control observed on a binding
Accepts(m, c, binding, now) ==
  /\ CanPreview(m)
  /\ CASE c.type = "LocUpdate" -> AcceptsLocUpdate(m, c, now)
       [] c.type = "BindProbe" -> AcceptsProbe(m, c, binding, now)
       [] c.type = "BindChallenge" -> AcceptsChallenge(m, c, binding, now)
       [] c.type = "BindResponse" -> AcceptsResponse(m, c, binding, now)
       [] c.type = "CandidateResult" -> AcceptsResult(m, c, binding, now)

Preview(m, c, binding, now) ==
  CASE c.type = "LocUpdate" -> PreviewLocUpdate(m, c, now)
    [] c.type = "BindProbe" -> PreviewProbe(m, c, binding, now)
    [] c.type = "BindChallenge" -> PreviewChallenge(c)
    [] c.type = "BindResponse" -> PreviewResponse(m, c, binding, now)
    [] c.type = "CandidateResult" -> PreviewResult(m, c, binding, now)

\* response_for: the control a transition is answered with
Reply(t) ==
  CASE t.kind \in {"Challenge", "ExistingChallenge"} ->
         {[type |-> "BindChallenge", id |-> t.candidate.id,
           loc |-> t.candidate.loc, epoch |-> t.candidate.epoch,
           expiry |-> t.candidate.expiry, token |-> Token(t.candidate)]}
    [] t.kind = "Respond" ->
         {[type |-> "BindResponse", id |-> t.id, loc |-> t.loc,
           epoch |-> t.epoch, expiry |-> t.expiry, token |-> t.token]}
    [] t.kind = "RespondResult" ->
         {[type |-> "CandidateResult"] @@ t.bytes}
    [] OTHER -> {}

-----------------------------------------------------------------------------
(* apply_after_replay *)

Mutates(t) == t.kind \in {"CacheProposal", "Challenge", "CommitLocal", "Prove"}

\* The candidate a Prove transition marks
ProveIndex(m, t) ==
  FirstIndex(m.candidates, LAMBDA c : c.id = t.id /\ c.epoch = t.epoch)

ApplyProve(m, t) ==
  LET i == ProveIndex(m, t)
      marked == [m EXCEPT !.candidates[i].state = "Proven",
                          !.candidates[i].response = t.response]
      freezes == m.frozen = None /\ m.proposals # <<>>
                   /\ GreatestEpoch(m) = t.epoch
      cohort == [epoch |-> t.epoch, members |-> Members(m, t.epoch)]
  IN Settle([marked EXCEPT !.frozen = IF freezes THEN cohort ELSE @], t.at)

\* Faulty variant of LocalAdmission: the locator the end moves away from.
LocalAdmissionOldLoc(m, c) == Admission(c.binding, m.localLoc, m.peerLoc, c.epoch)

LocalAdmission(m, c) == Admission(c.binding, c.loc, m.peerLoc, c.epoch)

ApplyCommitLocal(m, t) ==
  LET c == t.candidate
      kept == IF t.promote
              THEN Above(m.outbound, c.epoch)
              ELSE Without(m.outbound, c.id)
      cached == [m EXCEPT !.results = Append(@, t.entry), !.outbound = kept]
  IN IF ~t.promote THEN cached
     ELSE IF m.profile # 3
     THEN [cached EXCEPT !.localEpoch = c.epoch, !.localLoc = c.loc,
                         !.old = [binding |-> m.binding,
                                  expiry |-> t.entry.expiry],
                         !.binding = c.binding]
     ELSE AdmitPath(cached, LocalAdmission(m, c))

Apply(m, t) ==
  CASE t.kind = "CacheProposal" ->
         [m EXCEPT !.tokens = t.tokens, !.refill = t.refill,
                   !.proposals = Append(@, t.proposal)]
    [] t.kind = "Challenge" ->
         [m EXCEPT !.candidates = Append(@, t.candidate)]
    [] t.kind = "CommitLocal" -> ApplyCommitLocal(m, t)
    [] t.kind = "Prove" -> ApplyProve(m, t)
    [] OTHER -> m

-----------------------------------------------------------------------------
(* expire *)

Fail(c) == [c EXCEPT !.state = "Failed", !.response = None]

\* Challenges past their expiry fail.
FailChallenges(m, now) ==
  [m EXCEPT !.candidates =
    [i \in DOMAIN m.candidates |->
       LET c == m.candidates[i]
       IN IF now >= c.expiry /\ c.state = "Challenged" THEN Fail(c) ELSE c]]

FrozenMembers(m) == IF m.frozen = None THEN <<>> ELSE m.frozen.members

\* Frozen members whose proposal expired: their first candidate fails unless
\* it is terminal, and their id is buried.
ExpiredMembers(m, now) == Expired(FrozenMembers(m), now)

FailMembers(m, now) ==
  LET expired == ExpiredMembers(m, now)
      first(i) == \A j \in 1 .. i - 1 : m.candidates[j].id # m.candidates[i].id
      fails(i) == /\ Has(expired, m.candidates[i].id)
                  /\ first(i)
                  /\ m.candidates[i].state \notin {"Proven", "Failed"}
  IN [m EXCEPT
       !.candidates = [i \in DOMAIN m.candidates |->
          IF fails(i) THEN Fail(m.candidates[i]) ELSE m.candidates[i]],
       !.tombs = RecordTombstones(@, expired, now)]

\* Failed candidates outside the cohort that was frozen on entry get a result
\* code 3, as far as the caches have room.
EmitFailure(m, p, now) ==
  IF \/ Len(m.results) >= SLOTS \/ Len(m.emitted) >= SLOTS
     \/ Has(m.results, p.id)
  THEN m
  ELSE LET entry == ResultEntry(p, 3, now, None)
       IN [m EXCEPT !.emitted = Append(@, ResultBytes(entry)),
                    !.results = Append(@, entry)]

EmitFailures(m, members, now) ==
  LET failed == Keep(m.candidates, {i \in DOMAIN m.candidates :
                       /\ m.candidates[i].state = "Failed"
                       /\ ~Has(members, m.candidates[i].id)
                       /\ Has(m.proposals, m.candidates[i].id)})
      proposal(c) == First(m.proposals, LAMBDA p : p.id = c.id)
      after[i \in 0 .. Len(failed)] ==
        IF i = 0 THEN m
        ELSE EmitFailure(after[i - 1], proposal(failed[i]), now)
  IN after[Len(failed)]

BuryExpired(m, now) ==
  LET expired == Expired(m.proposals, now) \o Expired(m.outbound, now)
  IN [m EXCEPT !.tombs = Live(RecordTombstones(@, expired, now), now)]

\* A cohort with no proposal left is dropped; the greatest epoch that has a
\* proven candidate under a live proposal is frozen in its place.
Refreeze(m) ==
  LET dropped == m.frozen # None /\ Members(m, m.frozen.epoch) = <<>>
      epochs == {p.epoch : p \in {q \in Range(m.proposals) :
                                    CandidateProven(m, q.id)}}
      greatest == Max(epochs)
  IN IF m.frozen # None /\ ~dropped THEN m
     ELSE IF epochs = {} THEN [m EXCEPT !.frozen = None]
     ELSE [m EXCEPT !.frozen = [epoch |-> greatest,
                                members |-> Members(m, greatest)]]

DropFailed(m, members) ==
  [m EXCEPT !.candidates =
     Keep(@, {i \in DOMAIN @ : @[i].state # "Failed" \/ Has(members, @[i].id)})]

ExpireOld(m, now) ==
  [m EXCEPT !.outbound = Live(@, now),
            !.old = IF @ # None /\ now >= @.expiry THEN None ELSE @]

Expire(m, now) ==
  LET members == FrozenMembers(m)
      settled == Settle(FailMembers(FailChallenges(m, now), now), now)
      failed == EmitFailures([settled EXCEPT !.results = Live(@, now)],
                             members, now)
      buried == BuryExpired(failed, now)
      frozen == Refreeze([buried EXCEPT !.proposals = Live(@, now)])
  IN IF m.closed THEN m
     ELSE Settle(ExpireOld(DropFailed(frozen, members), now), now)

\* Faulty variant: expiring leaves the generation alone.
ExpireChangesNothing(m, after, now) == FALSE

\* Expire bumps the generation if it changed anything but the tombstones, or
\* saw an expired cohort member that has no candidate.
ExpireChanges(m, after, now) ==
  \/ [after EXCEPT !.tombs = m.tombs] # m
  \/ ~m.closed /\ \E p \in Range(ExpiredMembers(m, now)) :
                    ~Has(m.candidates, p.id)

-----------------------------------------------------------------------------

\* close and restart
Close(m) ==
  [m EXCEPT !.closed = TRUE, !.proposals = <<>>, !.candidates = <<>>,
            !.results = <<>>, !.outbound = <<>>, !.emitted = <<>>,
            !.admission = None, !.owner = FALSE, !.old = None,
            !.frozen = None, !.secret = FALSE, !.tombs = <<>>]

\* binding_allowed_inbound
AllowedInbound(m, binding, now) ==
  \/ binding = m.binding
  \/ m.old # None /\ binding = m.old.binding /\ now < m.old.expiry
=============================================================================
