------------------------- MODULE RedundantToolProofs -------------------------
(***************************************************************************)
(* Proofs about RedundantTool.  The processes of the native tool only ever *)
(* call the session, so what holds of a session under any driver holds of  *)
(* theirs (ToolDrivesSession); and neither process gets ahead of the other *)
(* (StagesAlwaysMatch).                                                    *)
(***************************************************************************)
EXTENDS RedundantTool, RedundantProofs

\* The processes are the records they start as.
ProcessRecords ==
  /\ tx = [pc |-> tx.pc, step |-> tx.step, tries |-> tx.tries, n |-> tx.n,
           seen |-> tx.seen]
  /\ rx = [pc |-> rx.pc, step |-> rx.step, n |-> rx.n, first |-> rx.first,
           second |-> rx.second]

\* The packets in frames, and those `receive` has read, were on the wire.
FromNet ==
  /\ \A f \in wire : f.packet # None => f.packet \in net
  /\ rx.first # None => rx.first \in net
  /\ rx.second # None => rx.second \in net

\* A step of `send` as the other process sees it, and the converse
LeavesReceiver ==
  /\ UNCHANGED <<rx, setup, lease, preview, deliveries, accepted>>
  /\ net \subseteq net'
  /\ live'["R"] = live["R"] /\ path'["R"] = path["R"]
  /\ issuer'["R"] = issuer["R"] /\ owner'["R"] = owner["R"]

LeavesSender ==
  /\ UNCHANGED <<tx, setup, next, queue, sealed, net>>
  /\ path'["S"] = path["S"]

LEMMA StutterLeaves ==
  ASSUME UNCHANGED vars
  PROVE  /\ UNCHANGED rx => LeavesReceiver
         /\ UNCHANGED tx => LeavesSender
BY Zenon DEF vars, admission, sending, receiving, LeavesReceiver, LeavesSender

\* The states of the two ends are functions of the ends.
LEMMA PerEnd ==
  ASSUME IInv
  PROVE  /\ live \in [End -> BOOLEAN]
         /\ path \in [End -> [Slot -> {"Absent", "Active", "Removed", "Released"}]]
         /\ issuer \in [End -> BOOLEAN]
         /\ owner \in [End -> {"None", "Manager", "Admission"}]
         /\ "S" \in End /\ "R" \in End
BY Zenon DEF IInv, TypeOK, End

\* Frames that are added are of packets on the wire.
LEMMA TakeAdds ==
  ASSUME NEW f
  PROVE  /\ \A F : Take(f, F) => wire' \subseteq wire \cup F
         /\ Take(f, {}) => wire' \subseteq wire
BY DEF Take

LEMMA SentOnly ==
  ASSUME NEW F, NEW e
  PROVE  Sent(F, e) \subseteq F
BY Zenon DEF Sent

LEMMA ShakeFrames ==
  ASSUME NEW n, NEW type
  PROVE  \A f \in ShakeFrame(n, type) :
           f.packet = None /\ f.type = type
BY SentOnly DEF ShakeFrame, Frame

\* the tables of the program
LEMMA SendTables ==
  /\ DOMAIN Sends = {"update", "probe", "response", "data"}
  /\ Sends["update"] = "LocUpdate" /\ Sends["probe"] = "BindProbe"
  /\ Sends["response"] = "BindResponse" /\ Sends["data"] = "data"
  /\ AfterSend["update"] = "probe" /\ AfterSend["probe"] = "challenge"
  /\ AfterSend["response"] = "result" /\ AfterSend["data"] = "sent"
BY DEF Sends, AfterSend

\* What a step of `send` does to the session
LEMMA TxSession ==
  ASSUME IInv, TxNext
  PROVE  [Next]_vars /\ LeavesReceiver
<1>1. CASE UNCHANGED <<vars, rx>>
  BY <1>1, StutterLeaves, Zenon
<1>2. ASSUME TxIssue PROVE [Next]_vars /\ LeavesReceiver
  <2>1. IssueOwner("S") /\ UNCHANGED rx
    BY <1>2, Zenon DEF TxIssue
  <2>2. LeavesReceiver
    BY <2>1, PerEnd DEF IssueOwner, LeavesReceiver, sending, receiving
  <2>. QED BY <2>1, <2>2, Zenon DEF Next, End
<1>3. ASSUME TxSeal PROVE [Next]_vars /\ LeavesReceiver
  <2>1. Outbound /\ UNCHANGED rx
    BY <1>3, Zenon DEF TxSeal
  <2>2. LeavesReceiver
    BY <2>1, Zenon DEF Outbound, LeavesReceiver, admission, receiving
  <2>. QED BY <2>1, <2>2, Zenon DEF Next
<1>4. ASSUME TxTransmit PROVE [Next]_vars /\ LeavesReceiver
  <2>1. NextSlot \in Slot /\ Transmit(NextSlot) /\ UNCHANGED rx
    BY <1>4, Zenon DEF TxTransmit, NextSlot, Slot
  <2>2. LeavesReceiver
    BY <2>1, Zenon DEF Transmit, LeavesReceiver, admission, receiving
  <2>. QED BY <2>1, <2>2, Zenon DEF Next
<1>5. ASSUME TxConfirm PROVE [Next]_vars /\ LeavesReceiver
  <2>1. NextSlot \in Slot /\ ConfirmSent(NextSlot) /\ UNCHANGED rx
    BY <1>5, Zenon DEF TxConfirm, NextSlot, Slot
  <2>2. LeavesReceiver
    BY <2>1, Zenon DEF ConfirmSent, LeavesReceiver, admission, receiving
  <2>. QED BY <2>1, <2>2, Zenon DEF Next
<1>6. ASSUME NEW f, TxResult(f) PROVE [Next]_vars /\ LeavesReceiver
  <2>1. UNCHANGED <<vars, rx>> \/ (MintAdmission("S") /\ UNCHANGED rx)
    BY <1>6, Zenon DEF TxResult, Tx
  <2>2. CASE MintAdmission("S") /\ UNCHANGED rx
    <3>1. LeavesReceiver
      BY <2>2, PerEnd DEF MintAdmission, LeavesReceiver, sending, receiving
    <3>. QED BY <2>2, <3>1, Zenon DEF Next, End
  <2>. QED BY <1>1, <2>1, <2>2, Zenon
<1>7. ASSUME TxActivate PROVE [Next]_vars /\ LeavesReceiver
  <2>1. Activate("S") /\ UNCHANGED rx
    BY <1>7, Zenon DEF TxActivate
  <2>2. LeavesReceiver
    BY <2>1, PerEnd DEF Activate, LeavesReceiver, sending
  <2>. QED BY <2>1, <2>2, Zenon DEF Next, End
<1>8. ASSUME TxExit PROVE [Next]_vars /\ LeavesReceiver
  <2>1. Close("S") /\ UNCHANGED rx
    BY <1>8, Zenon DEF TxExit
  <2>2. LeavesReceiver
    BY <2>1, PerEnd DEF Close, Release, LeavesReceiver, sending, receiving
  <2>. QED BY <2>1, <2>2, Zenon DEF Next, End
<1>9. ASSUME NEW f,
             \/ TxOpen \/ TxRetry \/ TxGiveUp
             \/ TxVerify(f) \/ TxAck(f) \/ TxChallenge(f)
      PROVE  UNCHANGED <<vars, rx>>
  BY <1>9, Zenon DEF TxOpen, TxRetry, TxGiveUp, TxVerify, TxAck, TxChallenge, Tx
<1>. QED BY <1>1, <1>2, <1>3, <1>4, <1>5, <1>6, <1>7, <1>8, <1>9, Zenon DEF TxNext

\* What a step of `receive` does to the session
LEMMA RxSession ==
  ASSUME IInv, FromNet, RxNext
  PROVE  [Next]_vars /\ LeavesSender
<1>. DEFINE Goal == [Next]_vars /\ LeavesSender
<1>1. CASE UNCHANGED <<vars, tx>>
  BY <1>1, StutterLeaves, Zenon
<1>2. ASSUME NEW h \in Holder, NEW p \in net, PreviewInbound(h, p), UNCHANGED tx
      PROVE  Goal
  <2>1. LeavesSender
    BY <1>2, Zenon DEF PreviewInbound, LeavesSender, sending
  <2>. QED BY <1>2, <2>1, Zenon DEF Next
<1>3. ASSUME RxIssue PROVE Goal
  <2>1. IssueOwner("R") /\ UNCHANGED tx
    BY <1>3, Zenon DEF RxIssue
  <2>2. LeavesSender
    BY <2>1, Zenon DEF IssueOwner, LeavesSender, sending
  <2>. QED BY <2>1, <2>2, Zenon DEF Next, End
<1>4. ASSUME RxPrepare PROVE Goal
  <2>1. PICK h \in Holder : PrepareMobility(h) /\ UNCHANGED tx
    BY <1>4, Zenon DEF RxPrepare
  <2>2. LeavesSender
    BY <2>1, Zenon DEF PrepareMobility, LeavesSender, sending
  <2>. QED BY <2>1, <2>2, Zenon DEF Next
<1>5. ASSUME RxCommit PROVE Goal
  <2>1. PICK h \in Holder : CommitMobility(h) /\ UNCHANGED tx
    BY <1>5, Zenon DEF RxCommit
  <2>2. LeavesSender
    BY <2>1, Zenon DEF CommitMobility, LeavesSender, sending
  <2>. QED BY <2>1, <2>2, Zenon DEF Next
<1>6. ASSUME RxAdmit PROVE Goal
  <2>1. MintAdmission("R") /\ UNCHANGED tx
    BY <1>6, Zenon DEF RxAdmit
  <2>2. LeavesSender
    BY <2>1, Zenon DEF MintAdmission, LeavesSender, sending
  <2>. QED BY <2>1, <2>2, Zenon DEF Next, End
<1>7. ASSUME RxActivate PROVE Goal
  <2>1. Activate("R") /\ UNCHANGED tx
    BY <1>7, Zenon DEF RxActivate
  <2>2. LeavesSender
    BY <2>1, PerEnd DEF Activate, LeavesSender, sending
  <2>. QED BY <2>1, <2>2, Zenon DEF Next, End
<1>8. ASSUME RxDeliver PROVE Goal
  <2>1. PICK h \in Holder : CommitInbound(h) /\ UNCHANGED tx
    BY <1>8, Zenon DEF RxDeliver
  <2>2. LeavesSender
    BY <2>1, Zenon DEF CommitInbound, LeavesSender, sending
  <2>. QED BY <2>1, <2>2, Zenon DEF Next
<1>9. ASSUME RxExit PROVE Goal
  <2>1. Close("R") /\ UNCHANGED tx
    BY <1>9, Zenon DEF RxExit
  <2>2. LeavesSender
    BY <2>1, PerEnd DEF Close, Release, LeavesSender, sending
  <2>. QED BY <2>1, <2>2, Zenon DEF Next, End
<1>10. ASSUME NEW f, RxShake(f) \/ RxRead(f) \/ RxSend \/ RxGiveUp
       PROVE  UNCHANGED <<vars, tx>>
  BY <1>10, Zenon DEF RxShake, RxRead, RxSend, RxGiveUp, Rx
<1>11. ASSUME NEW f \in wire, RxPreview(f) PROVE Goal
  <2>1. \/ UNCHANGED <<vars, tx>>
        \/ f.packet # None /\ UNCHANGED tx /\ \E h \in Holder : PreviewInbound(h, f.packet)
    BY <1>11, Zenon DEF RxPreview, RxOpens, Rx
  <2>. QED BY <1>1, <1>2, <2>1, Zenon DEF FromNet
<1>12. ASSUME RxInbound PROVE Goal
  <2>1. \/ UNCHANGED <<vars, tx>>
        \/ /\ CopyOf[rx.pc] # None /\ UNCHANGED tx
           /\ \E h \in Holder : PreviewInbound(h, CopyOf[rx.pc])
    BY <1>12, Zenon DEF RxInbound, RxOpens, Rx
  <2>2. rx.pc \in {"deliver", "suppress"}
    BY <1>12 DEF RxInbound, SlotOf
  <2>3. CopyOf[rx.pc] \in {rx.first, rx.second}
    BY <2>2 DEF CopyOf
  <2>. QED BY <1>1, <1>2, <2>1, <2>3, Zenon DEF FromNet
<1>. QED BY <1>1, <1>3, <1>4, <1>5, <1>6, <1>7, <1>8, <1>9, <1>10, <1>11, <1>12, Zenon
         DEF RxNext, Receivable

\* A frame `send` adds: a handshake packet, or the packet at the front of a queue
AddsFrames ==
  \A f \in wire' :
    \/ f \in wire
    \/ f.packet = None /\ f.type \in {"open", "auth", "accept"}
    \/ /\ tx.pc \in DOMAIN Sends /\ tx.step = "transmit"
       /\ f.type = Sends[tx.pc] /\ queue[NextSlot] # <<>>
       /\ f.packet = Head(queue[NextSlot]) /\ f.packet \in net'

LEMMA TxAddsFrames ==
  ASSUME TxNext
  PROVE  AddsFrames
<1>1. ASSUME wire' \subseteq wire PROVE AddsFrames
  BY <1>1, Zenon DEF AddsFrames
<1>2. ASSUME NEW n, NEW type \in {"open", "auth", "accept"},
             wire' \subseteq wire \cup ShakeFrame(n, type)
      PROVE  AddsFrames
  BY <1>2, ShakeFrames, Zenon DEF AddsFrames
<1>3. ASSUME TxOpen \/ TxRetry PROVE AddsFrames
  <2>1. CASE TxOpen
    BY <2>1, <1>2, Zenon DEF TxOpen
  <2>2. CASE TxRetry
    BY <2>2, <1>2, Zenon DEF TxRetry
  <2>. QED BY <1>3, <2>1, <2>2, Zenon
<1>4. ASSUME NEW f, TxVerify(f) \/ TxAck(f) PROVE AddsFrames
  <2>1. \/ Take(f, {}) \/ Take(f, ShakeFrame(tx.n + 1, "auth"))
        \/ Take(f, ShakeFrame(tx.n + 1, "accept"))
    BY <1>4, Zenon DEF TxVerify, TxAck
  <2>2. \/ wire' \subseteq wire \/ wire' \subseteq wire \cup ShakeFrame(tx.n + 1, "auth")
        \/ wire' \subseteq wire \cup ShakeFrame(tx.n + 1, "accept")
    BY <2>1, TakeAdds, Zenon
  <2>. QED BY <1>1, <1>2, <2>2, Zenon
<1>5. ASSUME TxTransmit PROVE AddsFrames
  <2>. DEFINE p == Head(queue[NextSlot])
              g == Frame("R", Link(tx.pc, NextSlot), tx.n + 1, Sends[tx.pc], p)
  <2>1. /\ tx.pc \in DOMAIN Sends /\ tx.step = "transmit"
        /\ queue[NextSlot] # <<>> /\ p \in net' /\ wire' \subseteq wire \cup {g}
    BY <1>5, SentOnly, Zenon DEF TxTransmit, Transmit
  <2>2. g.type = Sends[tx.pc] /\ g.packet = p
    BY DEF Frame
  <2>. QED BY <2>1, <2>2, Zenon DEF AddsFrames
<1>6. ASSUME NEW f,
             \/ TxIssue \/ TxSeal \/ TxConfirm \/ TxActivate \/ TxGiveUp \/ TxExit
             \/ TxChallenge(f) \/ TxResult(f)
      PROVE  wire' \subseteq wire
  <2>1. CASE TxChallenge(f) \/ TxResult(f)
    BY <2>1, TakeAdds, Zenon DEF TxChallenge, TxResult
  <2>. QED BY <1>6, <2>1, Zenon DEF TxIssue, TxSeal, TxConfirm, TxActivate, TxGiveUp, TxExit
<1>. QED BY <1>1, <1>3, <1>4, <1>5, <1>6, Zenon DEF TxNext

\* A frame `receive` adds: an answer of the handshake or one of its two controls
AnswersFrames ==
  \A f \in wire' :
    \/ f \in wire
    \/ f.packet = None /\ f.type \in {"verify", "ack", "BindChallenge"}
    \/ f.packet = None /\ f.type = "CandidateResult" /\ rx.pc = "settled"

LEMMA RxAnswersFrames ==
  ASSUME RxNext
  PROVE  AnswersFrames
<1>1. ASSUME wire' \subseteq wire PROVE AnswersFrames
  BY <1>1, Zenon DEF AnswersFrames
<1>2. ASSUME NEW f, RxShake(f) PROVE AnswersFrames
  <2>. DEFINE answers == RxShakes[rx.pc].answers
              F == {Frame("S", 0, rx.n + 1, t, None) : t \in answers}
  <2>1. rx.pc \in {"listen", "auth", "accept"}
    BY <1>2 DEF RxShake, RxShakes
  <2>2. answers \subseteq {"verify", "ack"}
    BY <2>1 DEF RxShakes
  <2>3. Take(f, {}) \/ Take(f, Sent(F, "S"))
    BY <1>2, Zenon DEF RxShake
  <2>4. wire' \subseteq wire \cup F
    BY <2>3, TakeAdds, SentOnly, Zenon
  <2>. HIDE DEF answers
  <2>5. \A g \in F : g.packet = None /\ g.type \in answers
    BY DEF Frame
  <2>. QED BY <2>2, <2>4, <2>5, Zenon DEF AnswersFrames
<1>3. ASSUME RxSend PROVE AnswersFrames
  <2>. DEFINE type == IF rx.pc = "challenge" THEN "BindChallenge" ELSE "CandidateResult"
              g == Frame("S", 1, rx.n + 1, type, None)
  <2>1. wire' \subseteq wire \cup {g} /\ rx.pc \in {"challenge", "settled"}
    BY <1>3, SentOnly, Zenon DEF RxSend
  <2>2. g.packet = None /\ g.type = type
    BY DEF Frame
  <2>3. type = "BindChallenge" \/ (type = "CandidateResult" /\ rx.pc = "settled")
    BY <2>1, Zenon
  <2>. QED BY <2>1, <2>2, <2>3, Zenon DEF AnswersFrames
<1>4. ASSUME NEW f, RxPreview(f) \/ RxRead(f) PROVE wire' \subseteq wire
  BY <1>4, TakeAdds, Zenon DEF RxPreview, RxRead
<1>5. ASSUME \/ RxIssue \/ RxPrepare \/ RxCommit \/ RxAdmit \/ RxActivate
             \/ RxInbound \/ RxDeliver \/ RxGiveUp \/ RxExit
      PROVE  wire' \subseteq wire
  BY <1>5, Zenon DEF RxIssue, RxPrepare, RxCommit, RxAdmit, RxActivate,
                     RxInbound, RxDeliver, RxGiveUp, RxExit
<1>. QED BY <1>1, <1>2, <1>3, <1>4, <1>5, Zenon DEF RxNext

\* The processes stay records of their fields.
LEMMA TxKeepsRecords ==
  ASSUME ProcessRecords, TxNext, UNCHANGED rx
  PROVE  ProcessRecords'
<1>1. CASE TxOpen \/ TxRetry
  BY <1>1, Zenon DEF ProcessRecords, TxOpen, TxRetry, Tx
<1>2. ASSUME NEW f, TxVerify(f) \/ TxAck(f) PROVE ProcessRecords'
  BY <1>2, Zenon DEF ProcessRecords, TxVerify, TxAck, Tx, TxFail
<1>3. ASSUME NEW f, TxChallenge(f) \/ TxResult(f) PROVE ProcessRecords'
  BY <1>3, Zenon DEF ProcessRecords, TxChallenge, TxResult, Tx, TxFail
<1>4. CASE TxIssue \/ TxSeal \/ TxTransmit
  BY <1>4, Zenon DEF ProcessRecords, TxIssue, TxSeal, TxTransmit
<1>5. CASE TxConfirm
  BY <1>5, Zenon DEF ProcessRecords, TxConfirm
<1>6. CASE TxActivate \/ TxGiveUp \/ TxExit
  BY <1>6 DEF ProcessRecords, TxActivate, TxGiveUp, TxExit, Tx, TxFail
<1>. QED BY <1>1, <1>2, <1>3, <1>4, <1>5, <1>6, Zenon DEF TxNext

LEMMA RxKeepsRecords ==
  ASSUME ProcessRecords, RxNext, UNCHANGED tx
  PROVE  /\ ProcessRecords'
         /\ \/ UNCHANGED <<rx.first, rx.second>>
            \/ \E f \in wire : /\ rx'.first \in {rx.first, f.packet}
                               /\ rx'.second \in {rx.second, f.packet}
<1>. DEFINE Read(f) == /\ rx'.first \in {rx.first, f.packet}
                       /\ rx'.second \in {rx.second, f.packet}
            Goal == ProcessRecords' /\ (UNCHANGED <<rx.first, rx.second>> \/ \E f \in wire : Read(f))
<1>1. ASSUME NEW f, RxShake(f) PROVE Goal
  BY <1>1, Zenon DEF ProcessRecords, RxShake, Rx, RxFail
<1>2. ASSUME NEW f, RxPreview(f) PROVE Goal
  BY <1>2 DEF ProcessRecords, RxPreview, Rx, RxFail
<1>3. ASSUME NEW f \in wire, RxRead(f) PROVE Goal
  <2>1. ProcessRecords' /\ Read(f)
    BY <1>3, Zenon DEF ProcessRecords, RxRead, Rx
  <2>. QED BY <2>1, Zenon
<1>4. CASE RxIssue \/ RxPrepare \/ RxCommit
  BY <1>4, Zenon DEF ProcessRecords, RxIssue, RxPrepare, RxCommit
<1>5. CASE RxSend \/ RxAdmit \/ RxActivate
  BY <1>5, Zenon DEF ProcessRecords, RxSend, Rx, RxAdmit, RxActivate
<1>6. CASE RxInbound \/ RxDeliver
  BY <1>6, Zenon DEF ProcessRecords, RxInbound, RxDeliver, Rx, RxFail
<1>7. CASE RxGiveUp \/ RxExit
  BY <1>7 DEF ProcessRecords, RxGiveUp, RxExit, Rx, RxFail
<1>. QED BY <1>1, <1>2, <1>3, <1>4, <1>5, <1>6, <1>7, Zenon DEF RxNext, Receivable

\* What was put on the wire stays in the history, and a setup stays.
LEMMA NetGrows ==
  ASSUME [Next]_vars
  PROVE  net \subseteq net' /\ setup' = setup
<1>1. CASE UNCHANGED vars
  BY <1>1, Zenon DEF vars
<1>2. ASSUME NEW e \in End, NEW s \in Slot,
             \/ Close(e) \/ RemovePath(e, s) \/ RemoveLastPath(e, s) \/ RemoveUnusedPath(e, s)
             \/ IssueOwner(e) \/ MintAdmission(e) \/ DropOwner(e) \/ Activate(e)
      PROVE  net' = net /\ setup' = setup
  BY <1>2, Zenon DEF Close, RemovePath, RemoveLastPath, RemoveUnusedPath, IssueOwner,
                     MintAdmission, DropOwner, Activate
<1>3. ASSUME NEW s \in Slot, Outbound \/ OutboundExhausted \/ Transmit(s) \/ ConfirmSent(s)
      PROVE  net \subseteq net' /\ setup' = setup
  BY <1>3, Zenon DEF Outbound, OutboundExhausted, Transmit, ConfirmSent
<1>4. ASSUME NEW h \in Holder, NEW p,
             \/ PreviewInbound(h, p) \/ PrepareMobility(h) \/ CommitInbound(h)
             \/ CommitMobility(h) \/ DropPreview(h)
      PROVE  net' = net /\ setup' = setup
  BY <1>4, Zenon DEF PreviewInbound, PrepareMobility, CommitInbound, CommitMobility, DropPreview
<1>5. ASSUME NEW p, Diverge(p) \/ ExpireTick \/ Pass PROVE net' = net /\ setup' = setup
  BY <1>5, Zenon DEF Diverge, ExpireTick, Pass
<1>6. 0 \in Slot
  BY DEF Slot
<1>. QED BY <1>1, <1>2, <1>3, <1>4, <1>5, <1>6, Zenon DEF Next

LEMMA TxSteps ==
  ASSUME IInv, ProcessRecords, FromNet, TxNext
  PROVE  [Next]_vars /\ LeavesReceiver /\ AddsFrames /\ ProcessRecords' /\ FromNet'
<1>1. [Next]_vars /\ LeavesReceiver /\ AddsFrames
  BY TxSession, TxAddsFrames, Zenon
<1>2. ProcessRecords'
  BY <1>1, TxKeepsRecords, Zenon DEF LeavesReceiver
<1>3. rx' = rx /\ net \subseteq net'
  BY <1>1, Zenon DEF LeavesReceiver
<1>4. FromNet'
  BY <1>1, <1>3, Zenon DEF AddsFrames, FromNet
<1>. QED BY <1>1, <1>2, <1>4, Zenon

LEMMA RxSteps ==
  ASSUME IInv, ProcessRecords, FromNet, RxNext
  PROVE  [Next]_vars /\ LeavesSender /\ AnswersFrames /\ ProcessRecords' /\ FromNet'
<1>1. [Next]_vars /\ LeavesSender /\ AnswersFrames
  BY RxSession, RxAnswersFrames, Zenon
<1>2. net' = net /\ tx' = tx
  BY <1>1, Zenon DEF LeavesSender
<1>3. /\ ProcessRecords'
      /\ \/ UNCHANGED <<rx.first, rx.second>>
         \/ \E f \in wire : /\ rx'.first \in {rx.first, f.packet}
                            /\ rx'.second \in {rx.second, f.packet}
  BY <1>2, RxKeepsRecords, Zenon
<1>4. /\ rx'.first # None => rx'.first \in net
      /\ rx'.second # None => rx'.second \in net
  BY <1>3, Zenon DEF FromNet
<1>5. \A f \in wire' : f.packet # None => f.packet \in net
  BY <1>1, Zenon DEF AnswersFrames, FromNet
<1>6. FromNet'
  BY <1>2, <1>4, <1>5, Zenon DEF FromNet
<1>. QED BY <1>1, <1>3, <1>6, Zenon

\* Every step of the tool is one of a session under some driver, or none.
LEMMA ToolSteps ==
  ASSUME IInv, ProcessRecords, FromNet, [ToolNext]_allVars
  PROVE  [Next]_vars /\ ProcessRecords' /\ FromNet'
<1>1. CASE UNCHANGED allVars
  <2>1. [Next]_vars /\ UNCHANGED <<tx, rx, wire>>
    BY <1>1, Zenon DEF allVars, toolVars
  <2>2. net \subseteq net'
    BY <2>1, NetGrows, Zenon
  <2>. QED BY <2>1, <2>2, Zenon DEF ProcessRecords, FromNet
<1>2. CASE Lose
  <2>1. UNCHANGED vars /\ UNCHANGED <<tx, rx>> /\ wire' \subseteq wire
    BY <1>2 DEF Lose
  <2>2. net' = net
    BY <2>1, Zenon DEF vars
  <2>. QED BY <2>1, <2>2, Zenon DEF ProcessRecords, FromNet
<1>. QED BY <1>1, <1>2, TxSteps, RxSteps, Zenon DEF ToolNext

LEMMA ToolStart ==
  ASSUME ToolInit
  PROVE  IInv /\ ProcessRecords /\ FromNet
<1>1. IInv /\ wire = {}
  BY InitIInv, Zenon DEF ToolInit
<1>2. ProcessRecords /\ rx.first = None /\ rx.second = None
  BY DEF ToolInit, ProcessRecords
<1>. QED BY <1>1, <1>2, Zenon DEF FromNet

\* The native tool is a driver of the session: whatever its processes and the
\* links do, the two session ends take only steps of their specification, so
\* every property proved of it holds in the tool.
THEOREM ToolDrivesSession == ToolSpec => Spec
<1>. DEFINE Base == IInv /\ ProcessRecords /\ FromNet
<1>1. ToolInit => Base /\ Init
  BY ToolStart, Zenon DEF ToolInit
<1>2. Base /\ [ToolNext]_allVars => Base' /\ [Next]_vars
  BY ToolSteps, NextIInv, Zenon
<1>. QED BY <1>1, <1>2, PTL DEF ToolSpec, Spec

-----------------------------------------------------------------------------
(***************************************************************************)
(* How far the processes are.  StagesMatch is about the ends of a chain of *)
(* messages, so its invariant follows the chain: which delivery id carries *)
(* which control, what a stage of `receive` has committed, and that the    *)
(* result, once sent, stands for all three controls.                       *)
(***************************************************************************)

AcceptedIds == {a.id : a \in accepted}

\* The delivery ids of a setup
LEMMA ControlIds ==
  ASSUME IInv
  PROVE  /\ Setup.seed \in Nat \ {0}
         /\ Setup.controls = {Setup.seed, Setup.seed + 1, Setup.seed + 2}
         /\ Setup.controls \subseteq Id
<1>1. setup \in DOMAIN Setups /\ setup \in DOMAIN Drives
  BY RedundantToolAssumption, Zenon DEF IInv, TypeOK
<1>2. Setup.seed \in 1 .. U64_MAX - 1
  BY <1>1, RedundantAssumption, Zenon DEF Setup
<1>3. Setup.controls = Setup.seed .. Setup.seed + 2 /\ Setup.seed + 3 < U64_MAX
  BY <1>1, RedundantToolAssumption, Zenon DEF Setup
<1>. QED BY <1>2, <1>3, Numbers DEF Id

\* Controls sealed before a stage of `send`
Ahead == [open |-> 0, cookie |-> 0, auth |-> 0, issue |-> 0, update |-> 0,
          probe |-> 1, challenge |-> 2, response |-> 2]

\* The ids of the controls follow the seed; until the second path is active
\* only the first has a queue.
Sealing ==
  /\ tx.pc \in DOMAIN Ahead =>
       /\ path["S"][1] = "Absent" /\ queue[1] = <<>>
       /\ tx.step = "seal" => next = Setup.seed + Ahead[tx.pc] /\ queue[0] = <<>>
       /\ tx.step # "seal" =>
            /\ next = Setup.seed + Ahead[tx.pc] + 1
            /\ \E p : queue[0] = <<p>> /\ p.id = Setup.seed + Ahead[tx.pc]
  /\ tx.pc \notin DOMAIN Sends => tx.step = "seal"

\* The second path carries what is sealed after the controls.
Copying ==
  /\ tx.pc \in {"result", "activate", "data"} => next > Setup.seed + 2
  /\ \A p \in sealed : p.slot = 1 => p.id \notin Setup.controls

\* The place of a control among the deliveries
Place == [LocUpdate |-> 0, BindProbe |-> 1, BindResponse |-> 2]

FrameIds ==
  \A f \in wire :
    f.packet # None /\ f.type \in DOMAIN Place => f.packet.id = Setup.seed + Place[f.type]

LEMMA AheadTable ==
  /\ DOMAIN Ahead = {"open", "cookie", "auth", "issue", "update", "probe", "challenge",
                     "response"}
  /\ Ahead["open"] = 0 /\ Ahead["cookie"] = 0 /\ Ahead["auth"] = 0 /\ Ahead["issue"] = 0
  /\ Ahead["update"] = 0 /\ Ahead["probe"] = 1 /\ Ahead["challenge"] = 2
  /\ Ahead["response"] = 2
BY DEF Ahead

LEMMA PlaceTable ==
  /\ DOMAIN Place = {"LocUpdate", "BindProbe", "BindResponse"}
  /\ Place["LocUpdate"] = 0 /\ Place["BindProbe"] = 1 /\ Place["BindResponse"] = 2
BY DEF Place

\* TxSeal in a stage before the second path: one packet, under the next id
LEMMA SealsControl ==
  ASSUME IInv, TxSeal, path["S"][1] = "Absent", queue[0] = <<>>, queue[1] = <<>>
  PROVE  /\ queue'[1] = <<>> /\ next' = next + 1 /\ path' = path
         /\ \E p : queue'[0] = <<p>> /\ p.id = next
<1>1. Outbound /\ live["S"] /\ path' = path /\ next' = next + 1
  BY Zenon DEF TxSeal, Outbound
<1>2. path["S"][0] = "Active"
  BY <1>1 DEF IInv, PathLeft, End, Slot
<1>3. 0 \in ActiveSlots("S") /\ 1 \notin ActiveSlots("S")
  BY <1>2 DEF ActiveSlots, Slot
<1>4. PICK other : queue' = [s \in Slot |-> IF s \in ActiveSlots("S")
                       THEN Append(queue[s], Copy(s, IF s = 1 THEN other ELSE next))
                       ELSE queue[s]]
  BY <1>1, Zenon DEF Outbound
<1>5. queue'[0] = Append(<<>>, Copy(0, next)) /\ queue'[1] = <<>>
  BY <1>3, <1>4, Zenon DEF Slot
<1>6. Append(<<>>, Copy(0, next)) = <<Copy(0, next)>>
  OBVIOUS
<1>7. Copy(0, next).id = next
  BY DEF Copy
<1>. QED BY <1>1, <1>5, <1>6, <1>7, Zenon

LEMMA KeepsSealing ==
  ASSUME Sealing, tx.step = "seal", tx'.step = "seal",
         tx'.pc \in DOMAIN Ahead =>
           /\ UNCHANGED <<queue, next, setup>> /\ path'["S"] = path["S"]
           /\ tx.pc \in DOMAIN Ahead /\ Ahead[tx'.pc] = Ahead[tx.pc]
  PROVE  Sealing'
<1>1. ASSUME tx'.pc \in DOMAIN Ahead
      PROVE  /\ path'["S"][1] = "Absent" /\ queue'[1] = <<>>
             /\ next' = Setup'.seed + Ahead[tx'.pc] /\ queue'[0] = <<>>
  BY <1>1, Zenon DEF Sealing, Setup
<1>. QED BY <1>1, Zenon DEF Sealing

LEMMA TxSealing ==
  ASSUME IInv, ProcessRecords, Sealing, TxNext, setup' = setup
  PROVE  Sealing'
<1>. USE SendTables, AheadTable
<1>1. ASSUME NEW f, TxOpen \/ TxVerify(f) \/ TxAck(f) \/ TxChallenge(f) \/ TxGiveUp
      PROVE  Sealing'
  <2>1. UNCHANGED vars /\ tx.pc \notin DOMAIN Sends
    BY <1>1 DEF TxOpen, TxVerify, TxAck, TxChallenge, TxGiveUp, TxWaits, Tx
  <2>2. UNCHANGED <<queue, next, setup>> /\ path'["S"] = path["S"] /\ tx.step = "seal"
    BY <2>1, Zenon DEF vars, sending, Sealing
  <2>3. CASE TxOpen
    <3>1. tx'.pc = "cookie" /\ tx'.step = tx.step /\ tx.pc = "open"
      BY <2>3 DEF ProcessRecords, TxOpen, Tx
    <3>. QED BY <2>2, <3>1, KeepsSealing
  <2>4. CASE TxVerify(f) \/ TxAck(f) \/ TxChallenge(f)
    <3>1. /\ tx'.step = tx.step
          /\ \/ tx'.pc = "quit"
             \/ tx.pc = "cookie" /\ tx'.pc = "auth"
             \/ tx.pc = "auth" /\ tx'.pc = "issue"
             \/ tx.pc = "challenge" /\ tx'.pc = "response"
      BY <2>4, Zenon DEF ProcessRecords, TxVerify, TxAck, TxChallenge, Tx, TxFail
    <3>. QED BY <2>2, <3>1, KeepsSealing
  <2>5. CASE TxGiveUp
    <3>1. tx'.pc = "quit" /\ tx'.step = tx.step
      BY <2>5 DEF ProcessRecords, TxGiveUp, Tx, TxFail
    <3>. QED BY <2>2, <3>1, KeepsSealing
  <2>. QED BY <1>1, <2>3, <2>4, <2>5, Zenon
<1>2. CASE TxRetry
  <2>1. UNCHANGED <<queue, next, setup>> /\ path'["S"] = path["S"]
    BY <1>2, Zenon DEF TxRetry, Tx, vars, sending
  <2>2. tx'.pc = tx.pc /\ tx'.step = tx.step /\ tx.pc \in {"cookie", "auth"}
    BY <1>2 DEF ProcessRecords, TxRetry, CanRetry, Tx
  <2>3. tx.step = "seal"
    BY <2>2 DEF Sealing
  <2>. QED BY <2>1, <2>2, <2>3, KeepsSealing
<1>3. CASE TxIssue
  <2>1. UNCHANGED <<queue, next, setup>> /\ path'["S"] = path["S"]
    BY <1>3, Zenon DEF TxIssue, IssueOwner, sending
  <2>2. tx'.pc = "update" /\ tx'.step = tx.step /\ tx.pc = "issue"
    BY <1>3 DEF ProcessRecords, TxIssue
  <2>3. tx.step = "seal"
    BY <2>2 DEF Sealing
  <2>. QED BY <2>1, <2>2, <2>3, KeepsSealing
<1>4. ASSUME NEW f, TxResult(f) \/ TxActivate \/ TxExit PROVE Sealing'
  <2>1. /\ tx'.step = tx.step /\ tx.pc \in {"result", "activate", "sent", "quit"}
        /\ tx'.pc \in {"activate", "data", "quit", "ok", "failed"}
    BY <1>4 DEF ProcessRecords, TxResult, TxActivate, TxExit, Tx, TxFail
  <2>2. tx.step = "seal"
    BY <2>1 DEF Sealing
  <2>. QED BY <2>1, <2>2, KeepsSealing
<1>5. CASE TxSeal
  <2>1. tx'.pc = tx.pc /\ tx'.step = "transmit" /\ tx.step = "seal" /\ tx.pc \in DOMAIN Sends
    BY <1>5 DEF ProcessRecords, TxSeal
  <2>2. ASSUME tx.pc \in DOMAIN Ahead
        PROVE  /\ path'["S"][1] = "Absent" /\ queue'[1] = <<>>
               /\ next' = Setup.seed + Ahead[tx.pc] + 1
               /\ \E p : queue'[0] = <<p>> /\ p.id = Setup.seed + Ahead[tx.pc]
    BY <1>5, <2>1, <2>2, SealsControl, Zenon DEF Sealing
  <2>. QED BY <2>1, <2>2, ZenonT(40) DEF Sealing, Setup
<1>6. CASE TxTransmit
  <2>1. tx'.pc = tx.pc /\ tx'.step = "confirm" /\ tx.step # "seal" /\ tx.pc \in DOMAIN Sends
    BY <1>6 DEF ProcessRecords, TxTransmit
  <2>2. UNCHANGED <<queue, next, setup, path>>
    BY <1>6, Zenon DEF TxTransmit, Transmit, sending
  <2>. QED BY <2>1, <2>2, Zenon DEF Sealing, Setup
<1>7. CASE TxConfirm
  <2>1. UNCHANGED <<next, setup, path>> /\ tx.step # "seal" /\ tx.pc \in DOMAIN Sends
    BY <1>7 DEF TxConfirm, ConfirmSent
  <2>2. \/ tx'.pc = AfterSend[tx.pc] /\ tx'.step = "seal"
        \/ /\ tx'.pc = tx.pc /\ tx'.step = "transmit"
           /\ ~ \A s \in Slot : queue'[s] = <<>>
    BY <1>7 DEF ProcessRecords, TxConfirm
  <2>3. CASE tx.pc \in DOMAIN Ahead
    <3>1. PICK p : queue[0] = <<p>>
      BY <2>1, <2>3, Zenon DEF Sealing
    <3>2. queue[1] = <<>> /\ NextSlot = 0
      BY <2>3, <3>1 DEF Sealing, NextSlot
    <3>3. queue \in [Slot -> Seq(PacketType)] /\ queue' = [queue EXCEPT ![0] = Tail(@)]
      BY <1>7, <3>2, Zenon DEF TxConfirm, ConfirmSent, IInv, TypeOK
    <3>4. queue'[0] = <<>> /\ queue'[1] = <<>>
      BY <3>1, <3>2, <3>3 DEF Slot
    <3>5. tx'.pc = AfterSend[tx.pc] /\ tx'.step = "seal"
      BY <2>2, <3>4 DEF Slot
    <3>6. next = Setup.seed + Ahead[tx.pc] + 1 /\ path["S"][1] = "Absent"
      BY <2>1, <2>3, Zenon DEF Sealing
    <3>7. Setup.seed \in Nat
      BY ControlIds, SMTT(30)
    <3>8. tx'.pc \in DOMAIN Ahead => next = Setup.seed + Ahead[tx'.pc]
      BY <2>1, <2>3, <3>5, <3>6, <3>7
    <3>. QED BY <2>1, <3>4, <3>5, <3>6, <3>8, Zenon DEF Sealing, Setup
  <2>4. CASE tx.pc = "data"
    BY <2>2, <2>4 DEF Sealing
  <2>. QED BY <2>1, <2>3, <2>4
<1>. QED BY <1>1, <1>2, <1>3, <1>4, <1>5, <1>6, <1>7, Zenon DEF TxNext

\* No control is copied to the second path.
LEMMA TxCopying ==
  ASSUME IInv, ProcessRecords, Sealing, Copying, TxNext, setup' = setup
  PROVE  Copying'
<1>. USE SendTables, AheadTable
<1>. DEFINE Late == {"result", "activate", "data"}
<1>1. ASSUME UNCHANGED <<next, sealed>>, tx'.pc \in Late => tx.pc \in Late
      PROVE  Copying'
  BY <1>1, Zenon DEF Copying, Setup
<1>2. ASSUME NEW f, TxOpen \/ TxRetry \/ TxVerify(f) \/ TxAck(f) \/ TxChallenge(f) \/ TxGiveUp
      PROVE  Copying'
  <2>1. UNCHANGED <<next, sealed>>
    BY <1>2, Zenon DEF TxOpen, TxRetry, TxVerify, TxAck, TxChallenge, TxGiveUp, Tx, vars, sending
  <2>2. tx'.pc \in Late => tx.pc \in Late
    <3>1. CASE TxOpen \/ TxRetry
      BY <3>1, Zenon DEF ProcessRecords, TxOpen, TxRetry, CanRetry, Tx
    <3>2. CASE TxVerify(f) \/ TxAck(f) \/ TxChallenge(f) \/ TxGiveUp
      BY <3>2, Zenon DEF ProcessRecords, TxVerify, TxAck, TxChallenge, TxGiveUp, Tx, TxFail
    <3>. QED BY <1>2, <3>1, <3>2, Zenon
  <2>. QED BY <1>1, <2>1, <2>2, Zenon
<1>3. ASSUME NEW f, TxIssue \/ TxTransmit \/ TxResult(f) \/ TxActivate
      PROVE  Copying'
  <2>1. UNCHANGED <<next, sealed>>
    BY <1>3, Zenon DEF TxIssue, IssueOwner, TxTransmit, Transmit, TxResult, MintAdmission,
                       TxActivate, Activate, Tx, vars, sending
  <2>2. tx'.pc \in Late => tx.pc \in Late
    <3>1. CASE TxIssue \/ TxTransmit
      BY <3>1, Zenon DEF ProcessRecords, TxIssue, TxTransmit
    <3>2. CASE TxResult(f) \/ TxActivate
      BY <3>2, Zenon DEF TxResult, TxActivate
    <3>. QED BY <1>3, <3>1, <3>2, Zenon
  <2>. QED BY <1>1, <2>1, <2>2, Zenon
<1>4. CASE TxExit
  <2>1. tx'.pc \in {"ok", "failed"}
    BY <1>4 DEF ProcessRecords, TxExit
  <2>2. UNCHANGED sealed
    BY <1>4, Zenon DEF TxExit, Close, Release
  <2>. QED BY <2>1, <2>2 DEF Copying, Setup
<1>5. CASE TxConfirm
  <2>1. /\ UNCHANGED <<next, sealed>> /\ tx.step # "seal" /\ tx.pc \in DOMAIN Sends
        /\ tx'.pc \in {tx.pc, AfterSend[tx.pc]}
    BY <1>5, Zenon DEF ProcessRecords, TxConfirm, ConfirmSent
  <2>2. CASE tx.pc = "response"
    <3>1. next = Setup.seed + 2 + 1 /\ Setup.seed \in Nat
      BY <2>1, <2>2, ControlIds, SMTT(30) DEF Sealing
    <3>2. next' > Setup'.seed + 2
      BY <2>1, <3>1 DEF Setup
    <3>. QED BY <2>1, <3>2, Zenon DEF Copying, Setup
  <2>3. CASE tx.pc # "response"
    <3>1. tx'.pc \in Late => tx.pc \in Late
      BY <2>1, <2>3
    <3>. QED BY <1>1, <2>1, <3>1, Zenon
  <2>. QED BY <2>2, <2>3, Zenon
<1>6. CASE TxSeal
  <2>1. tx'.pc = tx.pc /\ tx.pc \in DOMAIN Sends /\ Outbound
    BY <1>6 DEF ProcessRecords, TxSeal
  <2>2. next' = next + 1 /\ next \in 1 .. U64_MAX /\ Setup' = Setup
    BY <2>1, Zenon DEF Outbound, IInv, TypeOK, Setup
  <2>3. \A p \in sealed' : p \in sealed \/ (p.slot \in ActiveSlots("S") /\ p.id = next)
    BY <2>1 DEF Outbound, Copy
  <2>4. ASSUME 1 \in ActiveSlots("S") PROVE tx.pc = "data"
    BY <2>1, <2>4, SMTT(30) DEF Sealing, ActiveSlots
  <2>5. /\ Setup.seed \in Nat
        /\ Setup.controls = {Setup.seed, Setup.seed + 1, Setup.seed + 2}
    BY ControlIds, Zenon
  <2>6. tx.pc = "data" => next > Setup.seed + 2
    BY Zenon DEF Copying
  <2>7. tx.pc = "data" => next \notin Setup.controls /\ next' > Setup.seed + 2
    BY <2>2, <2>5, <2>6
  <2>8. \A p \in sealed' : p.slot = 1 => p.id \notin Setup.controls
    BY <2>3, <2>4, <2>7, Zenon DEF Copying
  <2>9. tx'.pc \in Late => next' > Setup'.seed + 2
    BY <2>1, <2>2, <2>7
  <2>. QED BY <2>2, <2>8, <2>9, Zenon DEF Copying
<1>. QED BY <1>2, <1>3, <1>4, <1>5, <1>6, Zenon DEF TxNext

\* A frame with a control carries the id of its place.
LEMMA TxFrameIds ==
  ASSUME IInv, Sealing, FrameIds, AddsFrames, setup' = setup
  PROVE  FrameIds'
<1>. USE SendTables, AheadTable, PlaceTable
<1>1. ASSUME NEW f \in wire', f.packet # None, f.type \in DOMAIN Place
      PROVE  f.packet.id = Setup.seed + Place[f.type]
  <2>1. CASE f \in wire
    BY <1>1, <2>1, Zenon DEF FrameIds
  <2>2. CASE f \notin wire
    <3>1. /\ tx.pc \in DOMAIN Sends /\ tx.step # "seal"
          /\ f.type = Sends[tx.pc] /\ f.packet = Head(queue[NextSlot])
      BY <1>1, <2>2 DEF AddsFrames
    <3>2. tx.pc \in {"update", "probe", "response"} /\ Place[f.type] = Ahead[tx.pc]
      BY <1>1, <3>1, SMTT(30)
    <3>3. PICK p : queue[0] = <<p>> /\ p.id = Setup.seed + Ahead[tx.pc]
      BY <3>1, <3>2, SMTT(30) DEF Sealing
    <3>4. f.packet = p
      BY <3>1, <3>3 DEF NextSlot
    <3>. QED BY <3>2, <3>3, <3>4
  <2>. QED BY <2>1, <2>2
<1>. QED BY <1>1, Zenon DEF FrameIds, Setup

-----------------------------------------------------------------------------
(* What `receive` has done *)

\* Controls committed before a stage of `receive`
Done == [update |-> 0, probe |-> 1, challenge |-> 2, response |-> 2,
         settled |-> 3, admit |-> 3, activate |-> 3]

\* The stages in which no result was sent yet
Early == {"listen", "auth", "accept", "issue", "update", "probe", "challenge",
          "response", "settled"}

\* The session lives as long as the process; a step is taken within a call
\* only, and only then is a preview outstanding.
Calling ==
  /\ rx.pc \notin {"ok", "failed"} => live["R"]
  /\ rx.step = "take" => lease = None
  /\ rx.pc \notin DOMAIN RxControls \cup DOMAIN SlotOf => rx.step = "take"
  /\ \A h \in Holder :
       preview[h] # None /\ preview[h].mobility => preview[h].packet.id \in Setup.controls

\* While the candidate is proved, the controls up to the stage were accepted,
\* the one in a preview is the next, and the admission is on its way.
Proving ==
  rx.pc \in DOMAIN Done =>
    /\ \A i \in 0 .. 2 : i < Done[rx.pc] => Setup.seed + i \in AcceptedIds
    /\ path["R"][1] = "Absent" /\ issuer["R"]
    /\ owner["R"] = IF rx.pc = "activate" THEN "Admission" ELSE "Manager"
    /\ rx.step # "take" =>
         \A h \in Holder : lease = h => preview[h].packet.id = Setup.seed + Done[rx.pc]

\* One delivery, which was on both paths, reached the application.
Succeeded ==
  \E id \in Id \ Setup.controls :
    /\ deliveries[id] = 1
    /\ \A s \in Slot : \E p \in net : p.slot = s /\ p.id = id

\* The two copies: the first is the only delivery, the second must be known.
\* The controls were accepted before, so a copy with the id of one is known.
Delivering ==
  /\ rx.pc \in Early \cup {"admit", "activate", "first", "second", "deliver"} =>
       AcceptedIds \subseteq Setup.controls
  /\ rx.pc \in {"first", "second", "deliver", "suppress"} => Setup.controls \subseteq AcceptedIds
  /\ rx.pc \in {"first", "second", "deliver", "suppress", "pass"} => path["R"][1] = "Active"
  /\ rx.pc \in DOMAIN SlotOf /\ rx.step # "take" =>
       /\ CopyOf[rx.pc] # None /\ CopyOf[rx.pc].slot = SlotOf[rx.pc]
       /\ \A h \in Holder : lease = h => preview[h].packet = CopyOf[rx.pc]
  /\ rx.pc = "suppress" =>
       /\ rx.first \in net /\ rx.first.slot = 0 /\ rx.first.id \notin Setup.controls
       /\ deliveries[rx.first.id] = 1
       /\ AcceptedIds \subseteq Setup.controls \cup {rx.first.id}
  /\ rx.pc \in {"pass", "ok"} => Succeeded
  /\ \A id \in Setup.controls : deliveries[id] = 0

\* The result was sent.
Won ==
  \/ path["S"][1] = "Active" \/ tx.pc = "activate"
  \/ \E f \in wire : f.type = "CandidateResult"

Winning ==
  Won => /\ Setup.controls \subseteq AcceptedIds
         /\ rx.pc \notin Early
         /\ live["R"] => path["R"][1] = "Active" \/ rx.pc \in {"admit", "activate"}

Stages == Sealing /\ Copying /\ FrameIds /\ Calling /\ Proving /\ Delivering /\ Winning

\* `send` disturbs none of it.
LEMMA TxKeepsReceiver ==
  ASSUME LeavesReceiver, Calling, Proving, Delivering
  PROVE  Calling' /\ Proving' /\ Delivering'
<1>. USE DEF LeavesReceiver
<1>1. Setup' = Setup /\ AcceptedIds' = AcceptedIds /\ CopyOf' = CopyOf
  BY Zenon DEF Setup, AcceptedIds, CopyOf
<1>2. Calling'
  BY <1>1, Zenon DEF Calling
<1>3. Proving'
  BY <1>1, Zenon DEF Proving
<1>4. ASSUME Succeeded PROVE Succeeded'
  <2>1. PICK id \in Id \ Setup.controls :
          deliveries[id] = 1 /\ \A s \in Slot : \E p \in net : p.slot = s /\ p.id = id
    BY <1>4, Zenon DEF Succeeded
  <2>2. \A s \in Slot : \E p \in net' : p.slot = s /\ p.id = id
    BY <2>1, Zenon
  <2>3. deliveries'[id] = 1 /\ id \in Id \ Setup'.controls
    BY <1>1, <2>1, Zenon
  <2>. QED BY <2>2, <2>3, Zenon DEF Succeeded
<1>5. Delivering'
  BY <1>1, <1>4, Zenon DEF Delivering
<1>. QED BY <1>2, <1>3, <1>5, Zenon

\* `send` learns that the result was sent only from the result.
LEMMA TxWinning ==
  ASSUME IInv, ProcessRecords, TxNext, AddsFrames, LeavesReceiver, Winning
  PROVE  Winning'
<1>. USE SendTables
<1>1. (\E f \in wire' : f.type = "CandidateResult") => Won
  BY DEF AddsFrames, Won
<1>2. ASSUME UNCHANGED path, tx'.pc # "activate" \/ tx.pc = "activate", Won' PROVE Won
  BY <1>1, <1>2, Zenon DEF Won
<1>3. ASSUME Won' PROVE Won
  <2>1. ASSUME NEW f, TxOpen \/ TxRetry \/ TxVerify(f) \/ TxAck(f) \/ TxChallenge(f) \/ TxGiveUp
        PROVE  Won
    <3>1. UNCHANGED path
      BY <2>1, Zenon DEF TxOpen, TxRetry, TxVerify, TxAck, TxChallenge, TxGiveUp, Tx, vars
    <3>2. tx'.pc # "activate"
      <4>1. CASE TxOpen \/ TxRetry
        BY <4>1, Zenon DEF ProcessRecords, TxOpen, TxRetry, CanRetry, Tx
      <4>2. CASE TxVerify(f) \/ TxAck(f) \/ TxChallenge(f) \/ TxGiveUp
        BY <4>2, Zenon DEF ProcessRecords, TxVerify, TxAck, TxChallenge, TxGiveUp, Tx, TxFail
      <4>. QED BY <2>1, <4>1, <4>2, Zenon
    <3>. QED BY <1>2, <1>3, <3>1, <3>2, Zenon
  <2>2. ASSUME TxIssue \/ TxSeal \/ TxTransmit \/ TxConfirm PROVE Won
    <3>1. UNCHANGED path
      BY <2>2, Zenon DEF TxIssue, IssueOwner, TxSeal, Outbound, TxTransmit, Transmit,
                         TxConfirm, ConfirmSent
    <3>2. tx'.pc # "activate"
      <4>1. CASE TxIssue \/ TxSeal \/ TxTransmit
        BY <4>1, Zenon DEF ProcessRecords, TxIssue, TxSeal, TxTransmit
      <4>2. CASE TxConfirm
        <5>1. tx.pc \in DOMAIN Sends /\ tx'.pc \in {tx.pc, AfterSend[tx.pc]}
          BY <4>2 DEF ProcessRecords, TxConfirm
        <5>. QED BY <5>1
      <4>. QED BY <2>2, <4>1, <4>2, Zenon
    <3>. QED BY <1>2, <1>3, <3>1, <3>2, Zenon
  <2>3. ASSUME NEW f \in wire, TxResult(f) PROVE Won
    <3>1. CASE TxOpens(f, "CandidateResult")
      BY <3>1, Zenon DEF TxOpens, Won
    <3>2. CASE ~TxOpens(f, "CandidateResult")
      <4>1. UNCHANGED path
        BY <2>3, <3>2, Zenon DEF TxResult, Tx, vars
      <4>2. tx'.pc = "quit"
        BY <2>3, <3>2 DEF ProcessRecords, TxResult, Tx, TxFail
      <4>. QED BY <1>2, <1>3, <4>1, <4>2
    <3>. QED BY <3>1, <3>2, Zenon
  <2>4. CASE TxActivate
    BY <2>4, Zenon DEF TxActivate, Won
  <2>5. CASE TxExit
    <3>1. path' = [path EXCEPT !["S"] = [s \in Slot |-> "Released"]]
      BY <2>5, Zenon DEF TxExit, Close, Release
    <3>2. path'["S"][1] = "Released"
      BY <3>1, PerEnd DEF Slot
    <3>3. tx'.pc \in {"ok", "failed"}
      BY <2>5 DEF ProcessRecords, TxExit
    <3>. QED BY <1>1, <1>3, <3>2, <3>3 DEF Won
  <2>. QED BY <2>1, <2>2, <2>3, <2>4, <2>5, Zenon DEF TxNext, Receivable
<1>4. Setup' = Setup /\ AcceptedIds' = AcceptedIds
  BY Zenon DEF LeavesReceiver, Setup, AcceptedIds
<1>. QED BY <1>3, <1>4, Zenon DEF Winning, LeavesReceiver

\* What is seen in the window was accepted.
LEMMA SeenAccepted ==
  ASSUME IInv, live["R"], NEW id \in Id, Seen(window, id)
  PROVE  id \in AcceptedIds
<1>. DEFINE b == window.prints[Index(id)]
<1>1. /\ window.high \in 0 .. U64_MAX - 1
      /\ window.prints \in [0 .. DELIVERED_WINDOW_IDS - 1 -> 0 .. U64_MAX]
      /\ Remembers(window, accepted)
  BY DEF IInv, TypeOK, AcceptedRemembered
<1>2. id \in Positive /\ id \in Nat
  BY Numbers
<1>3. Index(id) \in 0 .. DELIVERED_WINDOW_IDS - 1
  BY <1>2, IndexType
<1>4. b \in 0 .. U64_MAX /\ b # NoPrint
  BY <1>1, <1>3, Zenon DEF Seen
<1>5. b \in Positive
  BY <1>4, Numbers, Zenon
<1>6. window.high - id \in 0 .. DELIVERED_WINDOW_IDS - 1
  BY <1>1, <1>2, WindowAssumption DEF Seen
<1>7. [id |-> id, bytes |-> b] \in accepted
  BY <1>1, <1>2, <1>5, <1>6, Zenon DEF Remembers
<1>8. [id |-> id, bytes |-> b].id = id
  OBVIOUS
<1>. QED BY <1>7, <1>8, Zenon DEF AcceptedIds

\* A commit accepts the id of its preview, new or known.
LEMMA CommitAccepts ==
  ASSUME IInv, NEW h \in Holder, Commits(h)
  PROVE  /\ preview[h].packet.id \in Id
         /\ AcceptedIds' = AcceptedIds \cup {preview[h].packet.id}
         /\ preview[h].decision # "New" => preview[h].packet.id \in AcceptedIds
         /\ preview[h].decision = "New" =>
              deliveries[preview[h].packet.id] = 0 /\ preview[h].packet.id \notin AcceptedIds
<1>. DEFINE v == preview[h]
            id == v.packet.id
            new == [id |-> id, bytes |-> v.packet.bytes]
<1>1. id \in Id /\ (v.decision = "New" <=> ~Seen(window, id)) /\ live["R"]
  BY CommittedPreview, Zenon DEF Commits
<1>2. /\ v.decision # "New" => accepted' = accepted
      /\ v.decision = "New" => /\ accepted' = accepted \cup {new} /\ deliveries[id] = 0
                               /\ \A a \in accepted : a.id # id
  BY CommittedWindow, CommittedDelivery, Zenon
<1>3. v.decision # "New" => id \in AcceptedIds
  BY <1>1, SeenAccepted, Zenon
<1>4. new.id = id
  OBVIOUS
<1>. HIDE DEF id, new, v
<1>5. AcceptedIds' = AcceptedIds \cup {id}
  <2>1. CASE v.decision = "New"
    BY <1>2, <1>4, <2>1 DEF AcceptedIds
  <2>2. CASE v.decision # "New"
    BY <1>2, <1>3, <2>2, SMTT(30) DEF AcceptedIds
  <2>. QED BY <2>1, <2>2
<1>6. v.decision = "New" => id \notin AcceptedIds
  BY <1>2, Zenon DEF AcceptedIds
<1>. QED BY <1>1, <1>2, <1>3, <1>5, <1>6, Zenon DEF id, v

LEMMA DoneTable ==
  /\ DOMAIN Done = {"update", "probe", "challenge", "response", "settled", "admit", "activate"}
  /\ Done["update"] = 0 /\ Done["probe"] = 1 /\ Done["challenge"] = 2
  /\ Done["response"] = 2 /\ Done["settled"] = 3 /\ Done["admit"] = 3 /\ Done["activate"] = 3
BY SMTT(30) DEF Done

LEMMA RxTables ==
  /\ DOMAIN RxControls = {"update", "probe", "response"}
  /\ RxControls["update"] = "LocUpdate" /\ RxControls["probe"] = "BindProbe"
  /\ RxControls["response"] = "BindResponse"
  /\ AfterCommit["update"] = "probe" /\ AfterCommit["probe"] = "challenge"
  /\ AfterCommit["response"] = "settled"
  /\ DOMAIN SlotOf = {"deliver", "suppress"}
  /\ SlotOf["deliver"] = 0 /\ SlotOf["suppress"] = 1
  /\ CopyOf["deliver"] = rx.first /\ CopyOf["suppress"] = rx.second
BY DEF RxControls, AfterCommit, SlotOf, CopyOf

\* A receive in progress: no call is, and what arrives ends it or moves it on.
LEMMA Waiting ==
  ASSUME NEW f \in Receivable("R")
  PROVE  f \in wire /\ rx.step = "take"
BY DEF Receivable, Readable, RxWaiting
Received == Calling' /\ Proving' /\ Delivering' /\ Winning'

\* The result is sent in one step; later ones keep what it stands for.
LEMMA RxWins ==
  ASSUME Winning, LeavesSender, AnswersFrames, AcceptedIds \subseteq AcceptedIds',
         rx.pc = "settled" => rx'.pc = "admit" /\ Setup.controls \subseteq AcceptedIds,
         rx.pc \notin Early => rx'.pc \notin Early,
         rx.pc \notin Early /\ live'["R"] =>
           \/ path'["R"][1] = "Active" \/ rx'.pc \in {"admit", "activate"}
           \/ ~(path["R"][1] = "Active" \/ rx.pc \in {"admit", "activate"}) /\ live["R"]
  PROVE  Winning'
<1>1. Setup' = Setup /\ path'["S"] = path["S"] /\ tx' = tx
  BY Zenon DEF LeavesSender, Setup
<1>2. Won' => Won \/ rx.pc = "settled"
  BY <1>1 DEF AnswersFrames, Won
<1>3. CASE rx.pc = "settled"
  BY <1>1, <1>3 DEF Winning, Early
<1>4. CASE rx.pc # "settled"
  BY <1>1, <1>2, <1>4, Zenon DEF Winning
<1>. QED BY <1>3, <1>4

\* A step that leaves the session alone and ends the process
LEMMA RxFails ==
  ASSUME Stages, LeavesSender, AnswersFrames, UNCHANGED vars,
         rx.pc # "settled", rx.pc \notin {"ok", "failed"}, rx.step = "take",
         rx.pc \notin {"admit", "activate"},
         rx'.pc = "quit", rx'.step = "take"
  PROVE  Received
<1>1. UNCHANGED <<live, path, lease, preview, deliveries, accepted, setup>>
  BY Zenon DEF vars, receiving
<1>2. Setup' = Setup /\ AcceptedIds' = AcceptedIds
  BY <1>1, Zenon DEF Setup, AcceptedIds
<1>. USE <1>1, <1>2
<1>3. Calling'
  BY DEF Stages, Calling
<1>4. Proving'
  BY DoneTable, Zenon DEF Proving
<1>5. Delivering'
  BY Zenon DEF Stages, Delivering, Early
<1>6. Winning'
  BY RxWins DEF Stages, Early
<1>. QED BY <1>3, <1>4, <1>5, <1>6, Zenon DEF Received

\* receive_open, receive_open_auth, receive_accept
LEMMA RxShakeStages ==
  ASSUME ProcessRecords, Stages, LeavesSender, AnswersFrames,
         NEW f \in Receivable("R"), RxShake(f)
  PROVE  Received
<1>1. rx.pc \in {"listen", "auth", "accept"} /\ UNCHANGED vars /\ rx.step = "take"
  BY Waiting DEF RxShake, RxShakes, Rx
<1>2. rx'.step = "take" /\ rx'.pc \in {"auth", "accept", "issue", "quit"}
  <2>1. RxShakes[rx.pc].next \in {"auth", "accept", "issue"}
    BY <1>1 DEF RxShakes
  <2>2. rx'.step = rx.step /\ rx'.pc \in {RxShakes[rx.pc].next, "quit"}
    BY Zenon DEF RxShake, Rx, RxFail, ProcessRecords
  <2>. QED BY <1>1, <2>1, <2>2, Zenon
<1>3. CASE rx'.pc = "quit"
  BY <1>1, <1>2, <1>3, RxFails
<1>4. CASE rx'.pc # "quit"
  <2>1. UNCHANGED <<live, path, lease, preview, deliveries, accepted, setup>>
    BY <1>1, Zenon DEF vars, receiving
  <2>2. Setup' = Setup /\ AcceptedIds' = AcceptedIds
    BY <2>1, Zenon DEF Setup, AcceptedIds
  <2>. USE <1>1, <1>2, <1>4, <2>1, <2>2
  <2>3. Calling'
    BY DEF Stages, Calling
  <2>4. Proving'
    BY DoneTable, Zenon DEF Proving
  <2>5. Delivering'
    BY Zenon DEF Stages, Delivering, Early
  <2>6. Winning'
    BY RxWins DEF Stages, Early
  <2>. QED BY <2>3, <2>4, <2>5, <2>6, Zenon DEF Received
<1>. QED BY <1>3, <1>4

\* issue_profile3_admission_owner
LEMMA RxIssueStages ==
  ASSUME IInv, ProcessRecords, Stages, LeavesSender, AnswersFrames, RxIssue
  PROVE  Received
<1>1. rx.pc = "issue" /\ rx'.pc = "update" /\ rx'.step = rx.step
  BY DEF RxIssue, ProcessRecords
<1>2. UNCHANGED <<live, path, lease, preview, deliveries, accepted, setup>>
  BY Zenon DEF RxIssue, IssueOwner, receiving
<1>3. path["R"][1] = "Absent" /\ issuer'["R"] /\ owner'["R"] = "Manager"
  BY PerEnd DEF RxIssue, IssueOwner
<1>4. Setup' = Setup /\ AcceptedIds' = AcceptedIds
  BY <1>2, Zenon DEF Setup, AcceptedIds
<1>5. rx.step = "take"
  BY <1>1, RxTables, Zenon DEF Stages, Calling
<1>. USE <1>1, <1>2, <1>3, <1>4, <1>5
<1>6. Calling'
  BY SMTT(30) DEF Stages, Calling
<1>7. Proving'
  BY DoneTable, SMTT(30) DEF Proving
<1>8. Delivering'
  BY Zenon DEF Stages, Delivering, Early
<1>9. Winning'
  BY RxWins DEF Stages, Early
<1>. QED BY <1>6, <1>7, <1>8, <1>9, Zenon DEF Received

\* preview_mobility_inbound
LEMMA RxPreviewStages ==
  ASSUME IInv, ProcessRecords, Stages, LeavesSender, AnswersFrames,
         NEW f \in Receivable("R"), RxPreview(f)
  PROVE  Received
<1>1. f \in wire /\ rx.step = "take" /\ rx.pc \in {"update", "probe", "response"}
  BY Waiting, RxTables DEF RxPreview
<1>2. CASE UNCHANGED vars /\ rx' = RxFail
  <2>1. rx'.pc = "quit" /\ rx'.step = "take"
    BY <1>1, <1>2 DEF RxFail, ProcessRecords
  <2>. QED BY <1>1, <1>2, <2>1, RxFails
<1>3. ASSUME NEW h \in Holder, PreviewInbound(h, f.packet), f.packet # None,
             f.type = RxControls[rx.pc], rx' = [rx EXCEPT !.step = "prepare"]
      PROVE  Received
  <2>1. rx'.pc = rx.pc /\ rx'.step = "prepare"
    BY <1>3, SMTT(30) DEF ProcessRecords
  <2>2. f.packet.id = Setup.seed + Done[rx.pc]
    BY <1>1, <1>3, RxTables, DoneTable, PlaceTable DEF Stages, FrameIds
  <2>3. UNCHANGED <<live, path, issuer, owner, deliveries, accepted, setup>> /\ lease' = h
    BY <1>3, Zenon DEF PreviewInbound, admission
  <2>4. preview' = [preview EXCEPT ![h] =
          [packet |-> f.packet, token |-> Token(replay[f.packet.slot], f.packet.counter),
           decision |-> IF Known(f.packet) THEN "Equal" ELSE "New",
           at |-> now, mobility |-> FALSE, active |-> TRUE]]
    BY <1>3, Zenon DEF PreviewInbound
  <2>5. DOMAIN preview = Holder
    BY ZenonT(40) DEF IInv, TypeOK
  <2>6. /\ preview'[h].packet = f.packet /\ preview'[h].mobility = FALSE
        /\ \A k \in Holder : k # h => preview'[k] = preview[k]
    BY <2>4, <2>5
  <2>7. Setup' = Setup /\ AcceptedIds' = AcceptedIds
    BY <2>3, ZenonT(40) DEF Setup, AcceptedIds
  <2>. USE <1>1, <2>1, <2>2, <2>3, <2>6, <2>7
  <2>8. Calling'
    <3>1. \A k \in Holder : preview'[k] # None /\ preview'[k].mobility =>
            preview'[k].packet.id \in Setup.controls
      BY Zenon DEF Stages, Calling
    <3>. QED BY <3>1, RxTables DEF Stages, Calling
  <2>9. Proving'
    <3>1. preview'[h].packet.id = Setup.seed + Done[rx.pc]
      BY Zenon
    <3>2. \A k \in Holder : lease' = k => preview'[k].packet.id = Setup.seed + Done[rx.pc]
      BY <3>1, Zenon
    <3>. QED BY <3>2, Zenon DEF Stages, Proving
  <2>10. Delivering'
    BY RxTables, ZenonT(40) DEF Stages, Delivering, Early
  <2>11. Winning'
    BY RxWins DEF Stages, Early
  <2>. QED BY <2>8, <2>9, <2>10, <2>11, Zenon DEF Received
<1>. QED BY <1>2, <1>3, Zenon DEF RxPreview, Rx, RxOpens

\* prepare_mobility_commit
LEMMA RxPrepareStages ==
  ASSUME IInv, ProcessRecords, Stages, LeavesSender, AnswersFrames, RxPrepare
  PROVE  Received
<1>1. PICK h \in Holder : PrepareMobility(h)
  BY Zenon DEF RxPrepare
<1>2. /\ rx.pc \in {"update", "probe", "response"} /\ rx.step = "prepare"
      /\ rx'.pc = rx.pc /\ rx'.step = "commit"
  BY RxTables DEF RxPrepare, ProcessRecords
<1>3. /\ UNCHANGED <<live, path, issuer, owner, lease, deliveries, accepted, setup>>
      /\ preview[h].packet.id \in Setup.controls /\ preview[h] # None
      /\ preview' = [preview EXCEPT ![h].mobility = TRUE]
  BY <1>1, Zenon DEF PrepareMobility, admission, Accepts
<1>4. preview \in [Holder -> PreviewType \cup {None}]
  BY Zenon DEF IInv, TypeOK
<1>5. /\ preview'[h].packet = preview[h].packet
      /\ \A k \in Holder : k # h => preview'[k] = preview[k]
  <2>1. preview[h] \in PreviewType
    BY <1>3, <1>4, Zenon
  <2>2. preview'[h] = [preview[h] EXCEPT !.mobility = TRUE]
    BY <1>3, <1>4, Zenon
  <2>3. preview'[h].packet = preview[h].packet
    BY <2>1, <2>2 DEF PreviewType
  <2>. QED BY <1>3, <1>4, <2>3, Zenon
<1>6. Setup' = Setup /\ AcceptedIds' = AcceptedIds
  BY <1>3, Zenon DEF Setup, AcceptedIds
<1>. USE <1>2, <1>3, <1>5, <1>6
<1>7. Calling'
  <2>1. \A k \in Holder : preview'[k] # None /\ preview'[k].mobility =>
          preview'[k].packet.id \in Setup.controls
    BY Zenon DEF Stages, Calling
  <2>. QED BY <2>1 DEF Stages, Calling
<1>8. Proving'
  <2>1. rx.step # "take" /\ rx'.step # "take" /\ rx.pc \in DOMAIN Done
    BY DoneTable, SMTT(30)
  <2>2. \A k \in Holder : lease = k => preview[k].packet.id = Setup.seed + Done[rx.pc]
    BY <2>1 DEF Stages, Proving
  <2>3. \A k \in Holder : preview'[k].packet = preview[k].packet
    BY Zenon
  <2>4. \A k \in Holder : lease' = k => preview'[k].packet.id = Setup.seed + Done[rx.pc]
    BY <2>2, <2>3, SMTT(30)
  <2>. QED BY <2>1, <2>4 DEF Stages, Proving
<1>9. Delivering'
  BY RxTables, SMTT(30) DEF Stages, Delivering, Early
<1>10. Winning'
  BY RxWins DEF Stages, Early
<1>. QED BY <1>7, <1>8, <1>9, <1>10, Zenon DEF Received

\* A commit ends the call: no preview is outstanding, the others are as before.
LEMMA CommitEnds ==
  ASSUME IInv, NEW h \in Holder, Commits(h), Calling
  PROVE  /\ lease = h /\ preview[h] # None /\ live["R"]
         /\ UNCHANGED <<live, path, issuer, owner, net, setup>> /\ lease' = None
         /\ Setup' = Setup /\ AcceptedIds \subseteq AcceptedIds'
         /\ \A k \in Holder : preview'[k] # None /\ preview'[k].mobility =>
              preview'[k].packet.id \in Setup.controls
<1>1. /\ lease = h /\ preview[h] # None /\ live["R"] /\ lease' = None
      /\ UNCHANGED <<live, path, issuer, owner, net, setup>>
      /\ preview' = [preview EXCEPT ![h] = None]
  BY Zenon DEF Commits, Accepts
<1>2. DOMAIN preview = Holder
  BY Zenon DEF IInv, TypeOK
<1>3. \A k \in Holder : preview'[k] # None => preview'[k] = preview[k]
  BY <1>1, <1>2, SMTT(30)
<1>4. \A k \in Holder : preview'[k] # None /\ preview'[k].mobility =>
        preview'[k].packet.id \in Setup.controls
  BY <1>3, SMTT(30) DEF Calling
<1>5. AcceptedIds \subseteq AcceptedIds'
  BY CommitAccepts
<1>. QED BY <1>1, <1>4, <1>5, Zenon DEF Setup

\* commit_mobility
LEMMA RxCommitStages ==
  ASSUME IInv, ProcessRecords, Stages, LeavesSender, AnswersFrames, RxCommit
  PROVE  Received
<1>1. PICK h \in Holder : CommitMobility(h)
  BY Zenon DEF RxCommit
<1>2. Commits(h) /\ preview[h].mobility /\ UNCHANGED deliveries
  BY <1>1, Zenon DEF CommitMobility, Commits, admission, sending
<1>3. Calling
  BY DEF Stages
<1>4. rx.pc \in {"update", "probe", "response"} /\ rx.step = "commit"
  BY RxTables DEF RxCommit
<1>5. rx'.pc = AfterCommit[rx.pc] /\ rx'.step = "take"
  BY DEF RxCommit, ProcessRecords
<1>6. /\ lease = h /\ preview[h] # None /\ live["R"]
      /\ UNCHANGED <<live, path, issuer, owner, net, setup>> /\ lease' = None
      /\ Setup' = Setup /\ AcceptedIds \subseteq AcceptedIds'
      /\ \A k \in Holder : preview'[k] # None /\ preview'[k].mobility =>
           preview'[k].packet.id \in Setup.controls
  BY <1>2, <1>3, CommitEnds, Zenon
<1>7. AcceptedIds' = AcceptedIds \cup {preview[h].packet.id}
  BY <1>2, CommitAccepts, ZenonT(40)
<1>8. preview[h].packet.id = Setup.seed + Done[rx.pc]
  BY <1>4, <1>6, DoneTable DEF Stages, Proving
<1>9. preview[h].packet.id \in Setup.controls
  BY <1>2, <1>6, Zenon DEF Stages, Calling
<1>. USE <1>2, <1>4, <1>5, <1>6, <1>7, <1>8, <1>9
<1>10. Calling'
  BY Zenon DEF Calling
<1>11. Proving'
  <2>1. \A i \in 0 .. 2 : i < Done[rx.pc] => Setup.seed + i \in AcceptedIds
    BY DoneTable, SMTT(30) DEF Stages, Proving
  <2>2. \A i \in 0 .. 2 : i < Done[AfterCommit[rx.pc]] => Setup.seed + i \in AcceptedIds'
    BY <2>1, RxTables, DoneTable, SMTT(30)
  <2>. QED BY <2>2, RxTables, DoneTable, ZenonT(40) DEF Stages, Proving
<1>12. Delivering'
  <2>1. AcceptedIds' \subseteq Setup.controls
    BY ZenonT(40) DEF Stages, Delivering, Early
  <2>. QED BY <2>1, RxTables DEF Stages, Delivering, Early
<1>13. Winning'
  BY RxWins DEF Stages, Early
<1>. QED BY <1>10, <1>11, <1>12, <1>13, Zenon DEF Received

\* Once the response is committed every control is accepted.
LEMMA AllAccepted ==
  ASSUME IInv, Proving, rx.pc \in {"settled", "admit", "activate"}
  PROVE  Setup.controls \subseteq AcceptedIds
<1>1. \A i \in 0 .. 2 : Setup.seed + i \in AcceptedIds
  BY DoneTable DEF Proving
<1>2. /\ Setup.seed + 0 \in AcceptedIds /\ Setup.seed + 1 \in AcceptedIds
      /\ Setup.seed + 2 \in AcceptedIds
  BY <1>1
<1>. QED BY <1>2, ControlIds, SMTT(30)

\* send_control of the challenge, and of the result
LEMMA RxSendStages ==
  ASSUME IInv, ProcessRecords, Stages, LeavesSender, AnswersFrames, RxSend
  PROVE  Received
<1>1. /\ rx.pc \in {"challenge", "settled"} /\ rx'.step = rx.step
      /\ rx'.pc = IF rx.pc = "challenge" THEN "response" ELSE "admit"
  BY DEF RxSend, Rx, ProcessRecords
<1>2. UNCHANGED <<live, path, issuer, owner, lease, preview, deliveries, accepted, setup>>
  BY Zenon DEF RxSend, Rx, vars, admission, receiving
<1>3. Setup' = Setup /\ AcceptedIds' = AcceptedIds
  BY <1>2, ZenonT(40) DEF Setup, AcceptedIds
<1>4. rx.step = "take" /\ lease = None
  BY <1>1, RxTables DEF Stages, Calling
<1>. USE <1>1, <1>2, <1>3, <1>4
<1>5. Calling'
  BY ZenonT(40) DEF Stages, Calling
<1>6. Proving'
  <2>1. /\ rx.pc \in DOMAIN Done /\ Done[rx'.pc] = Done[rx.pc]
        /\ rx.pc # "activate" /\ rx'.pc # "activate"
    <3>1. CASE rx.pc = "challenge"
      BY <3>1, DoneTable
    <3>2. CASE rx.pc = "settled"
      BY <3>2, DoneTable
    <3>. QED BY <3>1, <3>2, Zenon
  <2>. QED BY <2>1, ZenonT(40) DEF Stages, Proving
<1>7. Delivering'
  BY ZenonT(40) DEF Stages, Delivering, Early
<1>8. Winning'
  <2>1. rx.pc = "settled" => Setup.controls \subseteq AcceptedIds
    BY AllAccepted, Zenon DEF Stages
  <2>. QED BY <2>1, RxWins, SMTT(30) DEF Stages, Early
<1>. QED BY <1>5, <1>6, <1>7, <1>8, Zenon DEF Received

\* take_profile3_admissions
LEMMA RxAdmitStages ==
  ASSUME IInv, ProcessRecords, Stages, LeavesSender, AnswersFrames, RxAdmit
  PROVE  Received
<1>1. rx.pc = "admit" /\ rx'.step = rx.step /\ rx'.pc = "activate"
  BY DEF RxAdmit, ProcessRecords
<1>2. /\ UNCHANGED <<live, path, issuer, lease, preview, deliveries, accepted, setup>>
      /\ owner' = [owner EXCEPT !["R"] = "Admission"]
  BY Zenon DEF RxAdmit, MintAdmission, receiving
<1>3. Setup' = Setup /\ AcceptedIds' = AcceptedIds
  BY <1>2, Zenon DEF Setup, AcceptedIds
<1>4. rx.step = "take" /\ lease = None
  BY <1>1, RxTables, Zenon DEF Stages, Calling
<1>. USE <1>1, <1>2, <1>3, <1>4
<1>5. Calling'
  BY ZenonT(40) DEF Stages, Calling
<1>6. Proving'
  <2>1. owner'["R"] = "Admission"
    BY PerEnd, ZenonT(40)
  <2>. QED BY <2>1, DoneTable, SMTT(30) DEF Stages, Proving
<1>7. Delivering'
  BY DEF Stages, Delivering, Early
<1>8. Winning'
  BY RxWins, Zenon DEF Stages, Early
<1>. QED BY <1>5, <1>6, <1>7, <1>8, Zenon DEF Received

\* activate: nothing is in its way.
LEMMA RxActivateStages ==
  ASSUME IInv, ProcessRecords, Stages, LeavesSender, AnswersFrames, RxActivate
  PROVE  Received
<1>1. rx.pc = "activate" /\ Activate("R")
  BY Zenon DEF RxActivate
<1>2. rx.step = "take" /\ lease = None /\ live["R"]
  BY <1>1, RxTables, ZenonT(40) DEF Stages, Calling
<1>3. CanActivate("R")
  BY <1>1, <1>2, DoneTable DEF Stages, Proving, CanActivate, LeaseActive
<1>4. rx'.pc = "first" /\ rx'.step = rx.step
  BY <1>3 DEF RxActivate, ProcessRecords
<1>5. /\ UNCHANGED <<live, preview, deliveries, accepted, setup>> /\ lease' = None
      /\ path' = [path EXCEPT !["R"][1] = "Active"]
  BY <1>1, <1>3, Zenon DEF Activate
<1>6. path'["R"][1] = "Active"
  BY <1>5, PerEnd DEF Slot
<1>7. Setup' = Setup /\ AcceptedIds' = AcceptedIds
  BY <1>5, Zenon DEF Setup, AcceptedIds
<1>. USE <1>1, <1>2, <1>4, <1>5, <1>6, <1>7
<1>8. Calling'
  BY Zenon DEF Stages, Calling
<1>9. Proving'
  BY DoneTable, Zenon DEF Proving
<1>10. Delivering'
  <2>1. Setup.controls \subseteq AcceptedIds
    BY AllAccepted, Zenon DEF Stages
  <2>. QED BY <2>1, Zenon DEF Stages, Delivering, Early
<1>11. Winning'
  BY RxWins DEF Stages, Early
<1>. QED BY <1>8, <1>9, <1>10, <1>11, Zenon DEF Received

\* Both copies are read before either is opened.
LEMMA RxReadStages ==
  ASSUME ProcessRecords, Stages, LeavesSender, AnswersFrames,
         NEW f \in Receivable("R"), RxRead(f)
  PROVE  Received
<1>1. rx.pc \in {"first", "second"} /\ UNCHANGED vars /\ rx.step = "take"
  BY Waiting DEF RxRead, Rx
<1>2. rx'.step = "take" /\ rx'.pc = IF rx.pc = "first" THEN "second" ELSE "deliver"
  BY <1>1 DEF RxRead, Rx, ProcessRecords
<1>3. UNCHANGED <<live, path, lease, preview, deliveries, accepted, setup>>
  BY <1>1, Zenon DEF vars, receiving
<1>4. Setup' = Setup /\ AcceptedIds' = AcceptedIds
  BY <1>3, Zenon DEF Setup, AcceptedIds
<1>. USE <1>1, <1>2, <1>3, <1>4
<1>5. Calling'
  BY Zenon DEF Stages, Calling
<1>6. Proving'
  BY DoneTable, Zenon DEF Proving
<1>7. Delivering'
  BY ZenonT(40) DEF Stages, Delivering, Early
<1>8. Winning'
  BY RxWins DEF Stages, Early
<1>. QED BY <1>5, <1>6, <1>7, <1>8, Zenon DEF Received

\* inbound, up to the commit
LEMMA RxInboundStages ==
  ASSUME IInv, ProcessRecords, Stages, LeavesSender, AnswersFrames, RxInbound
  PROVE  Received
<1>1. rx.pc \in {"deliver", "suppress"} /\ rx.step = "take"
  BY RxTables DEF RxInbound
<1>2. CASE UNCHANGED vars /\ rx' = RxFail
  <2>1. rx'.pc = "quit" /\ rx'.step = "take"
    BY <1>1, <1>2 DEF RxFail, ProcessRecords
  <2>. QED BY <1>1, <1>2, <2>1, RxFails
<1>3. ASSUME NEW h \in Holder, PreviewInbound(h, CopyOf[rx.pc]),
             RxOpens(CopyOf[rx.pc], SlotOf[rx.pc]), rx' = [rx EXCEPT !.step = "commit"]
      PROVE  Received
  <2>1. rx'.pc = rx.pc /\ rx'.step = "commit" /\ rx'.first = rx.first /\ rx'.second = rx.second
    BY <1>3 DEF ProcessRecords
  <2>. DEFINE p == CopyOf[rx.pc]
  <2>2. p # None /\ p.slot = SlotOf[rx.pc]
    BY <1>3, Zenon DEF RxOpens
  <2>3. CopyOf' = CopyOf
    BY <2>1, Zenon DEF CopyOf
  <2>. HIDE DEF p
  <2>4. /\ UNCHANGED <<live, path, net, deliveries, accepted, setup>> /\ lease' = h
        /\ preview' = [preview EXCEPT ![h] =
             [packet |-> p, token |-> Token(replay[p.slot], p.counter),
              decision |-> IF Known(p) THEN "Equal" ELSE "New",
              at |-> now, mobility |-> FALSE, active |-> TRUE]]
    BY <1>3, Zenon DEF PreviewInbound, p
  <2>5. DOMAIN preview = Holder
    BY ZenonT(40) DEF IInv, TypeOK
  <2>6. /\ preview'[h].packet = p /\ preview'[h].mobility = FALSE
        /\ \A k \in Holder : k # h => preview'[k] = preview[k]
    BY <2>4, <2>5
  <2>7. Setup' = Setup /\ AcceptedIds' = AcceptedIds
    BY <2>4, ZenonT(40) DEF Setup, AcceptedIds
  <2>. USE <1>1, <2>1, <2>2, <2>3, <2>4, <2>6, <2>7
  <2>8. Calling'
    <3>1. \A k \in Holder : preview'[k] # None /\ preview'[k].mobility =>
            preview'[k].packet.id \in Setup.controls
      BY ZenonT(40) DEF Stages, Calling
    <3>. QED BY <3>1, RxTables DEF Stages, Calling
  <2>9. Proving'
    BY DoneTable DEF Proving
  <2>10. Delivering'
    <3>1. /\ CopyOf'[rx'.pc] # None /\ CopyOf'[rx'.pc].slot = SlotOf[rx'.pc]
          /\ \A k \in Holder : lease' = k => preview'[k].packet = CopyOf'[rx'.pc]
      BY ZenonT(40) DEF p
    <3>. QED BY <3>1, Zenon DEF Stages, Delivering, Early
  <2>11. Winning'
    BY RxWins DEF Stages, Early
  <2>. QED BY <2>8, <2>9, <2>10, <2>11, Zenon DEF Received
<1>. QED BY <1>2, <1>3, Zenon DEF RxInbound, Rx

\* The application receives a new delivery, and never a control.
LEMMA InboundDelivers ==
  ASSUME IInv, NEW h \in Holder, CommitInbound(h), Delivering, Setup.controls \subseteq Id,
         rx.pc \in {"deliver", "suppress"}
  PROVE  LET v == preview[h]
         IN  /\ v.decision = "New" => /\ v.packet.id \notin Setup.controls
                                      /\ deliveries'[v.packet.id] = 1
             /\ v.decision # "New" => deliveries' = deliveries
             /\ \A id \in Setup.controls : deliveries'[id] = 0
<1>. DEFINE v == preview[h]
            id == v.packet.id
<1>1. Commits(h) /\ Setup.controls \subseteq AcceptedIds
  BY InboundCommits, Zenon DEF Delivering
<1>2. /\ id \in Id
      /\ v.decision = "New" => deliveries[id] = 0 /\ id \notin Setup.controls
  BY <1>1, CommitAccepts, Zenon
<1>3. deliveries' = IF v.decision = "New"
                    THEN [deliveries EXCEPT ![id] = deliveries[id] + 1] ELSE deliveries
  BY Zenon DEF CommitInbound, Delivered
<1>4. deliveries \in [Id -> Nat] /\ \A i \in Setup.controls : deliveries[i] = 0
  BY Zenon DEF IInv, TypeOK, Delivering
<1>. HIDE DEF id, v
<1>5. v.decision = "New" => deliveries'[id] = 1
  BY <1>2, <1>3, <1>4, SMTT(30)
<1>6. \A i \in Setup.controls : deliveries'[i] = 0
  BY <1>2, <1>3, <1>4
<1>. QED BY <1>2, <1>3, <1>5, <1>6, Zenon DEF id, v

\* commit_inbound: the first copy delivers, the second must be known, and only
\* the first delivery is.
LEMMA RxDeliverStages ==
  ASSUME IInv, ProcessRecords, Stages, LeavesSender, AnswersFrames, RxDeliver
  PROVE  Received
<1>1. PICK h \in Holder :
        /\ CommitInbound(h)
        /\ rx' = [rx EXCEPT !.pc = AfterInbound(preview[h].decision), !.step = "take"]
  BY Zenon DEF RxDeliver
<1>. DEFINE p == preview[h].packet
            decision == preview[h].decision
<1>2. rx.pc \in {"deliver", "suppress"} /\ rx.step = "commit"
  BY RxTables DEF RxDeliver
<1>3. Calling /\ Delivering /\ Setup.controls \subseteq Id
  BY ControlIds, Zenon DEF Stages
<1>4. Commits(h)
  BY <1>1, InboundCommits
<1>5. /\ lease = h /\ preview[h] # None /\ live["R"]
      /\ UNCHANGED <<live, path, net, setup>> /\ lease' = None
      /\ Setup' = Setup /\ AcceptedIds \subseteq AcceptedIds'
      /\ \A k \in Holder : preview'[k] # None /\ preview'[k].mobility =>
           preview'[k].packet.id \in Setup.controls
  BY <1>3, <1>4, CommitEnds, Zenon
<1>6. /\ p.id \in Id /\ AcceptedIds' = AcceptedIds \cup {p.id}
      /\ decision # "New" => p.id \in AcceptedIds
  BY <1>4, CommitAccepts, Zenon
<1>7. /\ decision = "New" => p.id \notin Setup.controls /\ deliveries'[p.id] = 1
      /\ decision # "New" => deliveries' = deliveries
      /\ \A id \in Setup.controls : deliveries'[id] = 0
  BY <1>1, <1>2, <1>3, InboundDelivers, Zenon
<1>8. p \in net /\ (p.slot = 1 => p.id \notin Setup.controls)
  BY <1>4, CommittedPreview, Zenon DEF Stages, Copying
<1>9. p = CopyOf[rx.pc] /\ p.slot = SlotOf[rx.pc]
  BY <1>2, <1>3, <1>5, RxTables, Zenon DEF Delivering
<1>10. /\ rx'.step = "take" /\ rx'.first = rx.first
       /\ rx'.pc = AfterInbound(decision)
  BY <1>1 DEF ProcessRecords
<1>. HIDE DEF p, decision
<1>11. \/ rx.pc = "deliver" /\ decision = "New" /\ rx'.pc = "suppress"
       \/ rx.pc = "suppress" /\ decision = "Equal" /\ rx'.pc = "pass"
       \/ rx'.pc = "quit"
  BY <1>2, <1>10, Zenon DEF AfterInbound
<1>12. Calling'
  BY <1>5, <1>10, <1>11, Zenon DEF Calling
<1>13. Proving'
  BY <1>11, DoneTable, Zenon DEF Proving
<1>14. Winning'
  BY <1>2, <1>3, <1>5, <1>11, RxWins, Zenon DEF Stages, Delivering, Early
<1>15. Delivering'
  <2>1. CASE rx.pc = "deliver" /\ decision = "New" /\ rx'.pc = "suppress"
    <3>1. /\ rx.first = p /\ p.slot = 0 /\ path["R"][1] = "Active"
          /\ AcceptedIds \subseteq Setup.controls /\ Setup.controls \subseteq AcceptedIds
      BY <1>3, <1>9, <2>1, RxTables, Zenon DEF Delivering
    <3>2. AcceptedIds' \subseteq Setup.controls \cup {p.id}
      BY <1>6, <3>1
    <3>3. rx'.first = p /\ p \in net' /\ deliveries'[p.id] = 1 /\ path'["R"][1] = "Active"
      BY <1>5, <1>7, <1>8, <1>10, <2>1, <3>1, Zenon
    <3>4. Setup'.controls \subseteq AcceptedIds'
      BY <1>5, <3>1, Zenon
    <3>. QED BY <1>5, <1>7, <1>10, <2>1, <3>2, <3>3, <3>1, <3>4, Zenon DEF Delivering, Early
  <2>2. CASE rx.pc = "suppress" /\ decision = "Equal" /\ rx'.pc = "pass"
    <3>1. /\ rx.first \in net /\ rx.first.slot = 0 /\ rx.first.id \notin Setup.controls
          /\ deliveries[rx.first.id] = 1 /\ path["R"][1] = "Active"
          /\ AcceptedIds \subseteq Setup.controls \cup {rx.first.id}
      BY <1>3, <2>2, Zenon DEF Delivering
    <3>2. p.id = rx.first.id /\ p.slot = 1
      BY <1>6, <1>8, <1>9, <2>2, <3>1, RxTables, Zenon
    <3>3. \A s \in Slot : \E q \in net : q.slot = s /\ q.id = p.id
      BY <1>8, <3>1, <3>2 DEF Slot
    <3>4. deliveries'[p.id] = 1 /\ p.id \in Id \ Setup'.controls
      BY <1>5, <1>6, <1>7, <2>2, <3>1, <3>2, Zenon
    <3>5. \A s \in Slot : \E q \in net' : q.slot = s /\ q.id = p.id
      BY <1>5, <3>3, Zenon
    <3>6. Succeeded'
      BY <3>4, <3>5, Zenon DEF Succeeded
    <3>. QED BY <1>5, <1>7, <1>10, <2>2, <3>1, <3>6, Zenon DEF Delivering, Early
  <2>3. CASE rx'.pc = "quit"
    BY <1>5, <1>7, <1>10, <2>3, Zenon DEF Delivering, Early
  <2>. QED BY <1>11, <2>1, <2>2, <2>3, Zenon
<1>. QED BY <1>12, <1>13, <1>14, <1>15, Zenon DEF Received

LEMMA RxGiveUpStages ==
  ASSUME ProcessRecords, Stages, LeavesSender, AnswersFrames, RxGiveUp
  PROVE  Received
<1>1. /\ UNCHANGED vars /\ rx.step = "take"
      /\ rx.pc \in {"listen", "auth", "accept", "update", "probe", "response", "first",
                    "second"}
  BY Zenon DEF RxGiveUp, RxWaiting, RxWaits, Rx
<1>2. rx'.pc = "quit" /\ rx'.step = "take"
  BY <1>1 DEF RxGiveUp, Rx, RxFail, ProcessRecords
<1>. QED BY <1>1, <1>2, RxFails

\* The process ends and its session is closed.
LEMMA RxExitStages ==
  ASSUME IInv, ProcessRecords, Stages, LeavesSender, AnswersFrames, RxExit
  PROVE  Received
<1>1. /\ rx.pc \in {"pass", "quit"} /\ rx'.step = rx.step
      /\ rx'.pc = IF rx.pc = "pass" THEN "ok" ELSE "failed"
  BY DEF RxExit, ProcessRecords
<1>2. /\ live' = [live EXCEPT !["R"] = FALSE] /\ lease' = None /\ preview' = Revoked
      /\ UNCHANGED <<deliveries, accepted, net, setup>>
  BY Zenon DEF RxExit, Close, Release
<1>3. ~live'["R"]
  BY <1>2, PerEnd
<1>4. Setup' = Setup /\ AcceptedIds' = AcceptedIds
  BY <1>2, Zenon DEF Setup, AcceptedIds
<1>5. \A k \in Holder : preview'[k] # None /\ preview'[k].mobility =>
        preview'[k].packet.id \in Setup.controls
  <2>1. \A k \in Holder : preview[k] = None \/ preview[k] \in PreviewType
    BY Zenon DEF IInv, TypeOK
  <2>2. \A k \in Holder : preview'[k] # None =>
          /\ preview[k] # None
          /\ preview'[k].packet = preview[k].packet
          /\ preview'[k].mobility = preview[k].mobility
    BY <1>2, <2>1 DEF Revoked, PreviewType
  <2>. QED BY <2>2, Zenon DEF Stages, Calling
<1>. USE <1>1, <1>2, <1>3, <1>4, <1>5
<1>6. Calling'
  BY RxTables, Zenon DEF Stages, Calling
<1>7. Proving'
  BY DoneTable, ZenonT(40) DEF Proving
<1>8. Delivering'
  <2>1. Succeeded => Succeeded'
    <3>1. ASSUME NEW id \in Id \ Setup.controls, deliveries[id] = 1,
                 \A s \in Slot : \E p \in net : p.slot = s /\ p.id = id
          PROVE  Succeeded'
      <4>1. \A s \in Slot : \E p \in net' : p.slot = s /\ p.id = id
        BY <3>1, Zenon
      <4>2. deliveries'[id] = 1 /\ id \in Id \ Setup'.controls
        BY <3>1, Zenon
      <4>. QED BY <4>1, <4>2, Zenon DEF Succeeded
    <3>. QED BY <3>1, Zenon DEF Succeeded
  <2>. QED BY <2>1, RxTables DEF Stages, Delivering, Early
<1>9. Winning'
  BY RxWins, Zenon DEF Stages, Early
<1>. QED BY <1>6, <1>7, <1>8, <1>9, Zenon DEF Received

LEMMA RxStages ==
  ASSUME IInv, ProcessRecords, Stages, LeavesSender, AnswersFrames, RxNext
  PROVE  Stages'
<1>1. Received
  BY RxShakeStages, RxPreviewStages, RxReadStages, RxIssueStages, RxPrepareStages,
     RxCommitStages, RxSendStages, RxAdmitStages, RxActivateStages, RxInboundStages,
     RxDeliverStages, RxGiveUpStages, RxExitStages, Zenon DEF RxNext
<1>2. Sealing' /\ Copying'
  BY ZenonT(40) DEF Stages, Sealing, Copying, LeavesSender, Setup
<1>3. FrameIds'
  BY PlaceTable DEF Stages, FrameIds, AnswersFrames, LeavesSender, Setup
<1>. QED BY <1>1, <1>2, <1>3, Zenon DEF Stages, Received

-----------------------------------------------------------------------------
(* Every step of the tool *)

LEMMA StartStages ==
  ASSUME ToolInit
  PROVE  Stages
<1>1. /\ tx.pc = "open" /\ tx.step = "seal" /\ rx.pc = "listen" /\ rx.step = "take"
      /\ wire = {}
  BY SMTT(30) DEF ToolInit
<1>2. /\ live["R"] /\ path["S"][1] = "Absent" /\ queue[0] = <<>> /\ queue[1] = <<>>
      /\ next = Setup.seed /\ lease = None /\ AcceptedIds = {} /\ sealed = {}
      /\ \A h \in Holder : preview[h] = None
      /\ \A id \in Id : deliveries[id] = 0
  <2>1. /\ live = [e \in End |-> TRUE]
        /\ path = [e \in End |-> [s \in Slot |-> IF s = 0 THEN "Active" ELSE "Absent"]]
        /\ queue = [s \in Slot |-> <<>>]
        /\ "S" \in End /\ "R" \in End /\ 0 \in Slot /\ 1 \in Slot
    BY DEF ToolInit, Init, End, Slot
  <2>2. /\ next = Setup.seed /\ lease = None /\ accepted = {} /\ sealed = {}
        /\ preview = [h \in Holder |-> None] /\ deliveries = [id \in Id |-> 0]
    BY Zenon DEF ToolInit, Init
  <2>. QED BY <2>1, <2>2, SMTT(30) DEF AcceptedIds
<1>3. Setup.seed \in Nat /\ Setup.controls \subseteq Id
  BY ToolStart, ControlIds, SMTT(30)
<1>. USE RxTables, DoneTable, SendTables, AheadTable
<1>4. Sealing /\ Copying /\ FrameIds
  <2>1. Sealing
    BY <1>1, <1>2, <1>3, SMTT(30) DEF Sealing
  <2>2. Copying /\ FrameIds
    BY <1>1, <1>2, Zenon DEF Copying, FrameIds
  <2>. QED BY <2>1, <2>2, Zenon
<1>5. Calling /\ Proving
  BY <1>1, <1>2, Zenon DEF Calling, Proving
<1>6. Delivering
  BY <1>1, <1>2, <1>3, ZenonT(40) DEF Delivering, Early
<1>7. Winning
  BY <1>1, <1>2 DEF Winning, Won
<1>. QED BY <1>4, <1>5, <1>6, <1>7, ZenonT(40) DEF Stages

\* A step that leaves the session and the processes alone, and adds no frame
LEMMA KeepsStages ==
  ASSUME IInv, Stages, UNCHANGED <<vars, tx, rx>>, wire' \subseteq wire
  PROVE  Stages'
<1>1. LeavesReceiver /\ LeavesSender
  BY StutterLeaves, Zenon
<1>2. Calling' /\ Proving' /\ Delivering'
  BY <1>1, TxKeepsReceiver, Zenon DEF Stages
<1>3. Sealing' /\ Copying'
  BY <1>1, Zenon DEF Stages, Sealing, Copying, LeavesSender, Setup
<1>4. FrameIds'
  BY <1>1, Zenon DEF Stages, FrameIds, LeavesSender, Setup
<1>5. Winning'
  <2>1. Setup' = Setup /\ AcceptedIds' = AcceptedIds /\ UNCHANGED <<live, path>>
    BY Zenon DEF vars, receiving, Setup, AcceptedIds
  <2>2. Won' => Won
    BY <2>1, Zenon DEF Won
  <2>. QED BY <2>1, <2>2, Zenon DEF Stages, Winning
<1>. QED BY <1>2, <1>3, <1>4, <1>5, Zenon DEF Stages

LEMMA NextStages ==
  ASSUME IInv, ProcessRecords, FromNet, Stages, [ToolNext]_allVars
  PROVE  Stages'
<1>1. CASE TxNext
  <2>1. AddsFrames /\ LeavesReceiver
    BY <1>1, TxSteps, Zenon
  <2>2. setup' = setup
    BY <2>1, Zenon DEF LeavesReceiver
  <2>3. Sealing' /\ Copying' /\ FrameIds'
    BY <1>1, <2>1, <2>2, TxSealing, TxCopying, TxFrameIds, Zenon DEF Stages
  <2>4. Calling' /\ Proving' /\ Delivering' /\ Winning'
    BY <1>1, <2>1, TxKeepsReceiver, TxWinning, Zenon DEF Stages
  <2>. QED BY <2>3, <2>4, Zenon DEF Stages
<1>2. CASE RxNext
  BY <1>2, RxSteps, RxStages, Zenon
<1>3. CASE Lose \/ UNCHANGED allVars
  <2>1. UNCHANGED <<vars, tx, rx>> /\ wire' \subseteq wire
    BY <1>3 DEF Lose, allVars, toolVars
  <2>. QED BY <2>1, KeepsStages, ZenonT(40)
<1>. QED BY <1>1, <1>2, <1>3, Zenon DEF ToolNext

\* What the invariant says of the property
LEMMA StagesImply ==
  ASSUME Stages
  PROVE  StagesMatch
<1>. USE DoneTable, RxTables
<1>1. ASSUME path["S"][1] = "Active", live["R"], path["R"][1] # "Active"
      PROVE  \/ rx.pc = "admit" /\ issuer["R"] /\ owner["R"] = "Manager"
             \/ rx.pc = "activate" /\ CanActivate("R")
  <2>1. rx.pc \in {"admit", "activate"}
    BY <1>1, ZenonT(40) DEF Stages, Winning, Won
  <2>2. /\ path["R"][1] = "Absent" /\ issuer["R"] /\ lease = None
        /\ owner["R"] = IF rx.pc = "activate" THEN "Admission" ELSE "Manager"
    BY <2>1 DEF Stages, Calling, Proving
  <2>. QED BY <1>1, <2>1, <2>2 DEF CanActivate, LeaseActive
<1>2. path["S"][1] = "Active" => Setup.controls \subseteq AcceptedIds
  BY Zenon DEF Stages, Winning, Won
<1>3. /\ rx.pc \in {"pass", "ok"} => Succeeded
      /\ \A id \in Setup.controls : deliveries[id] = 0
  BY Zenon DEF Stages, Delivering
<1>. QED BY <1>1, <1>2, <1>3, Zenon DEF StagesMatch, AcceptedIds, Succeeded

\* The two processes never get ahead of each other, whatever the links lose,
\* repeat and delay: when `send` activates the second path `receive` has
\* accepted every control and has the path active or can activate it, and a
\* `receive` that reports success gave the application exactly one delivery,
\* copies of which were on both paths, and no control.
THEOREM StagesAlwaysMatch == ToolSpec => []StagesMatch
<1>. DEFINE Inv == IInv /\ ProcessRecords /\ FromNet /\ Stages
<1>1. ToolInit => Inv
  BY ToolStart, StartStages, Zenon
<1>2. Inv /\ [ToolNext]_allVars => Inv'
  <2>. SUFFICES ASSUME Inv, [ToolNext]_allVars PROVE Inv'
    OBVIOUS
  <2>1. [Next]_vars /\ ProcessRecords' /\ FromNet'
    BY ToolSteps, Zenon
  <2>2. IInv'
    BY <2>1, NextIInv, Zenon
  <2>3. Stages'
    BY NextStages, Zenon
  <2>. QED BY <2>1, <2>2, <2>3, Zenon
<1>3. Inv => StagesMatch
  BY StagesImply, Zenon
<1>. QED BY <1>1, <1>2, <1>3, PTL DEF ToolSpec
=============================================================================
