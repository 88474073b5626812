--------------------------- MODULE NativeNodeProofs ---------------------------
(***************************************************************************)
(* The forwarder's properties for every lab: any manifests, topologies,    *)
(* numbers of nodes and interfaces, hop limits and budgets.                *)
(***************************************************************************)
EXTENDS NativeNode, TLAPS

-----------------------------------------------------------------------------
(* Manifests *)

\* Two canonical networks that agree with one LOC on the same prefix are one.
LEMMA CanonicalUnique ==
  ASSUME NEW a \in Loc, NEW b \in Loc, NEW loc \in Loc, NEW k \in 1 .. LocBits,
         is_canonical_network(a, k), is_canonical_network(b, k),
         prefix_matches(a, loc, k), prefix_matches(b, loc, k)
  PROVE  a = b
<1>1. \A i \in 1 .. LocBits : a[i] = b[i]
  <2> SUFFICES ASSUME NEW i \in 1 .. LocBits PROVE a[i] = b[i]
    OBVIOUS
  <2>1. CASE i <= k
    BY <2>1, LocBitsAssumption DEF prefix_matches
  <2>2. CASE i > k
    BY <2>2, LocBitsAssumption DEF is_canonical_network
  <2> QED BY <2>1, <2>2, LocBitsAssumption
<1>2. a = [i \in 1 .. LocBits |-> a[i]] /\ b = [i \in 1 .. LocBits |-> b[i]]
  BY DEF Loc
<1> QED BY <1>1, <1>2

\* An accepted manifest has at most one longest route for a destination.
LEMMA AcceptedSingleValued ==
  ASSUME NEW m \in RawManifest, NEW allowed, ValidManifest(m, allowed)
  PROVE  SingleValued(m)
<1> SUFFICES ASSUME NEW loc \in Loc, NEW i \in route_for(m, loc), NEW j \in route_for(m, loc)
             PROVE  i = j
  BY DEF SingleValued
<1> DEFINE R == m.routes
<1>1. /\ i \in DOMAIN R /\ j \in DOMAIN R
      /\ prefix_matches(R[i].network, loc, R[i].length)
      /\ prefix_matches(R[j].network, loc, R[j].length)
      /\ R[i].length <= R[j].length /\ R[j].length <= R[i].length
  BY DEF route_for, Matching
<1>2. R \in Seq(RawRoute)
  BY DEF RawManifest
<1> HIDE DEF R
<1>3. R[i] \in RawRoute /\ R[j] \in RawRoute
  BY <1>1, <1>2
<1>4. /\ R[i].network \in Loc /\ R[j].network \in Loc
      /\ R[i].length = R[j].length
  BY <1>1, <1>3 DEF RawRoute
<1>5. /\ R[i].length \in 1 .. LocBits
      /\ is_canonical_network(R[i].network, R[i].length)
      /\ is_canonical_network(R[j].network, R[j].length)
      /\ (R[i].network = R[j].network /\ R[i].length = R[j].length) => i = j
  BY <1>1 DEF ValidManifest, ValidRoutes, R
<1>6. R[i].network = R[j].network
  BY <1>1, <1>4, <1>5, CanonicalUnique
<1> QED BY <1>4, <1>5, <1>6

-----------------------------------------------------------------------------
(* The lab never changes *)

LEMMA Static ==
  ASSUME UNCHANGED lab
  PROVE  /\ Nodes' = Nodes
         /\ \A n : Manifest(n)' = Manifest(n)
         /\ \A n : Interfaces(n)' = Interfaces(n)
         /\ \A n : Allowlist(n)' = Allowlist(n)
         /\ \A n : ManifestAccepted(n)' = ManifestAccepted(n)
BY DEF Nodes, Manifest, Interfaces, Allowlist, ManifestAccepted, Lab, Names, ValidManifest,
       ValidInterfaces, ValidRoutes, Ids, is_canonical_network

LEMMA LabKept == Next => UNCHANGED lab
BY ZenonT(60) DEF Next, Launch, Step, Fault, LoadManifest, BindWatch, Verify, OpenDescriptor, RejectPending,
       DropPrivileges, StartRuntime, BeginStep, BeginStepOn, NothingQueued, DropFrame, ForwardFrame,
       PollFails, ReceiveFails, SendFails, ChangeTopology, Inject, Pass, Fail, Fatal, Exit, environment

\* What a raw manifest is.
LEMMA ManifestType ==
  ASSUME lab \in DOMAIN Labs, NEW n \in Nodes
  PROVE  /\ n \in Node
         /\ Manifest(n) \in RawManifest
         /\ Manifest(n).interfaces \in Seq(RawInterface)
         /\ Len(Manifest(n).interfaces) \in Nat
         /\ Interfaces(n) = 1 .. Len(Manifest(n).interfaces)
<1>1. Manifest(n) \in RawManifest /\ n \in Node
  BY NativeAssumption DEF Manifest, Nodes, Lab
<1>2. Manifest(n).interfaces \in Seq(RawInterface)
  BY <1>1 DEF RawManifest
<1> QED BY <1>1, <1>2 DEF Interfaces

-----------------------------------------------------------------------------
(* The inductive invariant *)

Checks == {"isolation", "revalidation", "final"}
Beyond == {"pending", "revalidation", "privilege", "runtime", "readiness", "final", "running"}

\* What holds of one process: the accepted manifest; which reads of the last
\* check still hold while the watcher is silent; the late sends so far.
ProcessInv(n) ==
  /\ phase[n] \notin {"manifest", "failed"} => ManifestAccepted(n)
  /\ phase[n] \notin Checks \cup {"failed"} => read[n] = 1
  /\ phase[n] \in {"final", "running"} /\ ~ pending[n] =>
       \A k \in Watched : k < read[n] \/ phase[n] = "running"
                            => ReadPasses(k, topology[n], Allowlist(n))
  /\ phase[n] \in Beyond => opened[n] = Len(Manifest(n).interfaces)
  /\ phase[n] # "running" => cursor[n] = 0
  /\ phase[n] \notin {"running", "stopped"} \/ (phase[n] = "running" /\ ~ pending[n]) => late[n] = 0
  /\ cursor[n] > 0 => late[n] < cursor[n]
  /\ late[n] <= Len(Manifest(n).interfaces)

\* The counters of one process.
CountInv(n) ==
  /\ phase[n] # "stopped" => ~ unsent[n]
  /\ telemetry[n]["received"] =
       telemetry[n]["dropped"] + telemetry[n]["forwarded"] + (IF unsent[n] THEN 1 ELSE 0)

\* A frame uses one of its hops each time it is forwarded.
FrameInv(f) ==
  /\ f.hops > 0 => f.hop >= 1
  /\ f.hop + f.hops = f.ttl

IInv ==
  /\ TypeOK
  /\ \A n \in Nodes : ProcessInv(n) /\ CountInv(n)
  /\ \A f \in queue : FrameInv(f)

LEMMA InitInv == Init => IInv
<1> SUFFICES ASSUME Init PROVE IInv
  OBVIOUS
<1>0. lab \in DOMAIN Labs
  BY DEF Init
<1>1. Lab.topology \in Topologies /\ Lab.changes \in Nat
  BY <1>0, NativeAssumption DEF Lab
<1>2. \A n \in Nodes : Len(Manifest(n).interfaces) \in Nat
  BY <1>0, ManifestType
<1>3. TypeOK
  BY <1>0, <1>1, <1>2 DEF Init, TypeOK, Following, Reads, Counters
<1>4. ASSUME NEW n \in Nodes PROVE ProcessInv(n) /\ CountInv(n)
  BY <1>2 DEF Init, ProcessInv, CountInv, Checks, Beyond, Counters
<1>5. \A f \in queue : FrameInv(f)
  BY DEF Init
<1> QED BY <1>3, <1>4, <1>5 DEF IInv

-----------------------------------------------------------------------------
(* Steps *)

\* Facts every step proof starts from.
LEMMA Facts ==
  ASSUME IInv
  PROVE  /\ lab \in DOMAIN Labs
         /\ \A n \in Nodes : Len(Manifest(n).interfaces) \in Nat
         /\ \A n \in Nodes : Interfaces(n) = 1 .. Len(Manifest(n).interfaces)
         /\ \A n \in Nodes : ProcessInv(n) /\ CountInv(n)
         /\ \A f \in queue : FrameInv(f)
         /\ TypeOK
         /\ lab \in DOMAIN Labs
<1>1. lab \in DOMAIN Labs
  BY DEF IInv, TypeOK
<1> QED BY <1>1, ManifestType DEF IInv

Phases == DOMAIN Following \cup {"running", "failed", "stopped"}

\* The types, variable by variable.
LEMMA TypeFacts ==
  ASSUME IInv
  PROVE  /\ topology \in [Nodes -> Topologies] /\ changes \in 0 .. Lab.changes
         /\ phase \in [Nodes -> Phases]
         /\ pending \in [Nodes -> BOOLEAN] /\ unsent \in [Nodes -> BOOLEAN]
         /\ read \in [Nodes -> Reads]
         /\ opened \in [Nodes -> Nat] /\ cursor \in [Nodes -> Nat] /\ late \in [Nodes -> Nat]
         /\ telemetry \in [Nodes -> [Counters -> Nat]]
         /\ \A m \in Nodes : opened[m] <= Len(Manifest(m).interfaces) /\ cursor[m] <= opened[m]
         /\ injected \subseteq Lab.frames /\ queue \subseteq Frame
         /\ \A f \in queue : f.node \in Nodes /\ f.at \in 1 .. opened[f.node]
<1>1. TypeOK
  BY DEF IInv
<1> QED BY <1>1 DEF TypeOK, Phases

LEMMA TypeKept ==
  ASSUME IInv, UNCHANGED lab,
         topology' \in [Nodes -> Topologies], changes' \in 0 .. Lab.changes,
         phase' \in [Nodes -> Phases],
         pending' \in [Nodes -> BOOLEAN], unsent' \in [Nodes -> BOOLEAN],
         read' \in [Nodes -> Reads],
         opened' \in [Nodes -> Nat], cursor' \in [Nodes -> Nat], late' \in [Nodes -> Nat],
         telemetry' \in [Nodes -> [Counters -> Nat]],
         \A m \in Nodes : opened'[m] <= Len(Manifest(m).interfaces) /\ cursor'[m] <= opened'[m],
         injected' \subseteq Lab.frames, queue' \subseteq Frame,
         \A f \in queue' : f.node \in Nodes /\ f.at \in 1 .. opened'[f.node]
  PROVE  TypeOK'
<1>1. Nodes' = Nodes /\ Lab' = Lab /\ (\A m : Manifest(m)' = Manifest(m)) /\ lab \in DOMAIN Labs
  BY Static, Facts DEF Lab
<1> QED BY <1>1 DEF TypeOK, Phases

\* A process whose fields a step leaves alone.
LEMMA Unmoved ==
  ASSUME IInv, NEW m \in Nodes, UNCHANGED lab,
         topology'[m] = topology[m], pending'[m] = pending[m], phase'[m] = phase[m],
         read'[m] = read[m], opened'[m] = opened[m], cursor'[m] = cursor[m], late'[m] = late[m]
  PROVE  ProcessInv(m)'
BY Static, Facts DEF ProcessInv

LEMMA Uncounted ==
  ASSUME IInv, NEW m \in Nodes, telemetry'[m] = telemetry[m], unsent'[m] = unsent[m],
         phase'[m] = "stopped" \/ phase[m] # "stopped"
  PROVE  CountInv(m)'
BY Facts DEF CountInv

\* Which phase follows which.
LEMMA Sequel ==
  /\ DOMAIN Following = {"manifest", "watch", "isolation", "descriptors", "pending",
                         "revalidation", "privilege", "runtime", "readiness", "final"}
  /\ Following["manifest"] = "watch" /\ Following["watch"] = "isolation"
  /\ Following["isolation"] = "descriptors" /\ Following["descriptors"] = "pending"
  /\ Following["pending"] = "revalidation" /\ Following["revalidation"] = "privilege"
  /\ Following["privilege"] = "runtime" /\ Following["runtime"] = "readiness"
  /\ Following["readiness"] = "final" /\ Following["final"] = "running"
BY DEF Following

\* A launcher phase other than a check passes.
LEMMA PassInv ==
  ASSUME IInv, NEW n \in Nodes, Pass(n),
         phase[n] \in DOMAIN Following \ Checks,
         phase[n] = "manifest" => ManifestAccepted(n),
         phase[n] = "descriptors" => opened[n] = Len(Manifest(n).interfaces)
  PROVE  IInv'
<1>1. UNCHANGED <<lab, topology, changes, pending, read, opened, cursor, telemetry, unsent, late,
                  injected, queue>>
  BY DEF Pass, environment, accounts, traffic
<1>2. phase' = [phase EXCEPT ![n] = Following[phase[n]]]
  BY DEF Pass, Goto
<1>3. Nodes' = Nodes /\ Lab' = Lab
  BY <1>1, Static DEF Lab
<1>4. TypeOK'
  <2>1. phase' \in [Nodes -> Phases]
    BY <1>2, TypeFacts DEF Phases, Following, Checks
  <2> QED BY <1>1, <2>1, TypeFacts, TypeKept
<1>5. ASSUME NEW m \in Nodes PROVE ProcessInv(m)' /\ CountInv(m)'
  <2>1. phase \in [Nodes -> DOMAIN Following \cup {"running", "failed", "stopped"}]
    BY Facts DEF TypeOK
  <2>2. CASE m # n
    BY <1>1, <1>2, <2>1, <2>2, Unmoved, Uncounted
  <2>3. CASE m = n
    <3>1. phase'[n] = Following[phase[n]]
      BY <1>2, <2>1
    <3>2. ProcessInv(n)'
      <4>1. \/ phase[n] = "manifest" /\ phase'[n] = "watch"
            \/ phase[n] = "watch" /\ phase'[n] = "isolation"
            \/ phase[n] = "descriptors" /\ phase'[n] = "pending"
            \/ phase[n] = "pending" /\ phase'[n] = "revalidation"
            \/ phase[n] = "privilege" /\ phase'[n] = "runtime"
            \/ phase[n] = "runtime" /\ phase'[n] = "readiness"
            \/ phase[n] = "readiness" /\ phase'[n] = "final"
        BY <3>1, Sequel DEF Checks
      <4>2. /\ ManifestAccepted(n) /\ read[n] = 1 /\ cursor[n] = 0 /\ late[n] = 0
            /\ phase[n] \in Beyond => opened[n] = Len(Manifest(n).interfaces)
            /\ late[n] <= Len(Manifest(n).interfaces)
        BY <4>1, Facts DEF ProcessInv, Checks
      <4>3. /\ ManifestAccepted(n)' /\ Manifest(n)' = Manifest(n)
            /\ read'[n] = 1 /\ cursor'[n] = 0 /\ late'[n] = 0 /\ opened'[n] = opened[n]
        BY <1>1, <4>2, Static
      <4>4. phase'[n] \in Beyond => opened'[n] = Len(Manifest(n).interfaces)
        BY <4>1, <4>2, <4>3 DEF Beyond
      <4>5. \A k \in Watched : ~ (k < 1)
        BY DEF Watched, Reads
      <4>6. phase'[n] # "running"
        BY <4>1
      <4> QED BY <4>2, <4>3, <4>4, <4>5, <4>6 DEF ProcessInv
    <3>3. CountInv(n)'
      BY <1>1, <3>1, Uncounted DEF Following
    <3> QED BY <2>3, <3>2, <3>3
  <2> QED BY <2>2, <2>3
<1>6. ASSUME NEW f \in queue PROVE FrameInv(f)'
  BY Facts DEF FrameInv
<1> QED BY <1>1, <1>3, <1>4, <1>5, <1>6 DEF IInv

\* The counters of a step: which of them go up, and when a frame is left unsent.
LEMMA CountStep ==
  ASSUME IInv, NEW n \in Nodes, NEW counters, Count(n, counters),
         \/ /\ counters \in {{"faults"}, {"received", "dropped"}, {"received", "forwarded"}}
            /\ UNCHANGED unsent
         \/ /\ counters = {"received", "faults"}
            /\ unsent' = [unsent EXCEPT ![n] = TRUE]
            /\ phase'[n] = "stopped",
         phase[n] # "stopped", \A m \in Nodes \ {n} : phase'[m] = phase[m]
  PROVE  /\ telemetry' \in [Nodes -> [Counters -> Nat]]
         /\ unsent' \in [Nodes -> BOOLEAN]
         /\ \A m \in Nodes : CountInv(m)'
<1>0. telemetry \in [Nodes -> [Counters -> Nat]] /\ unsent \in [Nodes -> BOOLEAN]
  BY Facts DEF TypeOK
<1> DEFINE counted == [c \in Counters |->
                         IF c \in counters THEN telemetry[n][c] + 1 ELSE telemetry[n][c]]
<1>1. telemetry' = [telemetry EXCEPT ![n] = counted]
  BY DEF Count
<1>2. telemetry[n] \in [Counters -> Nat]
  BY <1>0
<1>3. counted \in [Counters -> Nat]
  BY <1>2
<1>4. /\ counted["received"] = IF "received" \in counters
                               THEN telemetry[n]["received"] + 1 ELSE telemetry[n]["received"]
      /\ counted["dropped"] = IF "dropped" \in counters
                              THEN telemetry[n]["dropped"] + 1 ELSE telemetry[n]["dropped"]
      /\ counted["forwarded"] = IF "forwarded" \in counters
                                THEN telemetry[n]["forwarded"] + 1 ELSE telemetry[n]["forwarded"]
  BY DEF Counters
<1>5. /\ telemetry[n]["received"] \in Nat /\ telemetry[n]["dropped"] \in Nat
      /\ telemetry[n]["forwarded"] \in Nat
  BY <1>2 DEF Counters
<1> HIDE DEF counted
<1>6. telemetry' \in [Nodes -> [Counters -> Nat]] /\ unsent' \in [Nodes -> BOOLEAN]
  BY <1>0, <1>1, <1>3, Zenon
<1>7. ASSUME NEW m \in Nodes PROVE CountInv(m)'
  <2>1. CASE m # n
    BY <1>0, <1>1, <2>1, Facts, Zenon DEF CountInv
  <2>2. CASE m = n
    <3>1. telemetry'[n] = counted
      BY <1>0, <1>1
    <3>2. ~ unsent[n] /\ telemetry[n]["received"] = telemetry[n]["dropped"] + telemetry[n]["forwarded"]
      BY <1>5, Facts DEF CountInv
    <3>3. CASE /\ counters \in {{"faults"}, {"received", "dropped"}, {"received", "forwarded"}}
               /\ UNCHANGED unsent
      <4>1. \/ "received" \notin counters /\ "dropped" \notin counters /\ "forwarded" \notin counters
            \/ "received" \in counters /\ "dropped" \in counters /\ "forwarded" \notin counters
            \/ "received" \in counters /\ "dropped" \notin counters /\ "forwarded" \in counters
        BY <3>3
      <4>2. counted["received"] = counted["dropped"] + counted["forwarded"]
        BY <1>4, <1>5, <3>2, <4>1
      <4>3. unsent'[n] = FALSE
        BY <1>0, <3>2, <3>3
      <4>4. counted["received"] \in Nat /\ counted["dropped"] \in Nat /\ counted["forwarded"] \in Nat
        BY <1>3 DEF Counters
      <4> QED BY <2>2, <3>1, <4>2, <4>3, <4>4 DEF CountInv
    <3>4. CASE /\ counters = {"received", "faults"}
               /\ unsent' = [unsent EXCEPT ![n] = TRUE]
               /\ phase'[n] = "stopped"
      <4>1. unsent'[n] = TRUE /\ phase'[n] = "stopped"
        BY <1>0, <3>4
      <4> QED BY <1>4, <1>5, <2>2, <3>1, <3>2, <3>4, <4>1 DEF CountInv
    <3> QED BY <3>3, <3>4
  <2> QED BY <2>1, <2>2
<1> QED BY <1>6, <1>7, Zenon

\* The process ends.
LEMMA ExitInv ==
  ASSUME IInv, NEW n \in Nodes, NEW p, Exit(n, p), UNCHANGED late,
         \/ p = "failed" /\ phase[n] \in DOMAIN Following
         \/ p = "stopped" /\ phase[n] = "running",
         telemetry' \in [Nodes -> [Counters -> Nat]], unsent' \in [Nodes -> BOOLEAN],
         \A m \in Nodes : CountInv(m)'
  PROVE  IInv'
<1>1. /\ UNCHANGED <<lab, topology, changes, read, injected, late>>
      /\ phase' = [phase EXCEPT ![n] = p]
      /\ pending' = [pending EXCEPT ![n] = FALSE]
      /\ cursor' = [cursor EXCEPT ![n] = 0]
      /\ opened' = [opened EXCEPT ![n] = 0]
      /\ queue' = {f \in queue : f.node # n}
  BY DEF Exit, Goto, environment
<1>2. Nodes' = Nodes /\ Lab' = Lab
  BY <1>1, Static DEF Lab
<1>3. /\ phase \in [Nodes -> DOMAIN Following \cup {"running", "failed", "stopped"}]
      /\ pending \in [Nodes -> BOOLEAN]
      /\ opened \in [Nodes -> Nat] /\ cursor \in [Nodes -> Nat]
  BY Facts, Zenon DEF TypeOK
<1>4. TypeOK'
  <2>1. phase' \in [Nodes -> Phases]
    BY <1>1, TypeFacts DEF Phases
  <2>2. pending' \in [Nodes -> BOOLEAN]
    BY <1>1, TypeFacts
  <2>3. opened' \in [Nodes -> Nat] /\ cursor' \in [Nodes -> Nat]
    BY <1>1, <1>3
  <2>4. ASSUME NEW m \in Nodes
        PROVE  opened'[m] <= Len(Manifest(m).interfaces) /\ cursor'[m] <= opened'[m]
    <3>1. CASE m = n
      BY <1>1, <1>3, <3>1, Facts
    <3>2. CASE m # n
      BY <1>1, <1>3, <3>2, TypeFacts
    <3> QED BY <3>1, <3>2
  <2>5. ASSUME NEW f \in queue' PROVE f.node \in Nodes /\ f.at \in 1 .. opened'[f.node]
    BY <1>1, <1>3, TypeFacts
  <2>6. queue' \subseteq Frame
    BY <1>1, TypeFacts
  <2> QED BY <1>1, <2>1, <2>2, <2>3, <2>4, <2>5, <2>6, TypeFacts, TypeKept
<1>5. ASSUME NEW m \in Nodes PROVE ProcessInv(m)'
  <2>1. CASE m # n
    BY <1>1, <1>3, <2>1, Unmoved, Zenon
  <2>2. CASE m = n
    <3>1. /\ phase'[n] = p /\ cursor'[n] = 0 /\ late'[n] = late[n] /\ opened'[n] = 0
          /\ read'[n] = read[n]
      BY <1>1, <1>3, Zenon
    <3>2. late[n] \in Nat
      BY Facts DEF TypeOK
    <3>3. CASE p = "failed" /\ phase[n] \in DOMAIN Following
      BY <1>1, <2>2, <3>1, <3>2, <3>3, Static, Facts, Zenon DEF ProcessInv, Following, Checks, Beyond
    <3>4. CASE p = "stopped" /\ phase[n] = "running"
      <4>1. ManifestAccepted(n) /\ read[n] = 1 /\ late[n] <= Len(Manifest(n).interfaces)
        BY <3>4, Facts, Zenon DEF ProcessInv, Checks
      <4>2. ManifestAccepted(n)' /\ Manifest(n)' = Manifest(n)
        BY <1>1, <4>1, Static, Zenon
      <4> QED BY <2>2, <3>1, <3>2, <3>4, <4>1, <4>2 DEF ProcessInv, Checks, Beyond
    <3> QED BY <3>3, <3>4
  <2> QED BY <2>1, <2>2
<1>6. ASSUME NEW f \in queue' PROVE FrameInv(f)'
  BY <1>1, Facts DEF FrameInv
<1> QED BY <1>2, <1>4, <1>5, <1>6 DEF IInv

LEMMA FailInv ==
  ASSUME IInv, NEW n \in Nodes, Fail(n), phase[n] \in DOMAIN Following
  PROVE  IInv'
<1>1. Exit(n, "failed") /\ UNCHANGED <<telemetry, unsent, late>>
  BY DEF Fail, accounts
<1>2. \A m \in Nodes : phase[m] = "stopped" => phase'[m] = "stopped"
  BY <1>1, Facts DEF Exit, Goto, TypeOK, Following
<1>3. \A m \in Nodes : CountInv(m)'
  BY <1>1, <1>2, Uncounted, Zenon
<1>4. telemetry' \in [Nodes -> [Counters -> Nat]] /\ unsent' \in [Nodes -> BOOLEAN]
  BY <1>1, Facts DEF TypeOK
<1> QED BY <1>1, <1>3, <1>4, ExitInv

\* One kernel read of an isolation check: with the watcher silent, what the
\* last check has read so far still holds.
LEMMA VerifyInv ==
  ASSUME IInv, NEW n \in Nodes, Verify(n)
  PROVE  IInv'
<1>1. phase[n] \in Checks /\ phase[n] \in DOMAIN Following
  BY DEF Verify, Checks, Following
<1>2. CASE Fail(n)
  BY <1>1, <1>2, FailInv
<1>3. CASE ~ Fail(n)
  <2>1. /\ UNCHANGED <<lab, topology, changes, pending, opened, cursor, telemetry, unsent, late,
                        injected, queue>>
        /\ ReadPasses(read[n], topology[n], Allowlist(n))
        /\ \/ /\ read[n] < 4
              /\ read' = [read EXCEPT ![n] = @ + 1]
              /\ UNCHANGED phase
           \/ /\ read[n] = 4
              /\ read' = [read EXCEPT ![n] = 1]
              /\ phase' = [phase EXCEPT ![n] = Following[phase[n]]]
    BY <1>3, Zenon DEF Verify, Goto, environment, accounts, traffic
  <2>2. Nodes' = Nodes /\ Lab' = Lab
    BY <2>1, Static, Zenon DEF Lab
  <2>3. /\ phase \in [Nodes -> DOMAIN Following \cup {"running", "failed", "stopped"}]
        /\ read \in [Nodes -> Reads]
    BY Facts DEF TypeOK
  <2>4. read' \in [Nodes -> Reads]
    BY <2>1, <2>3 DEF Reads
  <2>5. phase' \in [Nodes -> DOMAIN Following \cup {"running", "failed", "stopped"}]
    BY <1>1, <2>1, <2>3, SMTT(30) DEF Checks, Following
  <2>6. TypeOK'
    BY <2>1, <2>4, <2>5, TypeFacts, TypeKept DEF Phases
  <2>7. ASSUME NEW m \in Nodes PROVE ProcessInv(m)' /\ CountInv(m)'
    <3>1. CASE m # n
      BY <2>1, <2>3, <3>1, Unmoved, Uncounted, Zenon
    <3>2. CASE m = n
      <4>1. CountInv(n)'
        BY <1>1, <2>1, <2>3, Uncounted, Zenon DEF Checks
      <4>2. /\ phase[n] = "final" /\ ~ pending[n] =>
                 \A k \in Watched : k < read[n] => ReadPasses(k, topology[n], Allowlist(n))
            /\ ManifestAccepted(n) /\ cursor[n] = 0 /\ late[n] = 0
            /\ phase[n] \in Beyond => opened[n] = Len(Manifest(n).interfaces)
        BY <1>1, Facts, Zenon DEF ProcessInv, Checks
      <4>3. Allowlist(n)' = Allowlist(n) /\ Manifest(n)' = Manifest(n) /\ ManifestAccepted(n)'
        BY <2>1, <4>2, Static, Zenon
      <4>4. read[n] \in Reads
        BY <2>3
      <4>5. Len(Manifest(n).interfaces) \in Nat
        BY Facts, Zenon
      <4>a. /\ pending'[n] = pending[n] /\ topology'[n] = topology[n] /\ opened'[n] = opened[n]
            /\ cursor'[n] = 0 /\ late'[n] = 0
            /\ ReadPasses(read[n], topology[n], Allowlist(n))
        BY <2>1, <4>2, Zenon
      <4>b. late'[n] <= Len(Manifest(n)'.interfaces) /\ ~ (cursor'[n] > 0)
        <5>1. 0 <= Len(Manifest(n).interfaces) /\ ~ (0 > 0)
          BY <4>5
        <5>. QED BY <4>3, <4>a, <5>1, Zenon
      <4>6. CASE read'[n] = read[n] + 1 /\ phase'[n] = phase[n]
        <5>1. \A k \in Watched : k < read[n] + 1 => k < read[n] \/ k = read[n]
          BY <4>4 DEF Watched, Reads
        <5>2. phase'[n] \in Checks /\ phase'[n] \notin {"running", "failed"}
          BY <1>1, <4>6, Zenon DEF Checks
        <5>3. phase'[n] \in {"final", "running"} /\ ~ pending'[n] =>
                \A k \in Watched : k < read'[n] \/ phase'[n] = "running"
                                     => ReadPasses(k, topology'[n], Allowlist(n)')
          BY <4>2, <4>3, <4>6, <4>a, <5>1, <5>2, Zenon
        <5>4. phase'[n] \in Beyond => opened'[n] = Len(Manifest(n)'.interfaces)
          BY <4>2, <4>3, <4>6, <4>a
        <5>5. ProcessInv(n)'
          BY <4>3, <4>a, <4>b, <5>2, <5>3, <5>4, Zenon DEF ProcessInv
        <5> QED BY <3>2, <4>1, <5>5
      <4>7. CASE read[n] = 4 /\ read'[n] = 1 /\ phase'[n] = Following[phase[n]]
        <5>1. \/ phase[n] = "isolation" /\ phase'[n] = "descriptors"
              \/ phase[n] = "revalidation" /\ phase'[n] = "privilege"
              \/ phase[n] = "final" /\ phase'[n] = "running"
          BY <1>1, <4>7, Sequel DEF Checks
        <5>2. phase'[n] = "running" /\ ~ pending'[n] =>
                \A k \in Watched : ReadPasses(k, topology[n], Allowlist(n))
          <6>1. \A k \in Watched : k < 4 \/ k = 4
            BY DEF Watched, Reads
          <6>2. CASE phase[n] = "final"
            BY <4>2, <4>7, <4>a, <6>1, <6>2, Zenon
          <6> QED BY <5>1, <6>2
        <5>3. phase'[n] \in Beyond => opened'[n] = Len(Manifest(n)'.interfaces)
          BY <4>2, <4>3, <4>a, <5>1 DEF Beyond
        <5>4. phase'[n] \in {"descriptors", "privilege", "running"} /\ read'[n] = 1
          BY <4>7, <5>1, Zenon
        <5>5. phase'[n] \in {"final", "running"} /\ ~ pending'[n] =>
                \A k \in Watched : k < read'[n] \/ phase'[n] = "running"
                                     => ReadPasses(k, topology'[n], Allowlist(n)')
          BY <4>3, <4>a, <5>2, <5>4
        <5>6. ProcessInv(n)'
          <6>1. phase'[n] # "failed" /\ phase'[n] # "stopped"
            BY <5>4
          <6> QED BY <4>3, <4>a, <4>b, <5>3, <5>4, <5>5, <6>1, Zenon DEF ProcessInv
        <5> QED BY <3>2, <4>1, <5>6
      <4> QED BY <2>1, <2>3, <3>2, <4>1, <4>6, <4>7
    <3> QED BY <3>1, <3>2, Zenon
  <2>8. ASSUME NEW f \in queue PROVE FrameInv(f)'
    BY Facts DEF FrameInv
  <2> QED BY <2>1, <2>2, <2>6, <2>7, <2>8, Zenon DEF IInv
<1> QED BY <1>2, <1>3, Zenon

LEMMA OpenInv ==
  ASSUME IInv, NEW n \in Nodes, OpenDescriptor(n)
  PROVE  IInv'
<1>1. phase[n] = "descriptors" /\ phase[n] \in DOMAIN Following \ Checks
  BY DEF OpenDescriptor, Checks, Following
<1>2. CASE Fail(n)
  BY <1>1, <1>2, FailInv, Zenon
<1>3. opened[n] \in Nat /\ opened[n] <= Len(Manifest(n).interfaces)
      /\ Len(Manifest(n).interfaces) \in Nat
  BY Facts DEF TypeOK
<1>4. CASE Pass(n) /\ ~ opened[n] < Len(Manifest(n).interfaces)
  BY <1>1, <1>3, <1>4, PassInv
<1>5. CASE /\ opened[n] < Len(Manifest(n).interfaces)
           /\ opened' = [opened EXCEPT ![n] = @ + 1]
           /\ UNCHANGED <<environment, pending, phase, read, cursor, accounts, traffic>>
  <2>1. UNCHANGED <<lab, topology, changes, pending, phase, read, cursor, telemetry, unsent, late,
                    injected, queue>>
    BY <1>5 DEF environment, accounts, traffic
  <2>2. Nodes' = Nodes /\ Lab' = Lab
    BY <2>1, Static, Zenon DEF Lab
  <2>3. opened \in [Nodes -> Nat] /\ cursor \in [Nodes -> Nat]
    BY Facts DEF TypeOK
  <2>4. opened' \in [Nodes -> Nat] /\ \A m \in Nodes : opened'[m] = IF m = n THEN opened[m] + 1 ELSE opened[m]
    BY <1>5, <2>3
  <2>5. ASSUME NEW f \in queue PROVE f.node \in Nodes /\ f.at \in 1 .. opened'[f.node]
    <3>1. f.node \in Nodes /\ f.at \in 1 .. opened[f.node]
      BY Facts DEF TypeOK
    <3>2. opened[f.node] \in Nat /\ opened'[f.node] \in Nat /\ opened[f.node] <= opened'[f.node]
      BY <2>3, <2>4, <3>1, SMTT(30)
    <3> QED BY <3>1, <3>2, SMTT(30)
  <2>6. TypeOK'
    <3>1. ASSUME NEW m \in Nodes
          PROVE  opened'[m] <= Len(Manifest(m).interfaces) /\ cursor[m] <= opened'[m]
      <4>1. /\ opened[m] \in Nat /\ cursor[m] \in Nat /\ Len(Manifest(m).interfaces) \in Nat
            /\ opened[m] <= Len(Manifest(m).interfaces) /\ cursor[m] <= opened[m]
        BY <2>3, TypeFacts, Facts
      <4> QED BY <1>5, <2>4, <4>1, SMTT(30)
    <3> QED BY <2>1, <2>4, <2>5, <3>1, TypeFacts, TypeKept
  <2>7. ASSUME NEW m \in Nodes PROVE ProcessInv(m)' /\ CountInv(m)'
    <3>1. CASE m # n
      BY <2>1, <2>4, <3>1, Unmoved, Uncounted, Zenon
    <3>2. CASE m = n
      BY <1>1, <2>1, <3>2, Static, Facts, Uncounted DEF ProcessInv, Checks, Beyond
    <3> QED BY <3>1, <3>2
  <2>8. ASSUME NEW f \in queue PROVE FrameInv(f)'
    BY Facts DEF FrameInv
  <2> QED BY <2>1, <2>2, <2>6, <2>7, <2>8 DEF IInv
<1> QED BY <1>2, <1>4, <1>5, Zenon DEF OpenDescriptor

LEMMA LaunchInv ==
  ASSUME IInv, NEW n \in Nodes, Launch(n)
  PROVE  IInv'
<1>1. CASE LoadManifest(n)
  BY <1>1, PassInv, FailInv DEF LoadManifest, Following, Checks
<1>2. CASE BindWatch(n)
  BY <1>2, PassInv, Zenon DEF BindWatch, Following, Checks
<1>3. CASE RejectPending(n)
  BY <1>3, PassInv, FailInv DEF RejectPending, Following, Checks
<1>4. CASE DropPrivileges(n)
  BY <1>4, PassInv, FailInv DEF DropPrivileges, Following, Checks
<1>5. CASE StartRuntime(n)
  BY <1>5, PassInv, FailInv, Zenon DEF StartRuntime, Following, Checks
<1> QED BY <1>1, <1>2, <1>3, <1>4, <1>5, VerifyInv, OpenInv, Zenon DEF Launch

\* One descriptor's turn in a step, whatever was read there: at most one late
\* send, and the cursor moves on.
LEMMA TurnInv ==
  ASSUME IInv, NEW n \in Nodes, phase[n] = "running", cursor[n] > 0, Advance(n),
         UNCHANGED <<environment, pending, phase, read, opened, unsent, injected>>,
         late' = late \/ late' = [late EXCEPT ![n] = IF pending[n] THEN @ + 1 ELSE @],
         telemetry' \in [Nodes -> [Counters -> Nat]],
         \A m \in Nodes : CountInv(m)',
         queue' \subseteq Frame,
         \A f \in queue' : f.node \in Nodes /\ f.at \in 1 .. opened[f.node] /\ FrameInv(f)
  PROVE  IInv'
<1>1. /\ UNCHANGED <<lab, topology, changes, pending, phase, read, opened, unsent, injected>>
      /\ cursor' = [cursor EXCEPT ![n] = IF @ < Len(Manifest(n).interfaces) THEN @ + 1 ELSE 0]
  BY Zenon DEF environment, Advance
<1>2. Nodes' = Nodes /\ Lab' = Lab
  BY <1>1, Static DEF Lab
<1>3. /\ cursor \in [Nodes -> Nat] /\ late \in [Nodes -> Nat] /\ opened \in [Nodes -> Nat]
      /\ opened[n] = Len(Manifest(n).interfaces) /\ cursor[n] <= opened[n]
      /\ late[n] < cursor[n] /\ (~ pending[n] => late[n] = 0)
  BY Facts, Zenon DEF TypeOK, ProcessInv, Beyond
<1>a. cursor[n] \in Nat /\ late[n] \in Nat /\ opened[n] \in Nat
  BY <1>3
<1> DEFINE c == IF cursor[n] < Len(Manifest(n).interfaces) THEN cursor[n] + 1 ELSE 0
           l == IF late' # late /\ pending[n] THEN late[n] + 1 ELSE late[n]
<1>b. /\ cursor' = [cursor EXCEPT ![n] = c] /\ c \in Nat
      /\ \/ cursor[n] < opened[n] /\ c = cursor[n] + 1
         \/ cursor[n] = opened[n] /\ c = 0
  <2>1. cursor' = [cursor EXCEPT ![n] = c]
    BY <1>1, Zenon
  <2>2. cursor[n] <= opened[n] /\ opened[n] = Len(Manifest(n).interfaces)
    BY <1>3, Zenon
  <2>3. \/ cursor[n] < opened[n] /\ c = cursor[n] + 1
        \/ cursor[n] = opened[n] /\ c = 0
    BY <1>a, <2>2, SMTT(30)
  <2>4. c \in Nat
    BY <1>a, <2>3
  <2> QED BY <2>1, <2>3, <2>4, Zenon
<1>c. /\ late' = [late EXCEPT ![n] = l] /\ l \in Nat
      /\ l = late[n] \/ (pending[n] /\ l = late[n] + 1)
  <2>0. late \in [Nodes -> Nat]
    BY <1>3
  <2>1. CASE late' = late
    BY <1>a, <2>0, <2>1, Zenon
  <2>2. CASE late' # late /\ pending[n]
    <3>1. late' = [late EXCEPT ![n] = late[n] + 1]
      BY <2>2
    <3>2. l = late[n] + 1
      BY <2>2, Zenon
    <3>3. late[n] + 1 \in Nat
      BY <1>a
    <3> QED BY <2>2, <3>1, <3>2, <3>3, Zenon
  <2>3. CASE late' # late /\ ~ pending[n]
    <3>1. late' = [late EXCEPT ![n] = late[n]]
      BY <2>3
    <3>2. l = late[n]
      BY <2>3, Zenon
    <3> QED BY <1>a, <3>1, <3>2, Zenon
  <2> QED BY <2>1, <2>2, <2>3, Zenon
<1> HIDE DEF c, l
<1>4. /\ cursor' \in [Nodes -> Nat] /\ late' \in [Nodes -> Nat]
      /\ \A m \in Nodes \ {n} : cursor'[m] = cursor[m] /\ late'[m] = late[m]
      /\ cursor'[n] = c /\ late'[n] = l
  BY <1>3, <1>b, <1>c, Zenon
<1>d. /\ c <= opened[n] /\ (c > 0 => l < c)
      /\ l <= opened[n] /\ (~ pending[n] => l = 0)
  <2>1. /\ late[n] < cursor[n] /\ cursor[n] <= opened[n]
        /\ ~ pending[n] => late[n] = 0
    BY <1>3, Zenon
  <2>2. l \in Nat /\ (l = late[n] \/ (pending[n] /\ l = late[n] + 1))
    BY <1>c, Zenon
  <2>3. CASE cursor[n] < opened[n] /\ c = cursor[n] + 1
    BY <1>a, <2>1, <2>2, <2>3, SMTT(30)
  <2>4. CASE c = 0
    BY <1>a, <2>1, <2>2, <2>4
  <2> QED BY <1>b, <2>3, <2>4, Zenon
<1>5. TypeOK'
  <2>1. ASSUME NEW m \in Nodes PROVE cursor'[m] <= opened[m]
    <3>1. cursor[m] <= opened[m]
      BY TypeFacts, Zenon
    <3>2. CASE m = n
      BY <1>4, <1>d, <3>2
    <3>3. CASE m # n
      BY <1>4, <3>1, <3>3, Zenon
    <3> QED BY <3>2, <3>3, Zenon
  <2>2. \A f \in queue' : f.node \in Nodes /\ f.at \in 1 .. opened'[f.node]
    BY <1>1, Zenon
  <2> QED BY <1>1, <1>4, <2>1, <2>2, TypeFacts, TypeKept, Zenon
<1>6. ASSUME NEW m \in Nodes PROVE ProcessInv(m)'
  <2>1. CASE m # n
    BY <1>1, <1>4, <2>1, Unmoved
  <2>2. CASE m = n
    <3>1. Manifest(n)' = Manifest(n) /\ Allowlist(n)' = Allowlist(n)
          /\ ManifestAccepted(n)' = ManifestAccepted(n)
      BY <1>1, Static, Zenon
    <3>2. ProcessInv(n) /\ cursor[n] \in Nat /\ late[n] \in Nat /\ opened[n] \in Nat
      BY <1>3, Facts, Zenon
    <3>3. /\ cursor'[n] > 0 => late'[n] < cursor'[n]
          /\ late'[n] <= opened[n] /\ (~ pending[n] => late'[n] = 0)
      BY <1>4, <1>d
    <3>4. /\ ManifestAccepted(n) /\ read[n] = 1
          /\ ~ pending[n] => \A k \in Watched : ReadPasses(k, topology[n], Allowlist(n))
      BY <3>2, Zenon DEF ProcessInv, Checks
    <3>5. /\ phase'[n] = "running" /\ read'[n] = read[n] /\ pending'[n] = pending[n]
          /\ topology'[n] = topology[n] /\ opened'[n] = opened[n]
      BY <1>1, Zenon
    <3> QED BY <1>3, <2>2, <3>1, <3>3, <3>4, <3>5, Zenon DEF ProcessInv, Checks, Beyond
  <2> QED BY <2>1, <2>2, Zenon
<1>7. ASSUME NEW f \in queue' PROVE FrameInv(f)'
  BY DEF FrameInv
<1> QED BY <1>2, <1>5, <1>6, <1>7 DEF IInv

LEMMA NothingInv ==
  ASSUME IInv, NEW n \in Nodes, NothingQueued(n)
  PROVE  IInv'
<1>1. /\ phase[n] = "running" /\ cursor[n] > 0 /\ Advance(n)
      /\ UNCHANGED <<environment, pending, phase, read, opened, telemetry, unsent, late, injected, queue>>
  BY DEF NothingQueued, accounts, traffic
<1>2. \A m \in Nodes : CountInv(m)'
  BY <1>1, Uncounted, Zenon
<1>3. telemetry' \in [Nodes -> [Counters -> Nat]]
  BY <1>1, Facts, Zenon DEF TypeOK
<1>4. /\ queue' \subseteq Frame
      /\ \A f \in queue' : f.node \in Nodes /\ f.at \in 1 .. opened[f.node] /\ FrameInv(f)
  BY <1>1, Facts DEF TypeOK
<1> QED BY <1>1, <1>2, <1>3, <1>4, TurnInv, Zenon

LEMMA DropInv ==
  ASSUME IInv, NEW n \in Nodes, DropFrame(n)
  PROVE  IInv'
<1>1. /\ phase[n] = "running" /\ cursor[n] > 0 /\ Advance(n)
      /\ Count(n, {"received", "dropped"})
      /\ UNCHANGED <<environment, pending, phase, read, opened, unsent, late, injected>>
      /\ queue' \subseteq queue
  BY Zenon DEF DropFrame
<1>2. telemetry' \in [Nodes -> [Counters -> Nat]] /\ \A m \in Nodes : CountInv(m)'
  BY <1>1, CountStep, Zenon
<1>4. /\ queue' \subseteq Frame
      /\ \A f \in queue' : f.node \in Nodes /\ f.at \in 1 .. opened[f.node] /\ FrameInv(f)
  BY <1>1, Facts, Zenon DEF TypeOK
<1> QED BY <1>1, <1>2, <1>4, TurnInv, Zenon

\* A forwarded frame has used one more of its hops, and has one left.
LEMMA ForwardedFrame ==
  ASSUME IInv, NEW n \in Nodes, phase[n] = "running", NEW f \in queue, NEW i,
         NEW r \in Routes(n, i, f), NEW g \in Arrivals(n, r, Forwarded(n, r, f))
  PROVE  g \in Frame /\ g.node \in Nodes /\ g.at \in 1 .. opened[g.node] /\ FrameInv(g)
<1>1. f \in Frame /\ f.hop > 1 /\ FrameInv(f)
  BY Facts, Zenon DEF TypeOK, Routes, Admitted
<1>2. f.hop \in 0 .. HOP_MAX /\ f.ttl \in 0 .. HOP_MAX /\ f.hops \in Nat /\ HOP_MAX \in Nat
  BY <1>1, NativeAssumption, Zenon DEF Frame
<1> DEFINE h == (f.hop - 1) % (HOP_MAX + 1)
           src == Hardware(n, Egress(n, r)).mac
<1>3. h = f.hop - 1
  BY <1>1, <1>2
<1>4. src \in Mac
  <2>1. r \in DOMAIN Manifest(n).routes /\ ManifestAccepted(n)
    BY Facts, Zenon DEF Routes, route_for, Matching, ProcessInv
  <2>2. \E e \in Interfaces(n) : Manifest(n).interfaces[e].id = Manifest(n).routes[r].egress
    BY <2>1, Zenon DEF ManifestAccepted, ValidManifest, ValidRoutes, Ids, Interfaces
  <2>3. Egress(n, r) \in Interfaces(n)
    BY <2>2 DEF Egress
  <2> QED BY <2>3, Facts, NativeAssumption, Zenon DEF Hardware, Interfaces, Manifest, Nodes, Lab
<1> HIDE DEF h, src
<1>5. PICK p \in Owners(Manifest(n).routes[r].mac, Hardware(n, Egress(n, r)).segment) :
        g = [Forwarded(n, r, f) EXCEPT !.node = p[1], !.at = p[2]]
  BY Zenon DEF Arrivals
<1>6. p[1] \in Nodes /\ p[2] \in 1 .. opened[p[1]]
  <2>1. PICK m \in Nodes : \E j \in 1 .. opened[m] : p = <<m, j>>
    BY DEF Owners
  <2> QED BY <2>1, SMTT(30)
<1>7. p[1] \in Node /\ p[2] \in Nat
  BY <1>6, Facts, ManifestType
<1>8. Forwarded(n, r, f) = [f EXCEPT !.hop = h, !.hops = f.hops + 1, !.src = src]
  BY DEF Forwarded, h, src
<1>9. h \in 0 .. HOP_MAX /\ f.hops + 1 \in Nat
  BY <1>1, <1>2, <1>3
<1>10. /\ g \in Frame /\ g.node = p[1] /\ g.at = p[2]
       /\ g.hop = h /\ g.hops = f.hops + 1 /\ g.ttl = f.ttl
  BY <1>1, <1>4, <1>5, <1>7, <1>8, <1>9, Zenon DEF Frame
<1> QED BY <1>1, <1>2, <1>3, <1>6, <1>10 DEF FrameInv

LEMMA ForwardInv ==
  ASSUME IInv, NEW n \in Nodes, ForwardFrame(n)
  PROVE  IInv'
<1>1. /\ phase[n] = "running" /\ cursor[n] > 0 /\ Advance(n)
      /\ Count(n, {"received", "forwarded"})
      /\ late' = [late EXCEPT ![n] = IF pending[n] THEN @ + 1 ELSE @]
      /\ UNCHANGED <<environment, pending, phase, read, opened, unsent, injected>>
  BY Zenon DEF ForwardFrame
<1>2. telemetry' \in [Nodes -> [Counters -> Nat]] /\ \A m \in Nodes : CountInv(m)'
  BY <1>1, CountStep, Zenon
<1>3. PICK f \in queue : \E r \in Routes(n, cursor[n], f) :
        queue' = (queue \ {f}) \cup Arrivals(n, r, Forwarded(n, r, f))
  BY DEF ForwardFrame, Queued
<1>4. /\ queue' \subseteq Frame
      /\ \A g \in queue' : g.node \in Nodes /\ g.at \in 1 .. opened[g.node] /\ FrameInv(g)
  BY <1>1, <1>3, Facts, ForwardedFrame, Zenon DEF TypeOK
<1> QED BY <1>1, <1>2, <1>4, TurnInv, Zenon

LEMMA BeginInv ==
  ASSUME IInv, NEW n \in Nodes, BeginStep(n)
  PROVE  IInv'
<1>1. phase[n] = "running" /\ cursor[n] = 0 /\ Readable(n)
  BY Zenon DEF BeginStep
<1>2. CASE pending[n]
  <2>1. Exit(n, "stopped") /\ Count(n, {"faults"}) /\ UNCHANGED <<unsent, late>>
    BY <1>2, Zenon DEF BeginStep, Fatal
  <2>2. \A m \in Nodes \ {n} : phase'[m] = phase[m]
    BY <2>1, Facts, Zenon DEF Exit, Goto, TypeOK
  <2>3. /\ telemetry' \in [Nodes -> [Counters -> Nat]] /\ unsent' \in [Nodes -> BOOLEAN]
        /\ \A m \in Nodes : CountInv(m)'
    BY <1>1, <2>1, <2>2, CountStep
  <2> QED BY <1>1, <2>1, <2>3, ExitInv
<1>3. CASE ~ pending[n]
  <2>1. /\ cursor' = [cursor EXCEPT ![n] = 1]
        /\ UNCHANGED <<lab, topology, changes, pending, phase, read, opened, telemetry, unsent, late,
                       injected, queue>>
    BY <1>3 DEF BeginStep, BeginStepOn, environment, accounts, traffic
  <2>2. Nodes' = Nodes /\ Lab' = Lab
    BY <2>1, Static, Zenon DEF Lab
  <2>3. cursor \in [Nodes -> Nat] /\ opened \in [Nodes -> Nat]
    BY Facts DEF TypeOK
  <2>4. PICK f \in queue : f.node = n
    BY <1>1, <1>3, Zenon DEF Readable, Queued
  <2>5. f.at \in 1 .. opened[n]
    BY <2>4, Facts DEF TypeOK
  <2>6. opened[n] \in Nat /\ 1 <= opened[n]
    BY <2>3, <2>5, SMTT(30)
  <2>7. TypeOK'
    <3>1. cursor' \in [Nodes -> Nat]
      BY <2>1, <2>3
    <3>2. ASSUME NEW m \in Nodes PROVE cursor'[m] <= opened[m]
      BY <2>1, <2>3, <2>6, TypeFacts, Zenon
    <3> QED BY <2>1, <3>1, <3>2, TypeFacts, TypeKept
  <2>8. ASSUME NEW m \in Nodes PROVE ProcessInv(m)' /\ CountInv(m)'
    <3>1. CASE m # n
      BY <2>1, <2>3, <3>1, Unmoved, Uncounted, Zenon
    <3>2. CASE m = n
      <4>1. CountInv(n)'
        BY <2>1, Uncounted
      <4>2. cursor'[n] = 1 /\ late'[n] = 0
        BY <1>1, <1>3, <2>1, <2>3, Facts, Zenon DEF ProcessInv
      <4>3. Manifest(n)' = Manifest(n) /\ Allowlist(n)' = Allowlist(n)
            /\ ManifestAccepted(n)' = ManifestAccepted(n) /\ Len(Manifest(n).interfaces) \in Nat
        BY <2>1, Static, Facts
      <4> QED BY <1>1, <2>1, <3>2, <4>1, <4>2, <4>3, Facts, Zenon DEF ProcessInv, Checks, Beyond
    <3> QED BY <3>1, <3>2, Zenon
  <2>9. ASSUME NEW g \in queue PROVE FrameInv(g)'
    BY Facts DEF FrameInv
  <2> QED BY <2>1, <2>2, <2>7, <2>8, <2>9 DEF IInv
<1> QED BY <1>2, <1>3

LEMMA FaultInv ==
  ASSUME IInv, NEW n \in Nodes, Fault(n)
  PROVE  IInv'
<1>0. /\ phase[n] = "running" /\ Exit(n, "stopped") /\ UNCHANGED late
      /\ \/ UNCHANGED <<telemetry, unsent>>
         \/ Count(n, {"faults"}) /\ UNCHANGED unsent
         \/ Count(n, {"received", "faults"}) /\ unsent' = [unsent EXCEPT ![n] = TRUE]
  BY DEF Fault, PollFails, ReceiveFails, SendFails, Fatal, accounts
<1>1. phase' = [phase EXCEPT ![n] = "stopped"]
  BY <1>0, Zenon DEF Exit, Goto
<1>2. phase'[n] = "stopped" /\ \A m \in Nodes \ {n} : phase'[m] = phase[m]
  BY <1>1, Facts DEF TypeOK
<1>3. /\ telemetry' \in [Nodes -> [Counters -> Nat]] /\ unsent' \in [Nodes -> BOOLEAN]
      /\ \A m \in Nodes : CountInv(m)'
  <2>1. CASE UNCHANGED <<telemetry, unsent>>
    BY <1>2, <2>1, Uncounted, Facts, Zenon DEF TypeOK
  <2>2. CASE Count(n, {"faults"}) /\ UNCHANGED unsent
    BY <1>0, <1>2, <2>2, CountStep, Zenon
  <2>3. CASE Count(n, {"received", "faults"}) /\ unsent' = [unsent EXCEPT ![n] = TRUE]
    BY <1>0, <1>2, <2>3, CountStep, Zenon
  <2> QED BY <1>0, <2>1, <2>2, <2>3, Zenon
<1> QED BY <1>0, <1>3, ExitInv, Zenon

\* A change that the watcher does not report changes nothing the watched
\* reads look at.
LEMMA Unreported ==
  ASSUME NEW t \in Topology, NEW u \in Topology, Reported(t) = Reported(u),
         NEW k \in Watched, NEW names, ReadPasses(k, u, names)
  PROVE  ReadPasses(k, t, names)
BY DEF Reported, Topology, Watched, Reads, ReadPasses, NoDefaultRoute, AddressesInert, Unattached

LEMMA ChangeInv ==
  ASSUME IInv, NEW n \in Nodes, ChangeTopology(n)
  PROVE  IInv'
<1>1. /\ changes < Lab.changes /\ changes' = changes + 1
      /\ UNCHANGED <<lab, phase, read, opened, cursor, telemetry, unsent, late, injected, queue>>
  BY DEF ChangeTopology, process, accounts, traffic
<1>2. PICK t \in Topologies :
        /\ topology' = [topology EXCEPT ![n] = t]
        /\ pending' = [pending EXCEPT ![n] = @ \/ (Bound(n) /\ Reported(t) # Reported(topology[n]))]
  BY Zenon DEF ChangeTopology
<1>3. Nodes' = Nodes /\ Lab' = Lab
  BY <1>1, Static, Zenon DEF Lab
<1>4. /\ topology \in [Nodes -> Topologies] /\ pending \in [Nodes -> BOOLEAN]
      /\ Lab.changes \in Nat /\ changes \in 0 .. Lab.changes
  BY Facts, NativeAssumption, Zenon DEF TypeOK, Lab
<1>5. topology' \in [Nodes -> Topologies]
  BY <1>2, <1>4
<1>6. pending' \in [Nodes -> BOOLEAN]
  BY <1>2, <1>4, Zenon
<1>7. TypeOK'
  <2>1. changes' \in 0 .. Lab.changes
    BY <1>1, <1>4
  <2> QED BY <1>1, <1>5, <1>6, <2>1, TypeFacts, TypeKept, Zenon
<1>8. ASSUME NEW m \in Nodes PROVE ProcessInv(m)' /\ CountInv(m)'
  <2>0. CountInv(m)'
    BY <1>1, Uncounted
  <2>1. CASE m # n
    BY <1>1, <1>2, <1>4, <2>0, <2>1, Unmoved, Zenon
  <2>2. CASE m = n
    <3>1. topology'[n] = t /\ topology[n] \in Topology /\ t \in Topology
      BY <1>2, <1>4, NativeAssumption, Zenon
    <3>2. pending'[n] = (pending[n] \/ (Bound(n) /\ Reported(t) # Reported(topology[n])))
      BY <1>2, <1>4, Zenon
    <3>3. phase[n] \in {"final", "running"} => Bound(n)
      BY Zenon DEF Bound
    <3>4. ASSUME phase[n] \in {"final", "running"}, ~ pending'[n], NEW k \in Watched,
                 k < read[n] \/ phase[n] = "running"
          PROVE  ReadPasses(k, t, Allowlist(n))
      <4>1. ~ pending[n] /\ Reported(t) = Reported(topology[n])
        BY <3>2, <3>3, <3>4, Zenon
      <4>2. ReadPasses(k, topology[n], Allowlist(n))
        BY <3>4, <4>1, Facts DEF ProcessInv
      <4> QED BY <3>1, <4>1, <4>2, Unreported
    <3>5. Manifest(n)' = Manifest(n) /\ Allowlist(n)' = Allowlist(n)
          /\ ManifestAccepted(n)' = ManifestAccepted(n)
      BY <1>1, Static
    <3>6. ~ pending'[n] => ~ pending[n]
      BY <3>2, Zenon
    <3>7. ProcessInv(n)'
      BY <1>1, <3>1, <3>4, <3>5, <3>6, Facts, Zenon DEF ProcessInv
    <3> QED BY <2>0, <2>2, <3>7
  <2> QED BY <2>1, <2>2
<1>9. ASSUME NEW f \in queue PROVE FrameInv(f)'
  BY Facts DEF FrameInv
<1> QED BY <1>1, <1>3, <1>7, <1>8, <1>9 DEF IInv

LEMMA InjectInv ==
  ASSUME IInv, NEW f \in Lab.frames, Inject(f)
  PROVE  IInv'
<1>1. /\ UNCHANGED <<lab, topology, changes, pending, phase, read, opened, cursor, telemetry, unsent, late>>
      /\ queue' = queue \cup {f} /\ injected' = injected \cup {f} /\ f.at <= opened[f.node]
  BY DEF Inject, environment, process, accounts
<1>2. Nodes' = Nodes /\ Lab' = Lab
  BY <1>1, Static, Zenon DEF Lab
<1>3. f \in Frame /\ f.hops = 0 /\ f.ttl = f.hop /\ f.at > 0 /\ f.node \in Nodes
  BY Facts, NativeAssumption, Zenon DEF Lab, Nodes
<1>4. f.at \in 1 .. opened[f.node] /\ f.hop \in 0 .. HOP_MAX
  <2>1. f.at \in Nat /\ f.hop \in 0 .. HOP_MAX
    BY <1>3 DEF Frame
  <2>2. opened[f.node] \in Nat
    BY <1>3, Facts, Zenon DEF TypeOK
  <2>3. f.at > 0 /\ f.at <= opened[f.node]
    BY <1>1, <1>3, Zenon
  <2> QED BY <2>1, <2>2, <2>3, SMTT(30)
<1>5. TypeOK'
  <2>1. queue' \subseteq Frame /\ injected' \subseteq Lab.frames
    BY <1>1, <1>3, TypeFacts, Zenon
  <2>2. \A g \in queue' : g.node \in Nodes /\ g.at \in 1 .. opened'[g.node]
    BY <1>1, <1>3, <1>4, TypeFacts, Zenon
  <2> QED BY <1>1, <2>1, <2>2, TypeFacts, TypeKept, Zenon
<1>6. ASSUME NEW m \in Nodes PROVE ProcessInv(m)' /\ CountInv(m)'
  BY <1>1, Unmoved, Uncounted, Zenon
<1>7. ASSUME NEW g \in queue' PROVE FrameInv(g)'
  <2>0. HOP_MAX \in Nat
    BY NativeAssumption, Zenon
  <2>1. f.hops = 0 /\ f.hop + 0 = f.ttl
    BY <1>3, <1>4, <2>0
  <2>2. CASE g = f
    BY <2>1, <2>2 DEF FrameInv
  <2>3. CASE g \in queue
    BY <2>3, Facts DEF FrameInv
  <2> QED BY <1>1, <2>2, <2>3, Zenon
<1> QED BY <1>1, <1>2, <1>5, <1>6, <1>7, Zenon DEF IInv

LEMMA NextInv == IInv /\ [Next]_vars => IInv'
<1> SUFFICES ASSUME IInv, [Next]_vars PROVE IInv'
  OBVIOUS
<1>1. ASSUME NEW n \in Nodes, Step(n) PROVE IInv'
  BY <1>1, BeginInv, NothingInv, DropInv, ForwardInv DEF Step
<1>2. CASE Next
  BY <1>1, <1>2, LaunchInv, FaultInv, ChangeInv, InjectInv, Zenon DEF Next
<1>3. CASE UNCHANGED vars
  <2>1. UNCHANGED <<lab, topology, changes, pending, phase, read, opened, cursor, telemetry, unsent, late,
                    injected, queue>>
    BY <1>3 DEF vars, environment, process, accounts, traffic
  <2>2. Nodes' = Nodes /\ Lab' = Lab
    BY <2>1, Static, Zenon DEF Lab
  <2>3. TypeOK'
    BY <2>1, TypeFacts, TypeKept
  <2>4. ASSUME NEW m \in Nodes PROVE ProcessInv(m)' /\ CountInv(m)'
    BY <2>1, Unmoved, Uncounted
  <2>5. ASSUME NEW f \in queue PROVE FrameInv(f)'
    BY Facts DEF FrameInv
  <2> QED BY <2>1, <2>2, <2>3, <2>4, <2>5 DEF IInv
<1> QED BY <1>2, <1>3

LEMMA Invariance == Spec => []IInv
BY InitInv, NextInv, PTL DEF Spec

-----------------------------------------------------------------------------
(* Theorems *)

\* Every variable keeps its type; descriptors, cursors and queued frames stay
\* within the interfaces a process has opened.
THEOREM TypeCorrect == Spec => []TypeOK
<1>1. IInv => TypeOK
  BY Zenon DEF IInv
<1> QED BY <1>1, Invariance, PTL

\* In every lab a ready process whose watcher is silent is isolated, however
\* topology changes fall between the reads of the launcher's checks.
THEOREM AlwaysIsolated == Spec => []ReadyIsolated
<1>1. IInv => ReadyIsolated
  BY Zenon DEF IInv, ProcessInv, ReadyIsolated, Isolated
<1> QED BY <1>1, Invariance, PTL

\* For any number of interfaces: at most one late send per descriptor.
THEOREM LateSendsBounded == Spec => []FewLateSends
<1>1. IInv => FewLateSends
  BY DEF IInv, ProcessInv, FewLateSends
<1> QED BY <1>1, Invariance, PTL

\* For any hop limit and any routes, loops included: a packet is forwarded
\* less often than its hop limit says.
THEOREM HopLimitHolds == Spec => []HopsBounded
<1>1. IInv => HopsBounded
  BY Zenon DEF IInv, FrameInv, HopsBounded
<1> QED BY <1>1, Invariance, PTL

\* The counters of every process add up.
THEOREM CountersAddUp == Spec => []Accounted
<1>1. IInv => Accounted
  BY DEF IInv, CountInv, Accounted, TypeOK, Counters
<1> QED BY <1>1, Invariance, PTL

\* For any LOC width and any manifest that a process got past: one longest
\* route per destination.
THEOREM RoutesSingleValued == Spec => []LookupSingleValued
<1>1. IInv => LookupSingleValued
  <2> SUFFICES ASSUME IInv, NEW n \in Nodes, phase[n] \notin {"manifest", "failed"}
               PROVE  SingleValued(Manifest(n))
    BY Zenon DEF LookupSingleValued
  <2>1. ValidManifest(Manifest(n), Allowlist(n))
    BY DEF IInv, ProcessInv, ManifestAccepted
  <2>2. Manifest(n) \in RawManifest
    BY Facts, ManifestType
  <2> QED BY <2>1, <2>2, AcceptedSingleValued
<1> QED BY <1>1, Invariance, PTL
=============================================================================
