----------------------- MODULE ClusterPromoterProofs -----------------------
(***************************************************************************)
(* What holds of the election for every set of nodes and every timing.     *)
(***************************************************************************)
EXTENDS ClusterPromoter, TLAPS

USE DEF Steps, ContainerStates

\* The two constants' assumptions in the shape the provers use.
LEMMA Bounds ==
    /\ LeaseTTL \in Nat /\ LeaseTTL > 0
    /\ ProbeCeiling \in Nat /\ ProbeCeiling > 0
    /\ HoldDown \in Nat /\ HoldDown > 0
    /\ NotifyTimeout \in Nat /\ NotifyTimeout > 0
BY LeaseTTLAssumption, TimingAssumption

\* The values the timers are set to lie in their ranges.
LEMMA Corners ==
    /\ 0 \in 0..ProbeCeiling /\ ProbeCeiling \in 0..ProbeCeiling
    /\ 0 \in 0..HoldDown /\ HoldDown \in 0..HoldDown
    /\ 0 \in 0..NotifyTimeout + 1
BY Bounds

------------------------------------------------------------------------------
(* Type correctness. *)

\* The server's clock takes the owner away with the last of the TTL.
LEMMA ElapseTypes ==
    ASSUME LeaseTypeOK, Elapse
    PROVE  LeaseTypeOK'
<1>1. CASE ttl > 1
  BY <1>1, Bounds DEF LeaseTypeOK, Elapse
<1>2. CASE ttl = 1
  BY <1>2, Bounds DEF LeaseTypeOK, Elapse
<1>3. CASE ttl = 0
  BY <1>3, Bounds DEF LeaseTypeOK, Elapse
<1> QED BY <1>1, <1>2, <1>3, Bounds DEF LeaseTypeOK

\* Each step of the lease keeps the key's owner and its TTL in their sets.
LEMMA LeaseTypes ==
    ASSUME NEW n \in Nodes, LeaseTypeOK,
           \/ TakeOrRenew(n) \/ RenewOnly(n) \/ ForceClaim(n) \/ Release(n) \/ Elapse
           \/ UNCHANGED leaseVars
    PROVE  LeaseTypeOK'
<1>1. CASE HeldAfresh(n)
  BY <1>1, Bounds, NodesAssumption DEF LeaseTypeOK, HeldAfresh
<1>2. CASE holder' = NoNode /\ ttl' = 0
  BY <1>2, Bounds DEF LeaseTypeOK
<1>3. CASE UNCHANGED leaseVars
  BY <1>3 DEF LeaseTypeOK, leaseVars
<1>4. CASE Elapse
  BY <1>4, ElapseTypes
<1> QED
  BY <1>1, <1>2, <1>3, <1>4 DEF TakeOrRenew, RenewOnly, ForceClaim, Release, leaseVars

\* What decide() makes of an answer is a step.
LEMMA ActTypes ==
    ASSUME NEW n \in Nodes, TypeOK, NEW previous, NEW holds \in BOOLEAN,
           Act(n, previous, holds)
    PROVE  pc' \in [Nodes -> Steps]
BY DEF TypeOK, Act

\* So is what it makes of any of the answers a tick may take for the lease's.
LEMMA AnswerTypes ==
    ASSUME NEW n \in Nodes, TypeOK, NEW previous,
           \E answer \in LeaseAnswers(n) : Act(n, previous, answer)
    PROVE  pc' \in [Nodes -> Steps]
<1>1. PICK answer \in LeaseAnswers(n) : Act(n, previous, answer)
  OBVIOUS
<1>2. LeaseGranted(n) \in BOOLEAN
  BY DEF LeaseGranted
<1>3. answer \in BOOLEAN
  BY <1>1, <1>2 DEF LeaseAnswers, TypeOK
<1> QED BY <1>1, <1>3, ActTypes

LEMMA GiveUpTypes ==
    ASSUME NEW n \in Nodes, TypeOK, GiveUp(n)
    PROVE  /\ LeaseTypeOK'
           /\ holddown' \in [Nodes -> 0..HoldDown]
           /\ sinceRelease' \in [Nodes -> 0..HoldDown]
           /\ pc' \in [Nodes -> Steps]
<1>1. LeaseTypeOK'
  BY LeaseTypes DEF GiveUp, TypeOK
<1>2. HoldDown \in 0..HoldDown /\ 0 \in 0..HoldDown
  BY Bounds
<1>3. holddown' \in [Nodes -> 0..HoldDown] /\ sinceRelease' \in [Nodes -> 0..HoldDown]
  BY <1>2 DEF GiveUp, TypeOK
<1> QED
  BY <1>1, <1>3, ActTypes DEF GiveUp

\* A step of one node's promoter keeps every node within its time if it resets its
\* own clock, or starts a probe, or works a script that was.
LEMMA StaysInTime ==
    ASSUME NEW n \in Nodes, TypeOK,
           \A m \in Nodes \ {n} :
               pc'[m] = pc[m] /\ elapsed'[m] = elapsed[m] /\ due'[m] = due[m],
           \/ elapsed'[n] = 0
           \/ pc'[n] = "probe"
           \/ elapsed'[n] = elapsed[n] /\ pc[n] \notin {"idle", "probe"}
    PROVE  \A m \in Nodes : InTime(m)'
<1> SUFFICES ASSUME NEW m \in Nodes
             PROVE  InTime(m)'
  OBVIOUS
<1>1. InTime(m) /\ elapsed[m] \in 0..NotifyTimeout + 1
  BY DEF TypeOK
<1>2. CASE m # n
  BY <1>1, <1>2 DEF InTime
<1>3. CASE m = n
  BY <1>1, <1>3, Bounds DEF InTime
<1> QED BY <1>2, <1>3

\* What any tick leaves alone stays typed.
LEMMA FiresTypes ==
    ASSUME NEW n \in Nodes, TypeOK, Fires(n)
    PROVE  /\ vrrp' \in [Nodes -> {"MASTER", "BACKUP", ""}]
           /\ age' \in [Nodes -> 0..ProbeCeiling]
           /\ localHold' \in [Nodes -> BOOLEAN]
           /\ clusterHold' \in BOOLEAN
           /\ forceFile' \in [Nodes -> BOOLEAN]
           /\ ha' \in [Nodes -> ContainerStates]
           /\ up' \in [Nodes -> BOOLEAN]
           /\ link' \in [Nodes -> BOOLEAN]
           /\ due' \in [Nodes -> BOOLEAN]
BY DEF TypeOK, Fires, hostVars

\* A tick that goes straight to the lease: its branch answers for the lease, the
\* marker, the request and the step, and the rest follows.
LEMMA TickTypes ==
    ASSUME NEW n \in Nodes, TypeOK, Tick(n),
           LeaseTypeOK',
           pc' \in [Nodes -> Steps], \A m \in Nodes \ {n} : pc'[m] = pc[m],
           holddown' \in [Nodes -> 0..HoldDown],
           sinceRelease' \in [Nodes -> 0..HoldDown],
           request' \in [Nodes -> BOOLEAN]
    PROVE  TypeOK'
<1>1. elapsed' \in [Nodes -> 0..NotifyTimeout + 1]
  BY Corners DEF Tick, TypeOK
<1>2. \A m \in Nodes : InTime(m)'
  <2>1. elapsed'[n] = 0
    BY DEF Tick, TypeOK
  <2>2. \A m \in Nodes \ {n} : elapsed'[m] = elapsed[m] /\ due'[m] = due[m]
    BY DEF Tick, Fires, TypeOK
  <2> QED BY <2>1, <2>2, StaysInTime
<1> QED BY <1>1, <1>2, FiresTypes DEF Tick, TypeOK

\* The same for the end of a probe.
LEMMA ProbedTypes ==
    ASSUME NEW n \in Nodes, TypeOK, Probed(n),
           LeaseTypeOK',
           pc' \in [Nodes -> Steps], \A m \in Nodes \ {n} : pc'[m] = pc[m],
           holddown' \in [Nodes -> 0..HoldDown],
           sinceRelease' \in [Nodes -> 0..HoldDown]
    PROVE  TypeOK'
<1>1. elapsed' \in [Nodes -> 0..NotifyTimeout + 1]
  BY Corners DEF Probed, TypeOK
<1>2. \A m \in Nodes : InTime(m)'
  <2>1. elapsed'[n] = 0
    BY DEF Probed, TypeOK
  <2>2. \A m \in Nodes \ {n} : elapsed'[m] = elapsed[m] /\ due'[m] = due[m]
    BY DEF Probed, TypeOK
  <2> QED BY <2>1, <2>2, StaysInTime
<1> QED BY <1>1, <1>2 DEF Probed, TypeOK, hostVars

\* decide() is about one node.
LEMMA ActIsLocal ==
    ASSUME TypeOK, NEW n \in Nodes, NEW previous, NEW holds, Act(n, previous, holds)
    PROVE  \A m \in Nodes \ {n} : pc'[m] = pc[m]
BY DEF Act, TypeOK

LEMMA RunTickTypes ==
    ASSUME NEW n \in Nodes, TypeOK, RunTick(n)
    PROVE  TypeOK'
<1> USE DEF leaseVars
<1>1. CASE TickUnreachable(n)
  BY <1>1, TickTypes DEF TypeOK, LeaseTypeOK, TickUnreachable
<1>2. CASE TickHeld(n) \/ TickHeartbeatLate(n)
  <2>1. Tick(n) /\ RenewOnly(n) /\ UNCHANGED <<holddown, request, pc, sinceRelease>>
    BY <1>2 DEF TickHeld, TickHeartbeatLate
  <2>2. LeaseTypeOK'
    BY <2>1, LeaseTypes DEF TypeOK
  <2> QED BY <2>1, <2>2, TickTypes DEF TypeOK
<1>3. CASE TickForced(n)
  <2>1. LeaseTypeOK'
    BY <1>3, LeaseTypes DEF TickForced, TypeOK
  <2>2. sinceRelease' \in [Nodes -> 0..HoldDown]
    BY <1>3, Corners DEF TickForced, TypeOK
  <2>3. Act(n, vrrp[n], TRUE) \/ UNCHANGED pc
    BY <1>3 DEF TickForced
  <2>4. Tick(n) /\ UNCHANGED <<holddown, request>>
    BY <1>3 DEF TickForced
  <2>5. pc' \in [Nodes -> Steps] /\ \A m \in Nodes \ {n} : pc'[m] = pc[m]
    BY <2>3, ActTypes, ActIsLocal DEF TypeOK
  <2> QED
    BY <2>1, <2>2, <2>4, <2>5, TickTypes DEF TypeOK
<1>4. CASE TickHandover(n)
  <2>1. GiveUp(n) /\ Tick(n)
    BY <1>4 DEF TickHandover
  <2>2. request' \in [Nodes -> BOOLEAN]
    BY <1>4 DEF TickHandover, TypeOK
  <2>3. \A m \in Nodes \ {n} : pc'[m] = pc[m]
    BY <2>1, ActIsLocal DEF GiveUp
  <2> QED
    BY <2>1, <2>2, <2>3, GiveUpTypes, TickTypes
<1>5. CASE TickHeldDown(n)
  <2>1. /\ Act(n, vrrp[n], FALSE) /\ Tick(n)
        /\ UNCHANGED <<leaseVars, holddown, request, sinceRelease>>
    BY <1>5 DEF TickHeldDown
  <2>2. LeaseTypeOK'
    BY <2>1 DEF TypeOK, LeaseTypeOK
  <2> QED BY <2>1, <2>2, ActTypes, ActIsLocal, TickTypes DEF TypeOK
<1>6. CASE TickLease(n)
  <2>1. LeaseTypeOK'
    BY <1>6, LeaseTypes DEF TickLease, TypeOK
  <2>2. /\ Tick(n) /\ \E answer \in LeaseAnswers(n) : Act(n, vrrp[n], answer)
        /\ UNCHANGED <<holddown, request, sinceRelease>>
    BY <1>6 DEF TickLease
  <2> QED
    BY <2>1, <2>2, AnswerTypes, ActIsLocal, TickTypes DEF TypeOK
<1>7. CASE TickReplyLost(n)
  <2>1. LeaseTypeOK'
    BY <1>7, LeaseTypes DEF TickReplyLost, TypeOK
  <2>2. Tick(n) /\ UNCHANGED <<holddown, request, pc, sinceRelease>>
    BY <1>7 DEF TickReplyLost
  <2> QED
    BY <2>1, <2>2, TickTypes DEF TypeOK
<1>8. CASE TickProbes(n)
  <2>1. /\ pc' = [pc EXCEPT ![n] = "probe"] /\ Fires(n)
        /\ UNCHANGED <<leaseVars, holddown, request, elapsed, sinceRelease>>
    BY <1>8 DEF TickProbes
  <2>2. pc' \in [Nodes -> Steps]
    BY <2>1 DEF TypeOK
  <2>3. \A m \in Nodes : InTime(m)'
    <3>1. pc'[n] = "probe" /\ \A m \in Nodes \ {n} : pc'[m] = pc[m]
      BY <2>1 DEF TypeOK
    <3>2. \A m \in Nodes \ {n} : elapsed'[m] = elapsed[m] /\ due'[m] = due[m]
      BY <2>1 DEF Fires, TypeOK
    <3> QED BY <3>1, <3>2, StaysInTime
  <2>4. LeaseTypeOK'
    BY <2>1 DEF TypeOK, LeaseTypeOK
  <2> QED BY <2>1, <2>2, <2>3, <2>4, FiresTypes DEF TypeOK
<1>9. CASE TickRelease(n)
  <2>1. GiveUp(n) /\ Probed(n)
    BY <1>9 DEF TickRelease
  <2>2. \A m \in Nodes \ {n} : pc'[m] = pc[m]
    BY <2>1, ActIsLocal DEF GiveUp
  <2> QED BY <2>1, <2>2, GiveUpTypes, ProbedTypes
<1>10. CASE TickRenews(n)
  <2>1. LeaseTypeOK'
    BY <1>10, LeaseTypes DEF TickRenews, TypeOK
  <2>2. /\ Probed(n) /\ \E answer \in LeaseAnswers(n) : Act(n, "MASTER", answer)
        /\ UNCHANGED <<holddown, sinceRelease>>
    BY <1>10 DEF TickRenews
  <2> QED BY <2>1, <2>2, AnswerTypes, ActIsLocal, ProbedTypes DEF TypeOK
<1>11. CASE TickCutOff(n)
  <2>1. LeaseTypeOK'
    BY <1>11, LeaseTypes DEF TickCutOff, TypeOK
  <2>2. /\ Probed(n) /\ pc' = [pc EXCEPT ![n] = "idle"]
        /\ UNCHANGED <<holddown, sinceRelease>>
    BY <1>11 DEF TickCutOff
  <2>3. pc' \in [Nodes -> Steps] /\ \A m \in Nodes \ {n} : pc'[m] = pc[m]
    BY <2>2 DEF TypeOK
  <2> QED BY <2>1, <2>2, <2>3, ProbedTypes DEF TypeOK
<1> QED
  BY <1>1, <1>2, <1>3, <1>4, <1>5, <1>6, <1>7, <1>8, <1>9, <1>10, <1>11 DEF RunTick

\* What a script's step does to its node's clocks, and to no other's.
LEMMA ScriptIsLocal ==
    ASSUME TypeOK, NEW n \in Nodes, RunScript(n)
    PROVE  /\ pc[n] \notin {"idle", "probe"} /\ pc'[n] \notin {"probe", "recordMaster"}
           /\ UNCHANGED <<elapsed, due>>
           /\ \A m \in Nodes \ {n} : pc'[m] = pc[m]
<1>1. CASE RecordMaster(n) \/ StopFirst(n) \/ StartHA(n) \/ WaitHA(n) \/ PostStartHooks(n)
  BY <1>1 DEF RecordMaster, StopFirst, StartHA, WaitHA, PostStartHooks, Script, Goto, Finish,
              TypeOK
<1>2. CASE RecordBackup(n) \/ StopHA(n) \/ ScriptFails(n) \/ NotifyTimesOut(n)
  BY <1>2 DEF RecordBackup, StopHA, ScriptFails, NotifyTimesOut, Script, Goto, Finish, TypeOK
<1> QED BY <1>1, <1>2 DEF RunScript

LEMMA RunScriptTypes ==
    ASSUME NEW n \in Nodes, TypeOK, RunScript(n)
    PROVE  TypeOK'
<1> USE DEF leaseVars, fileVars, hostVars
<1>1. elapsed' \in [Nodes -> 0..NotifyTimeout + 1] /\ due' \in [Nodes -> BOOLEAN]
      /\ \A m \in Nodes : InTime(m)'
  <2>1. /\ elapsed' = elapsed /\ due' = due /\ pc[n] \notin {"idle", "probe"}
        /\ \A m \in Nodes \ {n} : pc'[m] = pc[m]
    BY ScriptIsLocal
  <2>2. \A m \in Nodes : InTime(m)'
    BY <2>1, StaysInTime
  <2> QED BY <2>1, <2>2 DEF TypeOK
<1>2. /\ pc' \in [Nodes -> Steps] /\ ha' \in [Nodes -> ContainerStates]
      /\ vrrp' \in [Nodes -> {"MASTER", "BACKUP", ""}] /\ age' \in [Nodes -> 0..ProbeCeiling]
      /\ UNCHANGED <<holddown, localHold, clusterHold, forceFile, request, up, link,
                     sinceRelease>>
      /\ UNCHANGED leaseVars \/ \E next \in {"stopped"} : ContainerStops(n, next)
  <2>1. CASE RecordMaster(n) \/ RecordBackup(n)
    <3>1. /\ \E step \in Steps : Goto(n, step)
          /\ UNCHANGED <<leaseVars, ha, holddown, localHold, clusterHold, forceFile, request,
                         up, link, sinceRelease>>
          /\ Record(n, "MASTER") \/ Record(n, "BACKUP")
      BY <2>1 DEF RecordMaster, RecordBackup
    <3>2. pc' \in [Nodes -> Steps] /\ vrrp' \in [Nodes -> {"MASTER", "BACKUP", ""}]
      BY <3>1 DEF Goto, Record, TypeOK
    <3>3. age' \in [Nodes -> 0..ProbeCeiling]
      BY <3>1, Corners DEF Record, TypeOK
    <3> QED BY <3>1, <3>2, <3>3 DEF TypeOK
  <2>2. CASE StopFirst(n) \/ StartHA(n) \/ WaitHA(n) \/ PostStartHooks(n)
    <3>1. \E step \in Steps : Goto(n, step)
      BY <2>2 DEF StopFirst, StartHA, WaitHA, PostStartHooks, Finish
    <3>2. pc' \in [Nodes -> Steps]
      BY <3>1 DEF Goto, TypeOK
    <3>3. /\ UNCHANGED leaseVars \/ ContainerStops(n, "stopped")
          /\ ha' \in [Nodes -> ContainerStates]
          /\ UNCHANGED <<vrrp, age, holddown, localHold, clusterHold, forceFile, request, up,
                         link, sinceRelease>>
      BY <2>2 DEF StopFirst, ContainerStops, StartHA, WaitHA, PostStartHooks, TypeOK
    <3> QED BY <3>2, <3>3 DEF TypeOK
  <2>3. CASE StopHA(n) \/ ScriptFails(n) \/ NotifyTimesOut(n)
    BY <2>3 DEF StopHA, ContainerStops, ScriptFails, NotifyTimesOut, Goto, Finish, TypeOK
  <2> QED BY <2>1, <2>2, <2>3 DEF RunScript
<1>3. LeaseTypeOK'
  BY <1>2, LeaseTypes DEF ContainerStops, TypeOK
<1> QED BY <1>1, <1>2, <1>3 DEF TypeOK

LEMMA HomeAssistantTypes ==
    ASSUME NEW n \in Nodes, TypeOK, HomeAssistant(n)
    PROVE  TypeOK'
<1> USE DEF leaseVars, fileVars, hostVars, tickVars, TypeOK, HaOnly, InTime
<1>1. CASE HaAnswers(n) \/ HaWedges(n) \/ HaCrashes(n) \/ HaRespawns(n) \/ OperatorStarts(n)
  BY <1>1 DEF HaAnswers, HaWedges, HaCrashes, HaRespawns, OperatorStarts, LeaseTypeOK
<1>2. CASE OperatorStops(n)
  <2>1. PICK next \in {"stopped", "booting"} : ContainerStops(n, next)
    BY <1>2 DEF OperatorStops
  <2>2. LeaseTypeOK'
    BY <2>1, LeaseTypes DEF ContainerStops
  <2>3. ha' \in [Nodes -> ContainerStates]
    BY <2>1 DEF ContainerStops
  <2> QED
    BY <1>2, <2>2, <2>3 DEF OperatorStops
<1>3. CASE IntegrationResolves(n)
  BY <1>3, LeaseTypes DEF IntegrationResolves
<1> QED BY <1>1, <1>2, <1>3 DEF HomeAssistant

LEMMA OperatorTypes ==
    ASSUME NEW n \in Nodes, TypeOK, Operator(n)
    PROVE  TypeOK'
<1> USE DEF leaseVars, fileVars, hostVars, tickVars, TypeOK, OperatorOnly, LeaseTypeOK, InTime
<1>1. CASE SetOrClearLocalHold(n) \/ PlaceOrRemoveForce(n)
  BY <1>1 DEF SetOrClearLocalHold, PlaceOrRemoveForce
<1>2. CASE RequestHandover(n) \/ WithdrawHandover(n)
  BY <1>2 DEF RequestHandover, WithdrawHandover
<1>3. CASE Adopt(n)
  BY <1>3, Corners DEF Adopt
<1> QED BY <1>1, <1>2, <1>3 DEF Operator

LEMMA EnvironmentTypes ==
    ASSUME NEW n \in Nodes, TypeOK, Environment(n)
    PROVE  TypeOK'
<1> USE DEF leaseVars, fileVars, hostVars, tickVars, LeaseTypeOK
<1>1. CASE LinkFailsOrHeals(n)
  BY <1>1 DEF LinkFailsOrHeals, InTime, TypeOK
<1>2. CASE PowerLoss(n)
  <2>1. \A m \in Nodes : InTime(m)'
    <3>1. elapsed'[n] = 0
      BY <1>2 DEF PowerLoss, TypeOK
    <3>2. \A m \in Nodes \ {n} :
              pc'[m] = pc[m] /\ elapsed'[m] = elapsed[m] /\ due'[m] = due[m]
      BY <1>2 DEF PowerLoss, TypeOK
    <3> QED BY <3>1, <3>2, StaysInTime
  <2> QED BY <1>2, <2>1, Corners DEF PowerLoss, TypeOK
<1>3. CASE Boot(n)
  BY <1>3, Corners DEF Boot, InTime, TypeOK
<1> QED BY <1>1, <1>2, <1>3 DEF Environment

LEMMA AdvanceTypes ==
    ASSUME TypeOK, Advance
    PROVE  TypeOK'
<1>1. LeaseTypeOK'
  BY ElapseTypes DEF TypeOK, Advance
<1>2. age' \in [Nodes -> 0..ProbeCeiling]
  <2>1. ASSUME NEW n \in Nodes
        PROVE  (IF age[n] < ProbeCeiling THEN age[n] + 1 ELSE age[n]) \in 0..ProbeCeiling
    <3>1. age[n] \in 0..ProbeCeiling
      BY DEF TypeOK
    <3> QED BY <3>1, Bounds
  <2> QED BY <2>1 DEF Advance
<1>3. holddown' \in [Nodes -> 0..HoldDown]
  <2>1. ASSUME NEW n \in Nodes
        PROVE  (IF holddown[n] > 0 THEN holddown[n] - 1 ELSE 0) \in 0..HoldDown
    <3>1. holddown[n] \in 0..HoldDown
      BY DEF TypeOK
    <3> QED BY <3>1, Bounds
  <2> QED BY <2>1 DEF Advance, HolddownAged
<1>4. sinceRelease' \in [Nodes -> 0..HoldDown]
  <2>1. ASSUME NEW n \in Nodes
        PROVE  (IF sinceRelease[n] < HoldDown THEN sinceRelease[n] + 1
                ELSE sinceRelease[n]) \in 0..HoldDown
    <3>1. sinceRelease[n] \in 0..HoldDown
      BY DEF TypeOK
    <3> QED BY <3>1, Bounds
  <2> QED BY <2>1 DEF Advance
<1>5. elapsed' \in [Nodes -> 0..NotifyTimeout + 1] /\ \A n \in Nodes : InTime(n)'
  <2>1. ASSUME NEW n \in Nodes
        PROVE  elapsed[n] \in 0..NotifyTimeout /\ (pc[n] = "idle" \/ elapsed[n] < NotifyTimeout)
    <3>1. elapsed[n] \in 0..NotifyTimeout + 1 /\ InTime(n) /\ PeriodOver(n)
      BY DEF TypeOK, Advance
    <3> QED BY <3>1, Bounds DEF InTime, PeriodOver
  <2>2. ASSUME NEW n \in Nodes
        PROVE  (IF up[n] THEN elapsed[n] + 1 ELSE 0) \in 0..NotifyTimeout + 1
    BY <2>1, Bounds
  <2>3. elapsed' \in [Nodes -> 0..NotifyTimeout + 1]
    BY <2>2 DEF Advance
  <2>4. ASSUME NEW n \in Nodes
        PROVE  InTime(n)'
    <3>1. /\ elapsed'[n] = IF up[n] THEN elapsed[n] + 1 ELSE 0
          /\ due'[n] = (up[n] /\ pc[n] = "idle") /\ pc'[n] = pc[n]
      BY DEF Advance
    <3>2. CASE pc[n] = "idle" /\ up[n]
      BY <3>1, <3>2 DEF InTime
    <3>3. CASE ~up[n]
      BY <3>1, <3>3, Bounds DEF InTime
    <3>4. CASE pc[n] # "idle" /\ up[n]
      <4>1. elapsed[n] + 1 <= NotifyTimeout
        BY <2>1, <3>4, Bounds
      <4> QED BY <3>1, <3>4, <4>1 DEF InTime
    <3> QED BY <3>2, <3>3, <3>4
  <2> QED BY <2>3, <2>4
<1>6. due' \in [Nodes -> BOOLEAN]
  <2>1. ASSUME NEW n \in Nodes
        PROVE  (up[n] /\ pc[n] = "idle") \in BOOLEAN
    OBVIOUS
  <2> QED BY <2>1 DEF Advance
<1> QED
  BY <1>1, <1>2, <1>3, <1>4, <1>5, <1>6 DEF TypeOK, Advance, hostVars

\* The lease, every file and every script stay within their types, for any
\* number of nodes and any timing.
THEOREM TypeCorrect == Spec => []TypeOK
<1>1. Init => TypeOK
  <2> SUFFICES ASSUME Init
               PROVE  TypeOK
    OBVIOUS
  <2>1. LeaseTypeOK
    BY Bounds, NodesAssumption DEF Init, LeaseInit, LeaseTypeOK
  <2>2. ha \in [Nodes -> ContainerStates]
    BY DEF Init
  <2>3. /\ age \in [Nodes -> 0..ProbeCeiling]
        /\ holddown \in [Nodes -> 0..HoldDown]
        /\ elapsed \in [Nodes -> 0..NotifyTimeout + 1]
        /\ sinceRelease \in [Nodes -> 0..HoldDown]
    BY Corners DEF Init
  <2>4. \A n \in Nodes : InTime(n)
    BY Bounds DEF Init, InTime
  <2> QED BY <2>1, <2>2, <2>3, <2>4 DEF Init, TypeOK
<1>2. TypeOK /\ [Next]_vars => TypeOK'
  <2> SUFFICES ASSUME TypeOK, [Next]_vars
               PROVE  TypeOK'
    OBVIOUS
  <2>1. CASE Next
    <3>1. CASE \E n \in Nodes : RunTick(n) \/ RunScript(n) \/ HomeAssistant(n)
                                  \/ Operator(n) \/ Environment(n)
      BY <3>1, RunTickTypes, RunScriptTypes, HomeAssistantTypes, OperatorTypes,
         EnvironmentTypes
    <3>2. CASE SetOrClearClusterHold
      BY <3>2 DEF SetOrClearClusterHold, OperatorOnly, TypeOK, LeaseTypeOK, leaseVars,
                  fileVars, hostVars, tickVars, InTime
    <3> QED BY <2>1, <3>1, <3>2, AdvanceTypes DEF Next
  <2>2. CASE UNCHANGED vars
    BY <2>2 DEF vars, leaseVars, fileVars, hostVars, tickVars, TypeOK, LeaseTypeOK, InTime
  <2> QED BY <2>1, <2>2
<1> QED BY <1>1, <1>2, PTL DEF Spec

------------------------------------------------------------------------------
(* The lock. *)

\* Every answer of the store reaches the command it answers.
InStep == "stall" \notin Disturbances

\* A tick that reads no hold is in none.
LEMMA UnheldInStep ==
    ASSUME InStep, NEW n \in Nodes, Unheld(n)
    PROVE  ~Held(n)
BY DEF Unheld, HoldReadings, InStep

\* Every way the lease can change hands when only the promoters run for it: it
\* falls free, it stays, a node takes it free that nothing bars or that was at its
\* probe as the leader, or a forced one seizes it.
LEMMA LeaseMoves ==
    ASSUME ~LeaseSource, [Next]_vars
    PROVE  \/ holder' = NoNode
           \/ holder' = holder
           \/ \E n \in Nodes : /\ holder = NoNode /\ holder' = n
                               /\ \/ pc[n] = "probe"
                                  \/ pc[n] = "idle" /\ ~HeldDown(n) /\ (InStep => ~Held(n))
           \/ \E n \in Nodes : forceFile[n] /\ holder' = n
<1> USE DEF leaseVars
<1>1. ASSUME NEW n \in Nodes, TakeOrRenew(n)
      PROVE  holder' = holder \/ (holder = NoNode /\ holder' = n)
  BY <1>1 DEF TakeOrRenew, LeaseGranted, HeldAfresh
<1>2. ASSUME NEW n \in Nodes, RenewOnly(n)
      PROVE  holder' = holder
  BY <1>2 DEF RenewOnly, RenewGranted, HeldAfresh
<1>3. ASSUME NEW n \in Nodes, Release(n)
      PROVE  holder' = holder \/ holder' = NoNode
  BY <1>3 DEF Release
<1>4. ASSUME NEW n \in Nodes, NEW next, ContainerStops(n, next)
      PROVE  holder' = holder \/ holder' = NoNode
  BY <1>4, <1>3 DEF ContainerStops
<1>5. ASSUME NEW n \in Nodes, RunTick(n)
      PROVE  \/ holder' = NoNode
             \/ holder' = holder
             \/ /\ holder = NoNode /\ holder' = n
                /\ \/ pc[n] = "probe"
                   \/ pc[n] = "idle" /\ ~HeldDown(n) /\ (InStep => ~Held(n))
             \/ forceFile[n] /\ holder' = n
  <2>1. CASE TickUnreachable(n) \/ TickHeldDown(n) \/ TickProbes(n)
    BY <2>1 DEF TickUnreachable, TickHeldDown, TickProbes
  <2>2. CASE TickHeld(n) \/ TickHeartbeatLate(n)
    BY <2>2, <1>2 DEF TickHeld, TickHeartbeatLate
  <2>3. CASE TickForced(n)
    BY <2>3 DEF TickForced, ForceClaim, HeldAfresh
  <2>4. CASE TickHandover(n) \/ TickRelease(n)
    BY <2>4, <1>3 DEF TickHandover, TickRelease, GiveUp
  <2>5. ASSUME Tick(n), OrdinaryTick(n)
        PROVE  pc[n] = "idle" /\ ~HeldDown(n) /\ (InStep => ~Held(n))
    BY <2>5, UnheldInStep DEF Tick, Fires, OrdinaryTick
  <2>6. CASE TickLease(n)
    BY <2>6, <2>5, <1>1 DEF TickLease
  <2>7. CASE TickReplyLost(n)
    BY <2>7, <2>5, <1>1, <1>2, <1>3 DEF TickReplyLost
  <2>8. CASE TickRenews(n) \/ TickCutOff(n)
    BY <2>8, <1>1, <1>3 DEF TickRenews, TickCutOff, Probed
  <2> QED BY <1>5, <2>1, <2>2, <2>3, <2>4, <2>6, <2>7, <2>8 DEF RunTick
<1>6. ASSUME NEW n \in Nodes, RunScript(n)
      PROVE  holder' = holder \/ holder' = NoNode
  BY <1>6, <1>4 DEF RunScript, RecordMaster, StopFirst, StartHA, WaitHA, PostStartHooks,
                    RecordBackup, StopHA, ScriptFails, NotifyTimesOut
<1>7. ASSUME NEW n \in Nodes, HomeAssistant(n)
      PROVE  holder' = holder \/ holder' = NoNode
  BY <1>7, <1>4 DEF HomeAssistant, HaAnswers, HaWedges, HaCrashes, HaRespawns,
                    OperatorStops, OperatorStarts, IntegrationResolves
<1>8. ASSUME NEW n \in Nodes, Operator(n) \/ Environment(n)
      PROVE  holder' = holder
  BY <1>8 DEF Operator, SetOrClearLocalHold, RequestHandover, WithdrawHandover,
              PlaceOrRemoveForce, Adopt, OperatorOnly, Environment, LinkFailsOrHeals,
              PowerLoss, Boot
<1>9. ASSUME SetOrClearClusterHold \/ Advance \/ UNCHANGED vars
      PROVE  holder' = holder \/ holder' = NoNode
  BY <1>9 DEF SetOrClearClusterHold, OperatorOnly, Advance, Elapse, vars
<1> QED BY <1>5, <1>6, <1>7, <1>8, <1>9 DEF Next

\* A node at its probe began it as the leader; if an operator's --adopt has recorded
\* otherwise since, it has ended the hold-down with it.
ProbesAsLeader(n) == pc[n] = "probe" => vrrp[n] = "MASTER" \/ holddown[n] = 0

\* The variables of n that ProbesAsLeader reads.
ProbeFrame(n) == pc'[n] = pc[n] /\ vrrp'[n] = vrrp[n] /\ holddown'[n] = holddown[n]

\* The role, the marker and the step of a node are its own.
LEMMA ProbeIsLocal ==
    ASSUME TypeOK, NEW n \in Nodes, NEW m \in Nodes \ {n},
           RunTick(m) \/ RunScript(m) \/ HomeAssistant(m) \/ Operator(m) \/ Environment(m)
    PROVE  ProbeFrame(n)
<1> USE DEF TypeOK, ProbeFrame, fileVars, hostVars, tickVars
<1>1. CASE RunTick(m)
  BY <1>1 DEF RunTick, TickUnreachable, TickHeld, TickForced, TickHandover, TickRelease,
              TickHeldDown, TickLease, TickReplyLost, TickHeartbeatLate, TickProbes,
              TickRenews, TickCutOff, Tick, Fires, Probed, GiveUp, Act
<1>2. CASE RunScript(m)
  BY <1>2 DEF RunScript, RecordMaster, StopFirst, StartHA, WaitHA, PostStartHooks,
              RecordBackup, StopHA, ScriptFails, NotifyTimesOut, Record, Goto, Finish
<1>3. CASE HomeAssistant(m)
  BY <1>3 DEF HomeAssistant, HaAnswers, HaWedges, HaCrashes, HaRespawns, HaOnly,
              OperatorStops, OperatorStarts, IntegrationResolves
<1>4. CASE Operator(m)
  BY <1>4 DEF Operator, SetOrClearLocalHold, RequestHandover, WithdrawHandover,
              PlaceOrRemoveForce, Adopt, OperatorOnly
<1>5. CASE Environment(m)
  BY <1>5 DEF Environment, LinkFailsOrHeals, PowerLoss, Boot
<1> QED BY <1>1, <1>2, <1>3, <1>4, <1>5

LEMMA ProbesStep ==
    ASSUME TypeOK, NEW n \in Nodes, ProbesAsLeader(n), [Next]_vars
    PROVE  ProbesAsLeader(n)'
<1> USE DEF fileVars, hostVars, tickVars
<1>1. ASSUME ProbeFrame(n)
      PROVE  ProbesAsLeader(n)'
  BY <1>1 DEF ProbeFrame, ProbesAsLeader
<1>2. CASE RunTick(n)
  <2>1. CASE TickProbes(n)
    BY <2>1 DEF TickProbes, Fires, ProbesAsLeader
  <2>2. CASE ~TickProbes(n)
    <3>1. pc'[n] # "probe"
      BY <1>2, <2>2 DEF RunTick, TickUnreachable, TickHeld, TickForced, TickHandover,
            TickRelease, TickHeldDown, TickLease, TickReplyLost, TickHeartbeatLate,
            TickRenews, TickCutOff, Tick, Fires, Probed, GiveUp, Act, TypeOK
    <3> QED BY <3>1 DEF ProbesAsLeader
  <2> QED BY <2>1, <2>2
<1>3. CASE RunScript(n)
  BY <1>3, ScriptIsLocal DEF ProbesAsLeader
<1>4. CASE HomeAssistant(n)
  BY <1>4, <1>1 DEF ProbeFrame, HomeAssistant, HaAnswers, HaWedges, HaCrashes, HaRespawns,
              HaOnly, OperatorStops, OperatorStarts, IntegrationResolves
<1>5. CASE Operator(n)
  <2>1. CASE Adopt(n)
    BY <2>1 DEF Adopt, OperatorOnly, ProbesAsLeader, TypeOK
  <2>2. CASE ~Adopt(n)
    BY <1>5, <2>2, <1>1 DEF ProbeFrame, Operator, SetOrClearLocalHold, RequestHandover,
              WithdrawHandover, PlaceOrRemoveForce, OperatorOnly
  <2> QED BY <2>1, <2>2
<1>6. CASE Environment(n)
  BY <1>6 DEF Environment, LinkFailsOrHeals, PowerLoss, Boot, ProbesAsLeader, TypeOK
<1>7. CASE Advance
  <2>1. pc'[n] # "probe"
    BY <1>7 DEF Advance, PeriodOver
  <2> QED BY <2>1 DEF ProbesAsLeader
<1>8. CASE SetOrClearClusterHold \/ UNCHANGED vars
  BY <1>8, <1>1 DEF ProbeFrame, SetOrClearClusterHold, OperatorOnly, vars
<1> QED BY <1>1, <1>2, <1>3, <1>4, <1>5, <1>6, <1>7, <1>8, ProbeIsLocal DEF Next

LEMMA AlwaysProbesAsLeader == Spec => [](\A n \in Nodes : ProbesAsLeader(n))
<1>1. Init => \A n \in Nodes : ProbesAsLeader(n)
  BY DEF Init, ProbesAsLeader
<1>2. TypeOK /\ (\A n \in Nodes : ProbesAsLeader(n)) /\ [Next]_vars
        => (\A n \in Nodes : ProbesAsLeader(n))'
  BY ProbesStep
<1> QED BY <1>1, <1>2, TypeCorrect, PTL DEF Spec

\* The election implements the abstract lock for any number of nodes, any timing
\* and every other disturbance, so long as the promoters alone run for the lease (a
\* retake without a hold-down by leadership.py's lease source is no step of it) and
\* no hold goes unread.
THEOREM RefinesLock == InStep /\ ~LeaseSource /\ Spec => ElectionIsALock
<1> SUFFICES ASSUME InStep, ~LeaseSource
             PROVE  Spec => ElectionIsALock
  OBVIOUS
<1>1. Init => Lock!Init
  BY DEF Init, LeaseInit, Lock!Init
<1>2. (\A n \in Nodes : ProbesAsLeader(n)) /\ [Next]_vars => [Lock!Next]_(Lock!vars)
  <2> SUFFICES ASSUME \A n \in Nodes : ProbesAsLeader(n), [Next]_vars
               PROVE  Lock!Next
    OBVIOUS
  <2>1. /\ {n \in Nodes : (Held(n) /\ pc[n] # "probe") \/ HeldDown(n)}' \subseteq Nodes
        /\ {n \in Nodes : forceFile[n]}' \subseteq Nodes
    OBVIOUS
  <2>2. CASE holder' = NoNode
    BY <2>1, <2>2 DEF Lock!Next, Lock!Vacate
  <2>3. CASE holder' = holder
    BY <2>1, <2>3 DEF Lock!Next, Lock!Reassess
  <2>4. ASSUME NEW n \in Nodes, holder = NoNode, holder' = n,
               \/ pc[n] = "probe"
               \/ pc[n] = "idle" /\ ~HeldDown(n) /\ (InStep => ~Held(n))
        PROVE  Lock!Next
    <3>1. ~HeldDown(n) /\ ~(Held(n) /\ pc[n] # "probe")
      BY <2>4 DEF ProbesAsLeader, HeldDown
    <3> QED BY <2>1, <2>4, <3>1 DEF Lock!Next, Lock!Take
  <2>5. CASE \E n \in Nodes : forceFile[n] /\ holder' = n
    BY <2>1, <2>5 DEF Lock!Next, Lock!Seize
  <2> QED BY <2>2, <2>3, <2>4, <2>5, LeaseMoves
<1> QED BY <1>1, <1>2, AlwaysProbesAsLeader, PTL DEF Spec, ElectionIsALock, Lock!Spec

------------------------------------------------------------------------------
(* The maintenance hold. *)

\* Under the hold, with nobody forcing, a step starts no script and moves the
\* lease to nobody new, but for the end of a probe that was under way.
LEMMA HoldStep ==
    ASSUME InStep, TypeOK, Next, clusterHold, \A n \in Nodes : ~forceFile[n]
    PROVE  /\ holder' \in {holder, NoNode} \cup {n \in Nodes : pc[n] = "probe"}
           /\ \A n \in Nodes : pc[n] = "idle" => pc'[n] = "idle"
<1> USE DEF leaseVars, fileVars, hostVars, tickVars
<1>1. ASSUME NEW n \in Nodes
      PROVE  Held(n) /\ ~Unheld(n) /\ ~forceFile[n]
  BY UnheldInStep DEF Held
<1>2. ASSUME NEW n \in Nodes, RunTick(n)
      PROVE  /\ holder' \in {holder, NoNode} \cup {m \in Nodes : pc[m] = "probe"}
             /\ \A m \in Nodes : pc[m] = "idle" => pc'[m] = "idle"
  <2>1. CASE TickUnreachable(n) \/ TickHeld(n)
    <3>1. holder' = holder /\ pc' = pc
      BY <2>1 DEF TickUnreachable, TickHeld, RenewOnly, RenewGranted, HeldAfresh
    <3> QED BY <3>1
  <2>2. CASE TickReplyLost(n)
    <3>1. RenewOnly(n) /\ pc' = pc
      BY <2>2, <1>1 DEF TickReplyLost, OrdinaryTick
    <3> QED BY <3>1 DEF RenewOnly, RenewGranted, HeldAfresh
  <2>3. CASE TickRelease(n) \/ TickRenews(n) \/ TickCutOff(n)
    <3>1. Probed(n) /\ (Release(n) \/ TakeOrRenew(n) \/ UNCHANGED leaseVars)
      BY <2>3 DEF TickRelease, TickRenews, TickCutOff, GiveUp
    <3>2. pc[n] = "probe" /\ holder' \in {holder, NoNode, n}
      BY <3>1 DEF Probed, Release, TakeOrRenew, HeldAfresh
    <3>3. \A m \in Nodes \ {n} : pc'[m] = pc[m]
      BY <2>3, ActIsLocal DEF TickRelease, TickRenews, TickCutOff, GiveUp, TypeOK
    <3> QED BY <3>2, <3>3
  <2> QED
    BY <1>1, <1>2, <2>1, <2>2, <2>3 DEF RunTick, TickForced, TickHandover, TickHeldDown,
       TickLease, OrdinaryTick, TickHeartbeatLate, TickProbes, InStep
<1>3. ASSUME NEW n \in Nodes, RunScript(n)
      PROVE  /\ holder' = holder
             /\ \A m \in Nodes : pc[m] = "idle" => pc'[m] = "idle"
  <2>1. ASSUME NEW next, ContainerStops(n, next)
        PROVE  holder' = holder
    BY <1>1, <2>1 DEF ContainerStops
  <2>2. holder' = holder
    BY <1>3, <2>1 DEF RunScript, RecordMaster, StopFirst, StartHA, WaitHA, PostStartHooks,
                      RecordBackup, StopHA, ScriptFails, NotifyTimesOut
  <2> QED BY <1>3, <2>2, ScriptIsLocal
<1>4. ASSUME NEW n \in Nodes, HomeAssistant(n)
      PROVE  holder' = holder /\ pc' = pc
  <2>1. ASSUME NEW next, ContainerStops(n, next)
        PROVE  holder' = holder
    BY <1>1, <2>1 DEF ContainerStops
  <2>2. ASSUME IntegrationResolves(n)
        PROVE  holder' = holder
    BY <1>1, <2>2 DEF IntegrationResolves, HoldReadings, InStep, RenewOnly, RenewGranted,
                      HeldAfresh
  <2> QED
    BY <1>4, <2>1, <2>2 DEF HomeAssistant, HaAnswers, HaWedges, HaCrashes, HaRespawns, HaOnly,
       OperatorStops, OperatorStarts, IntegrationResolves
<1>5. ASSUME NEW n \in Nodes, Operator(n)
      PROVE  holder' = holder /\ pc' = pc
  BY <1>5 DEF Operator, SetOrClearLocalHold, RequestHandover, WithdrawHandover,
              PlaceOrRemoveForce, Adopt, OperatorOnly
<1>6. ASSUME NEW n \in Nodes, Environment(n)
      PROVE  /\ holder' = holder
             /\ \A m \in Nodes : pc[m] = "idle" => pc'[m] = "idle"
  BY <1>6 DEF Environment, LinkFailsOrHeals, PowerLoss, Boot, TypeOK
<1>7. ASSUME SetOrClearClusterHold
      PROVE  holder' = holder /\ pc' = pc
  BY <1>7 DEF SetOrClearClusterHold, OperatorOnly
<1>8. ASSUME Advance
      PROVE  holder' \in {holder, NoNode} /\ pc' = pc
  BY <1>8 DEF Advance, Elapse
<1> QED BY <1>2, <1>3, <1>4, <1>5, <1>6, <1>7, <1>8 DEF Next

\* A cluster-wide hold stops the election from changing anything, for any number
\* of nodes, any timing and every disturbance that leaves it readable; only a probe
\* begun before it may still end in a renewal, a take or a release.
THEOREM HoldFreezes == InStep /\ Spec => HoldFreezesRoles
<1> SUFFICES ASSUME InStep
             PROVE  Spec => HoldFreezesRoles
  OBVIOUS
<1>1. TypeOK /\ [Next]_vars =>
        [clusterHold /\ (\A n \in Nodes : ~forceFile[n]) =>
            /\ holder' \in {holder, NoNode} \cup {n \in Nodes : pc[n] = "probe"}
            /\ \A n \in Nodes : pc[n] = "idle" => pc'[n] = "idle"]_vars
  BY HoldStep
<1> QED BY <1>1, TypeCorrect, PTL DEF Spec, HoldFreezesRoles

------------------------------------------------------------------------------
(* Promotions. *)

\* With every answer in its place a promotion begins only at the node the lease
\* names, under every other disturbance: lost replies, failing files and the
\* integration's own claims among them.
THEOREM PromotionNeedsTheLease == InStep /\ Spec => OnlyTheHolderPromotes
<1> SUFFICES ASSUME InStep
             PROVE  Spec => OnlyTheHolderPromotes
  OBVIOUS
<1>1. TypeOK /\ [Next]_vars =>
        [\A n \in Nodes :
            pc[n] = "idle" /\ pc'[n] = "recordMaster" /\ ~forceFile[n] => holder' = n]_vars
  <2> SUFFICES ASSUME TypeOK, [Next]_vars, NEW n \in Nodes,
                      pc[n] = "idle", pc'[n] = "recordMaster", ~forceFile[n]
               PROVE  holder' = n
    OBVIOUS
  <2> USE DEF TypeOK, leaseVars, fileVars, hostVars, tickVars
  <2>1. ASSUME NEW m \in Nodes, RunTick(m)
        PROVE  holder' = n
    <3>1. ASSUME NEW previous, NEW holds, Act(m, previous, holds)
          PROVE  m = n
      BY <3>1, ActIsLocal
    <3>2. ~Act(n, "MASTER", FALSE) /\ ~Act(n, vrrp[n], FALSE)
      BY DEF Act
    <3>3. m = n
      <4>1. CASE TickUnreachable(m) \/ TickHeld(m) \/ TickHeartbeatLate(m) \/ TickReplyLost(m)
        BY <4>1 DEF TickUnreachable, TickHeld, TickHeartbeatLate, TickReplyLost
      <4>2. CASE TickProbes(m) \/ TickCutOff(m)
        BY <4>2 DEF TickProbes, TickCutOff
      <4>3. CASE TickForced(m) \/ TickHandover(m) \/ TickHeldDown(m) \/ TickLease(m)
        BY <4>3, <3>1 DEF TickForced, TickHandover, TickHeldDown, TickLease, GiveUp
      <4>4. CASE TickRelease(m) \/ TickRenews(m)
        BY <4>4, <3>1 DEF TickRelease, TickRenews, GiveUp
      <4> QED BY <2>1, <4>1, <4>2, <4>3, <4>4 DEF RunTick
    <3>4. TickLease(n)
      BY <2>1, <3>2, <3>3 DEF RunTick, TickUnreachable, TickHeld, TickHeartbeatLate, TickForced,
         TickHandover, TickHeldDown, TickReplyLost, TickProbes, TickRelease, TickRenews,
         TickCutOff, Probed, GiveUp
    <3>5. TickLease(m) /\ Act(m, vrrp[m], LeaseGranted(m))
      BY <3>3, <3>4 DEF TickLease, LeaseAnswers, InStep
    <3>6. m = n
      BY <3>3
    <3>7. LeaseGranted(n)
      BY <3>5, <3>6 DEF Act
    <3> QED BY <3>5, <3>6, <3>7 DEF TickLease, TakeOrRenew, HeldAfresh
  <2>2. ASSUME NEW m \in Nodes, RunScript(m)
        PROVE  FALSE
    BY <2>2, ScriptIsLocal
  <2>3. ASSUME NEW m \in Nodes, HomeAssistant(m)
        PROVE  FALSE
    BY <2>3 DEF HomeAssistant, HaAnswers, HaWedges, HaCrashes, HaRespawns, HaOnly,
                OperatorStops, OperatorStarts, IntegrationResolves
  <2>4. ASSUME NEW m \in Nodes, Operator(m) \/ Environment(m)
        PROVE  FALSE
    BY <2>4 DEF Operator, SetOrClearLocalHold, RequestHandover, WithdrawHandover,
                PlaceOrRemoveForce, Adopt, OperatorOnly, Environment, LinkFailsOrHeals,
                PowerLoss, Boot
  <2>5. ASSUME SetOrClearClusterHold \/ Advance \/ UNCHANGED vars
        PROVE  FALSE
    BY <2>5 DEF SetOrClearClusterHold, OperatorOnly, Advance, vars
  <2> QED BY <2>1, <2>2, <2>3, <2>4, <2>5 DEF Next
<1> QED BY <1>1, TypeCorrect, PTL DEF Spec, OnlyTheHolderPromotes

------------------------------------------------------------------------------
(* The hold-down. *)

\* A host keeps its power and its disk takes every write; nobody retakes the lease
\* behind the promoter's back.
Durable == ~LeaseSource /\ Disturbances \cap {"power", "filefault"} = {}

(* What makes the hold-down inductive.  The marker covers what is left of it, and  *)
(* a node that still calls itself leader has not given the lease up, or is on its  *)
(* way to recording that it did: a leader's renewal never looks at the marker.     *)
MarkerCovers(n) ==
    /\ up[n]
    /\ sinceRelease[n] + holddown[n] >= HoldDown
    /\ vrrp[n] = "MASTER" /\ pc[n] # "recordBackup" => sinceRelease[n] = HoldDown
    /\ pc[n] \in {"probe", "recordMaster"} => sinceRelease[n] = HoldDown

\* The variables of n that MarkerCovers reads.
MarkerFrame(n) ==
    /\ up'[n] = up[n] /\ vrrp'[n] = vrrp[n] /\ pc'[n] = pc[n]
    /\ sinceRelease'[n] = sinceRelease[n] /\ holddown'[n] = holddown[n]

LEMMA MarkerCoversFrame ==
    ASSUME NEW n \in Nodes, MarkerCovers(n), MarkerFrame(n)
    PROVE  MarkerCovers(n)'
BY DEF MarkerCovers, MarkerFrame

\* No step of one node's promoter, container, operator or host touches another's.
LEMMA MarkerIsLocal ==
    ASSUME TypeOK, NEW n \in Nodes, NEW m \in Nodes \ {n},
           RunTick(m) \/ RunScript(m) \/ HomeAssistant(m) \/ Operator(m) \/ Environment(m)
    PROVE  MarkerFrame(n)
<1> USE DEF TypeOK, MarkerFrame, leaseVars, fileVars, hostVars, tickVars
<1>1. CASE RunTick(m)
  BY <1>1 DEF RunTick, TickUnreachable, TickHeld, TickForced, TickHandover, TickRelease,
              TickHeldDown, TickLease, TickReplyLost, TickHeartbeatLate, TickProbes,
              TickRenews, TickCutOff, Tick, Fires, Probed, GiveUp, Act
<1>2. CASE RunScript(m)
  BY <1>2 DEF RunScript, RecordMaster, StopFirst, StartHA, WaitHA, PostStartHooks,
              RecordBackup, StopHA, ScriptFails, NotifyTimesOut, Record, Goto, Finish
<1>3. CASE HomeAssistant(m)
  BY <1>3 DEF HomeAssistant, HaAnswers, HaWedges, HaCrashes, HaRespawns, HaOnly,
              OperatorStops, OperatorStarts, IntegrationResolves
<1>4. CASE Operator(m)
  BY <1>4 DEF Operator, SetOrClearLocalHold, RequestHandover, WithdrawHandover,
              PlaceOrRemoveForce, Adopt, OperatorOnly
<1>5. CASE Environment(m)
  BY <1>5 DEF Environment, LinkFailsOrHeals, PowerLoss, Boot
<1> QED BY <1>1, <1>2, <1>3, <1>4, <1>5

LEMMA MarkerThroughTick ==
    ASSUME TypeOK, Durable, NEW n \in Nodes, MarkerCovers(n), RunTick(n)
    PROVE  MarkerCovers(n)'
<1> USE DEF leaseVars, fileVars, hostVars, tickVars
<1>a. /\ up'[n] = up[n] /\ vrrp'[n] = vrrp[n] /\ pc[n] \in {"idle", "probe"}
  BY DEF RunTick, TickUnreachable, TickHeld, TickForced, TickHandover, TickRelease,
         TickHeldDown, TickLease, TickReplyLost, TickHeartbeatLate, TickProbes, TickRenews,
         TickCutOff, Tick, Fires, Probed
<1>b. /\ holddown[n] \in 0..HoldDown /\ sinceRelease[n] \in 0..HoldDown
      /\ pc \in [Nodes -> Steps] /\ HoldDown \in Nat
  BY Bounds DEF TypeOK
<1>1. CASE TickUnreachable(n) \/ TickHeld(n) \/ TickReplyLost(n) \/ TickHeartbeatLate(n)
  BY <1>1, <1>a, MarkerCoversFrame
     DEF TickUnreachable, TickHeld, TickReplyLost, TickHeartbeatLate, MarkerFrame
<1>2. CASE TickForced(n)
  <2>1. sinceRelease'[n] = HoldDown /\ holddown' = holddown
    BY <1>2 DEF TickForced, TypeOK
  <2> QED BY <2>1, <1>a, <1>b DEF MarkerCovers
<1>3. CASE TickHandover(n) \/ TickRelease(n)
  <2>0. GiveUp(n)
    BY <1>3 DEF TickHandover, TickRelease
  <2>1. holddown'[n] = HoldDown /\ sinceRelease'[n] = 0
    BY <2>0 DEF GiveUp, Durable, TypeOK
  <2>2. pc'[n] = "recordBackup"
    BY <2>0, <1>b DEF GiveUp, Act
  <2> QED BY <2>1, <2>2, <1>a, <1>b DEF MarkerCovers
<1>4. CASE TickHeldDown(n)
  <2>1. vrrp[n] # "MASTER" /\ pc'[n] \notin {"probe", "recordMaster"}
    BY <1>4, <1>b DEF TickHeldDown, HeldDown, Act
  <2> QED BY <1>4, <2>1, <1>a, <1>b DEF TickHeldDown, MarkerCovers
<1>5. CASE TickLease(n) \/ TickProbes(n)
  <2>1. ~HeldDown(n) /\ pc[n] = "idle" /\ UNCHANGED <<holddown, sinceRelease>>
    BY <1>5 DEF TickLease, OrdinaryTick, TickProbes, HeldDown, Tick, Fires
  <2>2. sinceRelease[n] = HoldDown
    BY <2>1, <1>b DEF HeldDown, MarkerCovers
  <2> QED BY <2>1, <2>2, <1>a, <1>b DEF MarkerCovers
<1>6. CASE TickRenews(n) \/ TickCutOff(n)
  <2>1. pc[n] = "probe" /\ UNCHANGED <<holddown, sinceRelease>>
    BY <1>6 DEF TickRenews, TickCutOff, Probed
  <2> QED BY <2>1, <1>a, <1>b DEF MarkerCovers
<1> QED BY <1>1, <1>2, <1>3, <1>4, <1>5, <1>6 DEF RunTick

LEMMA MarkerThroughScript ==
    ASSUME TypeOK, Durable, NEW n \in Nodes, MarkerCovers(n), RunScript(n)
    PROVE  MarkerCovers(n)'
<1> USE DEF leaseVars, fileVars, hostVars, tickVars
<1>a. up' = up /\ sinceRelease' = sinceRelease /\ holddown' = holddown
  BY DEF RunScript, RecordMaster, StopFirst, StartHA, WaitHA, PostStartHooks, RecordBackup,
         StopHA, ScriptFails, NotifyTimesOut
<1>b. pc'[n] \notin {"probe", "recordMaster"}
  BY ScriptIsLocal
<1>1. CASE RecordMaster(n)
  BY <1>1, <1>a, <1>b DEF RecordMaster, Script, MarkerCovers, TypeOK
<1>2. CASE RecordBackup(n)
  <2>1. vrrp'[n] = "BACKUP"
    BY <1>2 DEF RecordBackup, Record, Durable, TypeOK
  <2> QED BY <2>1, <1>a, <1>b DEF MarkerCovers
<1>3. CASE \/ StopFirst(n) \/ StartHA(n) \/ WaitHA(n) \/ PostStartHooks(n) \/ StopHA(n)
           \/ ScriptFails(n) \/ NotifyTimesOut(n)
  <2>1. vrrp' = vrrp /\ pc[n] # "recordBackup"
    BY <1>3 DEF StopFirst, StartHA, WaitHA, PostStartHooks, StopHA, ScriptFails,
                NotifyTimesOut, Script
  <2> QED BY <2>1, <1>a, <1>b DEF MarkerCovers
<1> QED BY <1>1, <1>2, <1>3 DEF RunScript

LEMMA MarkerThroughRest ==
    ASSUME TypeOK, Durable, NEW n \in Nodes, MarkerCovers(n),
           HomeAssistant(n) \/ Operator(n) \/ Environment(n)
    PROVE  MarkerCovers(n)'
<1> USE DEF leaseVars, fileVars, hostVars, tickVars
<1>1. CASE HomeAssistant(n)
  BY <1>1, MarkerCoversFrame
     DEF HomeAssistant, HaAnswers, HaWedges, HaCrashes, HaRespawns, HaOnly, OperatorStops,
         OperatorStarts, IntegrationResolves, MarkerFrame
<1>2. CASE Operator(n) /\ ~Adopt(n)
  BY <1>2, MarkerCoversFrame
     DEF Operator, SetOrClearLocalHold, RequestHandover, WithdrawHandover,
         PlaceOrRemoveForce, OperatorOnly, MarkerFrame
<1>3. CASE Adopt(n)
  <2>1. sinceRelease'[n] = HoldDown /\ holddown'[n] = 0 /\ up' = up
    BY <1>3 DEF Adopt, OperatorOnly, TypeOK
  <2> QED BY <2>1, Bounds DEF MarkerCovers
<1>4. CASE Environment(n)
  BY <1>4, MarkerCoversFrame
     DEF Environment, LinkFailsOrHeals, PowerLoss, Boot, Durable, MarkerCovers, MarkerFrame
<1> QED BY <1>1, <1>2, <1>3, <1>4 DEF Operator

LEMMA MarkerThroughAdvance ==
    ASSUME TypeOK, NEW n \in Nodes, MarkerCovers(n), Advance
    PROVE  MarkerCovers(n)'
<1>1. up' = up /\ vrrp' = vrrp /\ pc' = pc
  BY DEF Advance, hostVars
<1>2. holddown'[n] = IF holddown[n] > 0 THEN holddown[n] - 1 ELSE 0
  BY DEF Advance, HolddownAged
<1>3. sinceRelease'[n] = IF sinceRelease[n] < HoldDown
                         THEN sinceRelease[n] + 1 ELSE sinceRelease[n]
  BY DEF Advance
<1>4. holddown[n] \in 0..HoldDown /\ sinceRelease[n] \in 0..HoldDown /\ HoldDown \in Nat
  BY Bounds DEF TypeOK
<1> QED BY <1>1, <1>2, <1>3, <1>4 DEF MarkerCovers

\* The invariant behind HolddownHonoured.
LEMMA MarkerAlwaysCovers == Durable /\ Spec => [](\A n \in Nodes : MarkerCovers(n))
<1> SUFFICES ASSUME Durable
             PROVE  Spec => [](\A n \in Nodes : MarkerCovers(n))
  OBVIOUS
<1>1. Init => \A n \in Nodes : MarkerCovers(n)
  <2> SUFFICES ASSUME Init, NEW n \in Nodes
               PROVE  MarkerCovers(n)
    OBVIOUS
  <2>1. /\ up[n] /\ vrrp[n] = "BACKUP" /\ pc[n] = "idle"
        /\ sinceRelease[n] = HoldDown /\ holddown[n] = 0
    BY DEF Init
  <2> QED BY <2>1, Bounds DEF MarkerCovers
<1>2. TypeOK /\ (\A n \in Nodes : MarkerCovers(n)) /\ [Next]_vars
        => (\A n \in Nodes : MarkerCovers(n))'
  <2> SUFFICES ASSUME TypeOK, \A m \in Nodes : MarkerCovers(m), [Next]_vars, NEW n \in Nodes
               PROVE  MarkerCovers(n)'
    OBVIOUS
  <2>1. ASSUME NEW m \in Nodes,
               RunTick(m) \/ RunScript(m) \/ HomeAssistant(m) \/ Operator(m) \/ Environment(m)
        PROVE  MarkerCovers(n)'
    <3>1. CASE m = n
      BY <2>1, <3>1, MarkerThroughTick, MarkerThroughScript, MarkerThroughRest
    <3>2. CASE m # n
      BY <2>1, <3>2, MarkerIsLocal, MarkerCoversFrame
    <3> QED BY <3>1, <3>2
  <2>2. CASE SetOrClearClusterHold \/ UNCHANGED vars
    BY <2>2, MarkerCoversFrame
       DEF SetOrClearClusterHold, OperatorOnly, vars, leaseVars, fileVars, hostVars, tickVars,
           MarkerFrame
  <2> QED BY <2>1, <2>2, MarkerThroughAdvance DEF Next
<1> QED BY <1>1, <1>2, TypeCorrect, PTL DEF Spec

\* On a host that keeps its power and its files, a node that gave the lease up gets
\* it back only after the whole hold-down, whatever ticks, holds, handovers, lost or
\* late replies and crashes come between.
THEOREM HolddownIsHonoured == Durable /\ Spec => HolddownHonoured
<1> SUFFICES ASSUME Durable
             PROVE  Spec => HolddownHonoured
  OBVIOUS
<1>1. TypeOK /\ (\A n \in Nodes : MarkerCovers(n)) /\ [Next]_vars =>
        [\A n \in Nodes :
            holder # n /\ holder' = n /\ ~forceFile[n] => sinceRelease[n] = HoldDown]_vars
  <2> SUFFICES ASSUME TypeOK, \A m \in Nodes : MarkerCovers(m), [Next]_vars,
                      NEW n \in Nodes, holder # n, holder' = n, ~forceFile[n]
               PROVE  sinceRelease[n] = HoldDown
    OBVIOUS
  <2>1. pc[n] = "probe" \/ (pc[n] = "idle" /\ ~HeldDown(n))
    BY LeaseMoves, NodesAssumption DEF Durable
  <2>2. holddown[n] \in 0..HoldDown /\ sinceRelease[n] \in 0..HoldDown /\ HoldDown \in Nat
    BY Bounds DEF TypeOK
  <2> QED BY <2>1, <2>2 DEF HeldDown, MarkerCovers
<1> QED BY <1>1, TypeCorrect, MarkerAlwaysCovers, PTL DEF Spec, HolddownHonoured
==============================================================================
