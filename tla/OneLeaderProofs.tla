--------------------------- MODULE OneLeaderProofs ---------------------------
(***************************************************************************)
(* One leader at a time, and a healthy one keeps the lease: what holds of  *)
(* the election for every set of nodes and every timing, a notify timeout  *)
(* four times the lease's TTL among them.                                  *)
(***************************************************************************)
EXTENDS ClusterPromoterProofs

USE DEF Steps, ContainerStates

\* What a leader's own clock leaves of its lease: as long as the last tick is less
\* than a TTL ago, at least the rest of that TTL.
OnTheClock(n) == ttl >= LeaseTTL - elapsed[n]

\* The variables of n that both arguments read.
LeaderFrame(n) ==
    /\ up'[n] = up[n] /\ vrrp'[n] = vrrp[n] /\ pc'[n] = pc[n] /\ elapsed'[n] = elapsed[n]
    /\ link'[n] = link[n] /\ forceFile'[n] = forceFile[n] /\ localHold'[n] = localHold[n]

\* What n knows of itself is out of the others' reach.
LEMMA LeaderIsLocal ==
    ASSUME TypeOK, NEW n \in Nodes, NEW m \in Nodes \ {n},
           RunTick(m) \/ RunScript(m) \/ HomeAssistant(m) \/ Operator(m) \/ Environment(m)
    PROVE  LeaderFrame(n)
<1> USE DEF fileVars, hostVars, tickVars, LeaderFrame
<1>1. CASE RunTick(m)
  BY <1>1 DEF RunTick, TickUnreachable, TickHeld, TickForced, TickHandover, TickRelease,
              TickHeldDown, TickLease, TickReplyLost, TickHeartbeatLate, TickProbes,
              TickRenews, TickCutOff, Tick, Fires, Probed, GiveUp, Act, TypeOK
<1>2. CASE RunScript(m)
  <2>1. pc'[n] = pc[n] /\ elapsed' = elapsed
    BY <1>2, ScriptIsLocal
  <2>2. vrrp'[n] = vrrp[n] /\ UNCHANGED <<up, link, forceFile, localHold>>
    BY <1>2 DEF RunScript, RecordMaster, StopFirst, StartHA, WaitHA, PostStartHooks,
                RecordBackup, StopHA, ScriptFails, NotifyTimesOut, Record, TypeOK
  <2> QED BY <2>1, <2>2
<1>3. CASE HomeAssistant(m)
  BY <1>3 DEF HomeAssistant, HaAnswers, HaWedges, HaCrashes, HaRespawns, HaOnly,
              OperatorStops, OperatorStarts, IntegrationResolves
<1>4. CASE Operator(m)
  BY <1>4 DEF Operator, SetOrClearLocalHold, RequestHandover, WithdrawHandover,
              PlaceOrRemoveForce, Adopt, OperatorOnly, TypeOK
<1>5. CASE Environment(m)
  BY <1>5 DEF Environment, LinkFailsOrHeals, PowerLoss, Boot, TypeOK
<1> QED BY <1>1, <1>2, <1>3, <1>4, <1>5

\* What one node's step may do to the lease: ask for it as its own, or force it.
LEMMA LeaseSteps ==
    ASSUME NEW m \in Nodes,
           RunTick(m) \/ RunScript(m) \/ HomeAssistant(m) \/ Operator(m) \/ Environment(m)
    PROVE  \/ TakeOrRenew(m) \/ RenewOnly(m) \/ Release(m) \/ UNCHANGED leaseVars
           \/ forceFile[m] /\ ForceClaim(m) /\ RunTick(m)
<1> USE DEF leaseVars
<1>1. CASE RunTick(m)
  BY <1>1 DEF RunTick, TickUnreachable, TickHeld, TickForced, TickHandover, TickRelease,
              TickHeldDown, TickLease, TickReplyLost, TickHeartbeatLate, TickProbes,
              TickRenews, TickCutOff, GiveUp
<1>2. CASE RunScript(m)
  BY <1>2 DEF RunScript, RecordMaster, StopFirst, StartHA, WaitHA, PostStartHooks,
              RecordBackup, StopHA, ScriptFails, NotifyTimesOut, ContainerStops
<1>3. CASE HomeAssistant(m)
  BY <1>3 DEF HomeAssistant, HaAnswers, HaWedges, HaCrashes, HaRespawns, OperatorStops,
              OperatorStarts, IntegrationResolves, ContainerStops
<1>4. CASE Operator(m) \/ Environment(m)
  BY <1>4 DEF Operator, SetOrClearLocalHold, RequestHandover, WithdrawHandover,
              PlaceOrRemoveForce, Adopt, OperatorOnly, Environment, LinkFailsOrHeals,
              PowerLoss, Boot
<1> QED BY <1>1, <1>2, <1>3, <1>4

\* The scripts of the lease leave another node's claim alone, but for the override.
LEMMA OthersLeaveTheLease ==
    ASSUME NEW n \in Nodes, NEW m \in Nodes \ {n},
           RunTick(m) \/ RunScript(m) \/ HomeAssistant(m) \/ Operator(m) \/ Environment(m)
    PROVE  /\ holder = n => UNCHANGED <<holder, ttl>> \/ forceFile[m]
           /\ holder' = n => UNCHANGED <<holder, ttl>>
<1>1. CASE TakeOrRenew(m) \/ RenewOnly(m) \/ Release(m) \/ UNCHANGED leaseVars
  BY <1>1, NodesAssumption DEF TakeOrRenew, RenewOnly, Release, LeaseGranted, RenewGranted,
       HeldAfresh, leaseVars
<1>2. CASE forceFile[m] /\ ForceClaim(m)
  BY <1>2 DEF ForceClaim, HeldAfresh
<1> QED BY <1>1, <1>2, LeaseSteps

\* A renewal leaves a whole TTL on the clock.
LEMMA Renewed ==
    ASSUME TypeOK', NEW n \in Nodes, ttl' = LeaseTTL
    PROVE  OnTheClock(n)'
<1>1. elapsed'[n] \in 0..NotifyTimeout + 1
  BY DEF TypeOK
<1> QED BY <1>1, Bounds DEF OnTheClock

\* decide() and the reconcile check, read at n.
LEMMA ActStep ==
    ASSUME TypeOK, NEW n \in Nodes, NEW previous, NEW holds \in BOOLEAN,
           Act(n, previous, holds)
    PROVE  pc'[n] = IF holds
                    THEN IF previous = "MASTER" THEN "idle" ELSE "recordMaster"
                    ELSE IF previous # "BACKUP" \/ BackupIsServing(n)
                         THEN "recordBackup" ELSE "idle"
<1>1. DOMAIN pc = Nodes
  BY DEF TypeOK
<1> QED BY <1>1 DEF Act

------------------------------------------------------------------------------
(* One leader at a time. *)

\* No partition, no lost reply, no failing write, no override and no hold: what is
\* left are power losses, wedged and crashing containers, refusing docker commands
\* and handovers, at any moment.  (A hold set while a script overruns its lease
\* keeps both leaders, by design: a held node demotes nobody.)
Orderly == Disturbances \subseteq {"power", "wedge", "crash", "dockerfault", "handover"}

\* A warm promotion with a fileset stops the Home Assistant it promotes, which gives
\* the lease away; every other topology promotes with the lease in hand.
PromotesInHand == Cold \/ ~Fileset

\* n is the leader, or was just told to become it, and was not told to stop.
Leads(n) ==
    /\ up[n]
    /\ vrrp[n] = "MASTER" \/ pc[n] = "recordMaster"
    /\ pc[n] # "recordBackup"

(* What makes one leader inductive: a leader holds the lease, with what its own  *)
(* clock leaves of it, until its clock has run for a whole TTL.  The rest rules  *)
(* out what Orderly leaves no room for, and a demotion that stops a container    *)
(* while the node still calls itself leader.                                     *)
LeadsWithLease(n) ==
    /\ Leads(n) => (holder = n /\ OnTheClock(n)) \/ elapsed[n] >= LeaseTTL
    /\ pc[n] = "stopHA" => vrrp[n] # "MASTER"
    /\ pc[n] # "stopFirst"
    /\ ~up[n] => pc[n] = "idle"
    /\ link[n]
    /\ ~forceFile[n]
    /\ ~Held(n)

LEMMA LeadsWithLeaseFrame ==
    ASSUME NEW n \in Nodes, LeadsWithLease(n), LeaderFrame(n), clusterHold' = clusterHold,
           holder = n => UNCHANGED <<holder, ttl>>
    PROVE  LeadsWithLease(n)'
<1>1. Leads(n)' => Leads(n)
  BY DEF LeaderFrame, Leads
<1>2. Leads(n)' => (holder' = n /\ OnTheClock(n)') \/ elapsed'[n] >= LeaseTTL
  BY <1>1 DEF LeadsWithLease, LeaderFrame, OnTheClock
<1> QED BY <1>2 DEF LeadsWithLease, LeaderFrame, Held

LEMMA LeaderThroughTick ==
    ASSUME TypeOK, TypeOK', Orderly, NEW n \in Nodes, LeadsWithLease(n), RunTick(n)
    PROVE  LeadsWithLease(n)'
<1> USE DEF leaseVars, fileVars, hostVars, tickVars
<1>a. /\ up' = up /\ vrrp' = vrrp /\ link' = link /\ forceFile' = forceFile
      /\ clusterHold' = clusterHold /\ localHold' = localHold
      /\ up[n] /\ pc[n] \in {"idle", "probe"}
  BY DEF RunTick, TickUnreachable, TickHeld, TickForced, TickHandover, TickRelease,
         TickHeldDown, TickLease, TickReplyLost, TickHeartbeatLate, TickProbes, TickRenews,
         TickCutOff, Tick, Fires, Probed
<1>b. link[n] /\ ~forceFile[n] /\ ~Held(n)
  BY DEF LeadsWithLease
<1>c. ASSUME ~Leads(n)', pc'[n] \notin {"stopHA", "stopFirst"}
      PROVE  LeadsWithLease(n)'
  BY <1>a, <1>b, <1>c DEF LeadsWithLease, Held
<1>d. ASSUME holder' = n, ttl' = LeaseTTL, pc'[n] \notin {"stopHA", "stopFirst"}
      PROVE  LeadsWithLease(n)'
  BY <1>a, <1>b, <1>d, Renewed DEF LeadsWithLease, Held
<1>e. ASSUME NEW previous, previous = "MASTER" \/ previous = vrrp[n],
             Act(n, previous, LeaseGranted(n)), TakeOrRenew(n)
      PROVE  LeadsWithLease(n)'
  <2>1. CASE LeaseGranted(n)
    <3>1. holder' = n /\ ttl' = LeaseTTL
      BY <1>e, <2>1 DEF TakeOrRenew, HeldAfresh
    <3>2. Act(n, previous, TRUE)
      <4>1. LeaseGranted(n) = TRUE
        BY <2>1 DEF LeaseGranted
      <4> QED BY <1>e, <4>1
    <3>3. pc'[n] \in {"idle", "recordMaster"}
      BY <3>2, ActStep
    <3> QED BY <3>1, <3>3, <1>d
  <2>2. CASE ~LeaseGranted(n)
    <3>1. Act(n, previous, FALSE)
      <4>1. LeaseGranted(n) = FALSE
        BY <2>2 DEF LeaseGranted
      <4> QED BY <1>e, <4>1
    <3>2. pc'[n] = "recordBackup" \/ (pc'[n] = "idle" /\ previous = "BACKUP")
      BY <3>1, ActStep
    <3>3. ~Leads(n)'
      BY <3>2, <1>a, <1>e DEF Leads
    <3> QED BY <3>2, <3>3, <1>c
  <2> QED BY <2>1, <2>2
<1>1. CASE TickHandover(n) \/ TickRelease(n)
  <2>1. Act(n, "MASTER", FALSE)
    BY <1>1 DEF TickHandover, TickRelease, GiveUp
  <2>2. pc'[n] = "recordBackup"
    <3>1. DOMAIN pc = Nodes
      BY DEF TypeOK
    <3> QED BY <2>1, <3>1 DEF Act
  <2> QED BY <2>2, <1>c DEF Leads
<1>2. CASE TickHeldDown(n)
  <2>1. vrrp[n] # "MASTER" /\ Act(n, vrrp[n], FALSE)
    BY <1>2 DEF TickHeldDown, HeldDown
  <2>2. pc'[n] \in {"idle", "recordBackup"}
    BY <2>1, ActStep
  <2> QED BY <2>1, <2>2, <1>a, <1>c DEF Leads
<1>3. CASE TickLease(n)
  <2>1. TakeOrRenew(n) /\ Act(n, vrrp[n], LeaseGranted(n))
    BY <1>3 DEF TickLease, LeaseAnswers, Orderly
  <2> QED BY <2>1, <1>e
<1>4. CASE TickRenews(n)
  <2>1. TakeOrRenew(n) /\ Act(n, "MASTER", LeaseGranted(n))
    BY <1>4 DEF TickRenews, LeaseAnswers, Orderly
  <2> QED BY <2>1, <1>e
<1>5. CASE TickProbes(n)
  <2>1. /\ vrrp[n] = "MASTER" /\ pc[n] = "idle" /\ pc'[n] = "probe"
        /\ UNCHANGED <<holder, ttl, elapsed>>
    <3>1. DOMAIN pc = Nodes
      BY DEF TypeOK
    <3> QED BY <1>5, <3>1 DEF TickProbes, Fires
  <2>2. (holder' = n /\ OnTheClock(n)') \/ elapsed'[n] >= LeaseTTL
    BY <2>1, <1>a DEF LeadsWithLease, Leads, OnTheClock
  <2> QED BY <2>1, <2>2, <1>a, <1>b DEF LeadsWithLease, Held
<1>6. /\ ~TickUnreachable(n) /\ ~TickHeld(n) /\ ~TickForced(n) /\ ~TickReplyLost(n)
      /\ ~TickHeartbeatLate(n) /\ ~TickCutOff(n)
  BY <1>a, <1>b DEF TickUnreachable, TickHeld, TickForced, TickReplyLost, TickHeartbeatLate,
                    TickCutOff, Orderly
<1> QED BY <1>1, <1>2, <1>3, <1>4, <1>5, <1>6 DEF RunTick

LEMMA LeaderThroughScript ==
    ASSUME TypeOK, Orderly, PromotesInHand, NEW n \in Nodes, LeadsWithLease(n), RunScript(n)
    PROVE  LeadsWithLease(n)'
<1> USE DEF leaseVars, fileVars, hostVars, tickVars
<1>a. /\ up' = up /\ link' = link /\ forceFile' = forceFile /\ localHold' = localHold
      /\ clusterHold' = clusterHold /\ elapsed' = elapsed
      /\ up[n] /\ pc[n] \notin {"idle", "probe"} /\ pc'[n] # "recordMaster"
  <2>1. elapsed' = elapsed /\ pc[n] \notin {"idle", "probe"} /\ pc'[n] # "recordMaster"
    BY ScriptIsLocal
  <2> QED BY <2>1 DEF RunScript, RecordMaster, StopFirst, StartHA, WaitHA, PostStartHooks,
         RecordBackup, StopHA, ScriptFails, NotifyTimesOut, Script
<1>b. link[n] /\ ~forceFile[n] /\ ~Held(n) /\ pc[n] # "stopFirst"
  BY DEF LeadsWithLease
<1>1. CASE RecordMaster(n)
  <2>1. /\ pc[n] = "recordMaster" /\ pc'[n] = "startHA"
        /\ UNCHANGED <<holder, ttl>>
    BY <1>1 DEF RecordMaster, Script, Goto, StopsFirst, PromotesInHand, TypeOK
  <2>2. (holder' = n /\ OnTheClock(n)') \/ elapsed'[n] >= LeaseTTL
    BY <2>1, <1>a DEF LeadsWithLease, Leads, OnTheClock
  <2> QED BY <2>1, <2>2, <1>a, <1>b DEF LeadsWithLease, Held
<1>2. CASE RecordBackup(n)
  <2>1. vrrp'[n] = "BACKUP" /\ pc'[n] = "stopHA"
    BY <1>2 DEF RecordBackup, Record, Goto, Orderly, TypeOK
  <2> QED BY <2>1, <1>a, <1>b DEF LeadsWithLease, Leads, Held
<1>3. CASE \/ StartHA(n) \/ WaitHA(n) \/ PostStartHooks(n)
           \/ (ScriptFails(n) /\ pc[n] # "stopHA") \/ (NotifyTimesOut(n) /\ pc[n] # "stopHA")
  <2>1. /\ vrrp' = vrrp /\ UNCHANGED <<holder, ttl>>
        /\ pc[n] \notin {"recordMaster", "recordBackup"}
        /\ pc'[n] \in {"waitHA", "postStart", "idle"}
    BY <1>3, <1>b DEF StartHA, WaitHA, PostStartHooks, ScriptFails, NotifyTimesOut, Script,
                      Goto, Finish, TypeOK
  <2>2. Leads(n)' => Leads(n)
    BY <2>1, <1>a DEF Leads
  <2>3. Leads(n)' => (holder' = n /\ OnTheClock(n)') \/ elapsed'[n] >= LeaseTTL
    BY <2>1, <2>2, <1>a DEF LeadsWithLease, OnTheClock
  <2> QED BY <2>1, <2>3, <1>a, <1>b DEF LeadsWithLease, Held
<1>4. CASE /\ pc[n] = "stopHA"
           /\ StopHA(n) \/ ScriptFails(n) \/ NotifyTimesOut(n)
  <2>1. vrrp' = vrrp /\ pc'[n] = "idle"
    BY <1>4 DEF StopHA, ScriptFails, NotifyTimesOut, Goto, Finish, TypeOK
  <2> QED BY <2>1, <1>4, <1>a, <1>b DEF LeadsWithLease, Leads, Held
<1>5. ~StopFirst(n) /\ (StopHA(n) => pc[n] = "stopHA")
  BY <1>b DEF StopFirst, StopHA, Script
<1> QED BY <1>1, <1>2, <1>3, <1>4, <1>5 DEF RunScript

LEMMA LeaderThroughRest ==
    ASSUME TypeOK, TypeOK', Orderly, NEW n \in Nodes, LeadsWithLease(n),
           HomeAssistant(n) \/ Operator(n) \/ Environment(n)
    PROVE  LeadsWithLease(n)'
<1> USE DEF leaseVars, fileVars, hostVars, tickVars
<1>a. /\ DOMAIN up = Nodes /\ DOMAIN vrrp = Nodes
      /\ DOMAIN pc = Nodes /\ DOMAIN forceFile = Nodes
  BY DEF TypeOK
<1>1. CASE HomeAssistant(n) /\ ~IntegrationResolves(n)
  <2>1. LeaderFrame(n) /\ UNCHANGED <<leaseVars, clusterHold>>
    BY <1>1 DEF HomeAssistant, HaAnswers, HaWedges, HaCrashes, HaRespawns, HaOnly,
                OperatorStops, OperatorStarts, Orderly, LeaderFrame
  <2> QED BY <2>1, LeadsWithLeaseFrame
<1>2. CASE IntegrationResolves(n)
  <2>1. LeaderFrame(n) /\ UNCHANGED clusterHold
    BY <1>2 DEF IntegrationResolves, LeaderFrame
  <2>2. CASE UNCHANGED leaseVars
    BY <2>1, <2>2, LeadsWithLeaseFrame
  <2>3. CASE HeldAfresh(n)
    <3>1. holder' = n /\ OnTheClock(n)'
      BY <2>3, Renewed DEF HeldAfresh
    <3> QED BY <2>1, <3>1 DEF LeadsWithLease, LeaderFrame, Leads, Held
  <2> QED BY <1>2, <2>2, <2>3 DEF IntegrationResolves, RenewOnly, TakeOrRenew
<1>3. CASE Operator(n)
  <2>1. RequestHandover(n) \/ WithdrawHandover(n)
    BY <1>3 DEF Operator, SetOrClearLocalHold, PlaceOrRemoveForce, Adopt, Orderly
  <2>2. LeaderFrame(n) /\ UNCHANGED <<leaseVars, clusterHold>>
    BY <2>1 DEF RequestHandover, WithdrawHandover, OperatorOnly, LeaderFrame
  <2> QED BY <2>2, LeadsWithLeaseFrame
<1>4. CASE LinkFailsOrHeals(n)
  BY <1>4 DEF LinkFailsOrHeals, Orderly
<1>5. CASE PowerLoss(n)
  <2>1. ~up'[n] /\ pc'[n] = "idle"
    BY <1>5, <1>a DEF PowerLoss
  <2>2. UNCHANGED <<vrrp, link, forceFile, localHold, clusterHold>>
    BY <1>5 DEF PowerLoss
  <2> QED BY <2>1, <2>2 DEF LeadsWithLease, Leads, Held
<1>6. CASE Boot(n)
  <2>1. vrrp'[n] = "BACKUP" /\ ~forceFile'[n]
    BY <1>6, <1>a DEF Boot
  <2>2. ~up[n] /\ UNCHANGED <<pc, link, localHold, clusterHold>>
    BY <1>6 DEF Boot
  <2> QED BY <2>1, <2>2 DEF LeadsWithLease, Leads, Held
<1> QED BY <1>1, <1>2, <1>3, <1>4, <1>5, <1>6 DEF Environment

\* A period takes as much from the TTL as it adds to the clock.
LEMMA ClockThroughAdvance ==
    ASSUME TypeOK, NEW n \in Nodes, up[n], holder = n, OnTheClock(n), Advance
    PROVE  \/ holder' = n /\ ttl' = ttl - 1 /\ OnTheClock(n)'
           \/ elapsed'[n] >= LeaseTTL
<1>1. elapsed[n] \in 0..NotifyTimeout + 1 /\ ttl \in 0..LeaseTTL /\ (ttl = 0 => holder # n)
  BY NodesAssumption DEF TypeOK, LeaseTypeOK
<1>2. elapsed'[n] = elapsed[n] + 1
  BY DEF Advance
<1>3. CASE ttl > 1
  <2>1. holder' = n /\ ttl' = ttl - 1
    BY <1>1, <1>3 DEF Advance, Elapse
  <2> QED BY <2>1, <1>1, <1>2, Bounds DEF OnTheClock
<1>4. CASE ttl <= 1
  BY <1>1, <1>2, <1>4, Bounds DEF OnTheClock
<1> QED BY <1>1, <1>3, <1>4

LEMMA LeaderThroughAdvance ==
    ASSUME TypeOK, NEW n \in Nodes, LeadsWithLease(n), Advance
    PROVE  LeadsWithLease(n)'
<1>1. UNCHANGED <<up, vrrp, pc, link, forceFile, localHold, clusterHold>>
  BY DEF Advance, hostVars
<1>2. Leads(n)' => Leads(n) /\ up[n]
  BY <1>1 DEF Leads
<1>3. elapsed[n] \in Nat /\ (up[n] => elapsed'[n] = elapsed[n] + 1)
  <2>1. elapsed[n] \in Nat
    <3>1. elapsed[n] \in 0..NotifyTimeout + 1
      BY DEF TypeOK
    <3> QED BY <3>1, Bounds
  <2>2. up[n] => elapsed'[n] = elapsed[n] + 1
    BY DEF Advance
  <2> QED BY <2>1, <2>2
<1>4. Leads(n)' => (holder' = n /\ OnTheClock(n)') \/ elapsed'[n] >= LeaseTTL
  <2> SUFFICES ASSUME Leads(n)'
               PROVE  (holder' = n /\ OnTheClock(n)') \/ elapsed'[n] >= LeaseTTL
    OBVIOUS
  <2>1. CASE holder = n /\ OnTheClock(n)
    BY <2>1, <1>2, ClockThroughAdvance
  <2>2. CASE elapsed[n] >= LeaseTTL
    BY <2>2, <1>2, <1>3, Bounds
  <2> QED BY <2>1, <2>2, <1>2 DEF LeadsWithLease
<1> QED BY <1>1, <1>4 DEF LeadsWithLease, Held

\* The invariant behind one leader at a time.
LEMMA LeadersAlwaysHoldTheLease ==
    Orderly /\ PromotesInHand /\ Spec => [](\A n \in Nodes : LeadsWithLease(n))
<1> SUFFICES ASSUME Orderly, PromotesInHand
             PROVE  Spec => [](\A n \in Nodes : LeadsWithLease(n))
  OBVIOUS
<1>1. Init => \A n \in Nodes : LeadsWithLease(n)
  <2> SUFFICES ASSUME Init, NEW n \in Nodes
               PROVE  LeadsWithLease(n)
    OBVIOUS
  <2>1. up[n] /\ vrrp[n] = "BACKUP" /\ pc[n] = "idle" /\ link[n] /\ ~forceFile[n] /\ ~Held(n)
    BY DEF Init, Held
  <2> QED BY <2>1 DEF LeadsWithLease, Leads
<1>2. TypeOK /\ TypeOK' /\ (\A n \in Nodes : LeadsWithLease(n)) /\ [Next]_vars
        => (\A n \in Nodes : LeadsWithLease(n))'
  <2> SUFFICES ASSUME TypeOK, TypeOK', \A m \in Nodes : LeadsWithLease(m), [Next]_vars,
                      NEW n \in Nodes
               PROVE  LeadsWithLease(n)'
    OBVIOUS
  <2>1. ASSUME NEW m \in Nodes,
               RunTick(m) \/ RunScript(m) \/ HomeAssistant(m) \/ Operator(m) \/ Environment(m)
        PROVE  LeadsWithLease(n)'
    <3>1. CASE m = n
      BY <2>1, <3>1, LeaderThroughTick, LeaderThroughScript, LeaderThroughRest
    <3>2. CASE m # n
      <4>1. LeaderFrame(n) /\ (holder = n => UNCHANGED <<holder, ttl>>)
        BY <2>1, <3>2, LeaderIsLocal, OthersLeaveTheLease DEF LeadsWithLease
      <4>2. clusterHold' = clusterHold
        BY <2>1 DEF RunTick, TickUnreachable, TickHeld, TickForced, TickHandover, TickRelease,
           TickHeldDown, TickLease, TickReplyLost, TickHeartbeatLate, TickProbes, TickRenews,
           TickCutOff, Tick, Fires, Probed, RunScript, RecordMaster, StopFirst, StartHA,
           WaitHA, PostStartHooks, RecordBackup, StopHA, ScriptFails, NotifyTimesOut,
           HomeAssistant, HaAnswers, HaWedges, HaCrashes, HaRespawns, HaOnly, OperatorStops,
           OperatorStarts, IntegrationResolves, Operator, SetOrClearLocalHold,
           RequestHandover, WithdrawHandover, PlaceOrRemoveForce, Adopt, Environment,
           LinkFailsOrHeals, PowerLoss, Boot
      <4> QED BY <4>1, <4>2, LeadsWithLeaseFrame
    <3> QED BY <3>1, <3>2
  <2>2. CASE UNCHANGED vars
    BY <2>2, LeadsWithLeaseFrame
       DEF vars, leaseVars, fileVars, hostVars, tickVars, LeaderFrame
  <2>3. ~SetOrClearClusterHold
    BY DEF SetOrClearClusterHold, Orderly
  <2> QED BY <2>1, <2>2, <2>3, LeaderThroughAdvance DEF Next
<1> QED BY <1>1, <1>2, TypeCorrect, PTL DEF Spec

\* Two nodes never both lead but for the two moments OneLiveMaster names, for any
\* number of nodes and any timing, in an orderly environment.
THEOREM OneLeader == Orderly /\ PromotesInHand /\ Spec => []OneLiveMaster
<1>1. (\A n \in Nodes : LeadsWithLease(n)) => OneLiveMaster
  BY DEF OneLiveMaster, ToldOrOverrun, LiveMaster, LeadsWithLease, Leads
<1> QED BY <1>1, LeadersAlwaysHoldTheLease, PTL

------------------------------------------------------------------------------
(* A healthy leader. *)

\* The store stays in reach, no --adopt names a leader between ticks, and a forced
\* claim is not lost on the way.  Holds, handovers, force-master, failing files and
\* docker commands, late and lost replies, crashes, power losses and the containers'
\* operators are all there, in every topology.
InReach ==
    /\ "partition" \notin Disturbances /\ "adopt" \notin Disturbances
    /\ ~({"force", "lossy"} \subseteq Disturbances)

\* A leader's tick renews whatever else it does, so its lease keeps pace with its clock.
KeepsPace(n) ==
    /\ up[n] /\ holder = n /\ (vrrp[n] = "MASTER" \/ pc[n] = "recordMaster") => OnTheClock(n)
    /\ ~up[n] => pc[n] = "idle"
    /\ link[n]
    /\ forceFile[n] => "force" \in Disturbances

LEMMA KeepsPaceFrame ==
    ASSUME NEW n \in Nodes, KeepsPace(n), LeaderFrame(n),
           holder' = n => UNCHANGED <<holder, ttl>>
    PROVE  KeepsPace(n)'
BY DEF KeepsPace, LeaderFrame, OnTheClock

LEMMA PaceThroughTick ==
    ASSUME TypeOK, TypeOK', InReach, NEW n \in Nodes, KeepsPace(n), RunTick(n)
    PROVE  KeepsPace(n)'
<1> USE DEF leaseVars, fileVars, hostVars, tickVars
<1>a. /\ up' = up /\ vrrp' = vrrp /\ link' = link /\ forceFile' = forceFile /\ up[n]
  BY DEF RunTick, TickUnreachable, TickHeld, TickForced, TickHandover, TickRelease,
         TickHeldDown, TickLease, TickReplyLost, TickHeartbeatLate, TickProbes, TickRenews,
         TickCutOff, Tick, Fires, Probed
<1>b. link[n]
  BY DEF KeepsPace
<1>c. ASSUME holder' = n => ttl' = LeaseTTL \/ (vrrp[n] # "MASTER" /\ pc'[n] # "recordMaster")
      PROVE  KeepsPace(n)'
  BY <1>a, <1>c, Renewed DEF KeepsPace
<1>d. ASSUME TakeOrRenew(n) \/ RenewOnly(n) \/ Release(n) \/ ForceClaim(n)
      PROVE  holder' = n => ttl' = LeaseTTL
  BY <1>d, NodesAssumption DEF TakeOrRenew, RenewOnly, Release, ForceClaim, LeaseGranted,
       RenewGranted, HeldAfresh
<1>1. CASE TickHeld(n) \/ TickHeartbeatLate(n) \/ TickHandover(n) \/ TickRelease(n)
           \/ TickLease(n) \/ TickReplyLost(n) \/ TickRenews(n)
  BY <1>1, <1>c, <1>d DEF TickHeld, TickHeartbeatLate, TickHandover, TickRelease, TickLease,
       TickReplyLost, TickRenews, GiveUp
<1>2. CASE TickForced(n)
  <2>1. ForceClaim(n)
    BY <1>2 DEF TickForced, KeepsPace, InReach
  <2> QED BY <2>1, <1>c, <1>d
<1>3. CASE TickHeldDown(n)
  <2>1. vrrp[n] # "MASTER" /\ Act(n, vrrp[n], FALSE)
    BY <1>3 DEF TickHeldDown, HeldDown
  <2>2. pc'[n] # "recordMaster"
    BY <2>1, ActStep
  <2> QED BY <2>1, <2>2, <1>c
<1>4. CASE TickProbes(n)
  <2>1. pc'[n] = "probe" /\ UNCHANGED <<holder, ttl, elapsed>>
    BY <1>4 DEF TickProbes, TypeOK
  <2> QED BY <2>1, <1>a DEF KeepsPace, OnTheClock
<1>5. CASE TickCutOff(n)
  BY <1>5, <1>b, <1>c, <1>d DEF TickCutOff
<1>6. ~TickUnreachable(n)
  BY <1>b DEF TickUnreachable
<1> QED BY <1>1, <1>2, <1>3, <1>4, <1>5, <1>6 DEF RunTick

LEMMA PaceThroughScript ==
    ASSUME TypeOK, NEW n \in Nodes, KeepsPace(n), RunScript(n)
    PROVE  KeepsPace(n)'
<1> USE DEF leaseVars, fileVars, hostVars, tickVars
<1>1. /\ up' = up /\ link' = link /\ forceFile' = forceFile /\ elapsed' = elapsed
      /\ up[n] /\ pc'[n] # "recordMaster"
  <2>1. elapsed' = elapsed /\ pc'[n] # "recordMaster"
    BY ScriptIsLocal
  <2> QED BY <2>1 DEF RunScript, RecordMaster, StopFirst, StartHA, WaitHA, PostStartHooks,
         RecordBackup, StopHA, ScriptFails, NotifyTimesOut, Script
<1>2. holder' = n => UNCHANGED <<holder, ttl>>
  BY NodesAssumption DEF RunScript, RecordMaster, StopFirst, StartHA, WaitHA, PostStartHooks,
     RecordBackup, StopHA, ScriptFails, NotifyTimesOut, ContainerStops, Release
<1>3. vrrp'[n] = "MASTER" => vrrp[n] = "MASTER" \/ pc[n] = "recordMaster"
  BY DEF RunScript, RecordMaster, StopFirst, StartHA, WaitHA, PostStartHooks,
     RecordBackup, StopHA, ScriptFails, NotifyTimesOut, Script, Record, TypeOK
<1> QED BY <1>1, <1>2, <1>3 DEF KeepsPace, OnTheClock

LEMMA PaceThroughRest ==
    ASSUME TypeOK, TypeOK', InReach, NEW n \in Nodes, KeepsPace(n),
           HomeAssistant(n) \/ Operator(n) \/ Environment(n)
    PROVE  KeepsPace(n)'
<1> USE DEF leaseVars, fileVars, hostVars, tickVars
<1>1. CASE HomeAssistant(n)
  <2>1. LeaderFrame(n)
    BY <1>1 DEF HomeAssistant, HaAnswers, HaWedges, HaCrashes, HaRespawns, HaOnly,
                OperatorStops, OperatorStarts, IntegrationResolves, LeaderFrame
  <2>2. holder' = n => UNCHANGED <<holder, ttl>> \/ ttl' = LeaseTTL
    BY <1>1, NodesAssumption
       DEF HomeAssistant, HaAnswers, HaWedges, HaCrashes, HaRespawns, OperatorStops,
           OperatorStarts, IntegrationResolves, ContainerStops, Release, RenewOnly,
           TakeOrRenew, HeldAfresh
  <2>3. CASE ttl' = LeaseTTL
    BY <2>1, <2>3, Renewed DEF KeepsPace, LeaderFrame
  <2> QED BY <2>1, <2>2, <2>3, KeepsPaceFrame DEF KeepsPace, LeaderFrame
<1>2. CASE Operator(n)
  <2>1. UNCHANGED <<leaseVars, vrrp, pc, elapsed, up, link>>
    BY <1>2 DEF Operator, SetOrClearLocalHold, RequestHandover, WithdrawHandover,
                PlaceOrRemoveForce, Adopt, OperatorOnly, InReach
  <2>2. forceFile'[n] => "force" \in Disturbances
    BY <1>2 DEF Operator, SetOrClearLocalHold, RequestHandover, WithdrawHandover,
                PlaceOrRemoveForce, Adopt, OperatorOnly, InReach, KeepsPace
  <2> QED BY <2>1, <2>2 DEF KeepsPace, OnTheClock
<1>3. CASE PowerLoss(n)
  <2>1. ~up'[n] /\ pc'[n] = "idle" /\ UNCHANGED <<link, forceFile>>
    <3>1. DOMAIN up = Nodes /\ DOMAIN pc = Nodes
      BY DEF TypeOK
    <3> QED BY <1>3, <3>1 DEF PowerLoss
  <2> QED BY <2>1 DEF KeepsPace
<1>4. CASE Boot(n)
  <2>1. vrrp'[n] = "BACKUP" /\ ~forceFile'[n] /\ ~up[n] /\ UNCHANGED <<pc, link>>
    <3>1. DOMAIN vrrp = Nodes /\ DOMAIN forceFile = Nodes
      BY DEF TypeOK
    <3> QED BY <1>4, <3>1 DEF Boot, tickVars
  <2> QED BY <2>1 DEF KeepsPace
<1>5. ~LinkFailsOrHeals(n)
  BY DEF LinkFailsOrHeals, InReach
<1> QED BY <1>1, <1>2, <1>3, <1>4, <1>5 DEF Environment

LEMMA PaceThroughAdvance ==
    ASSUME TypeOK, NEW n \in Nodes, KeepsPace(n), Advance
    PROVE  KeepsPace(n)'
<1>1. UNCHANGED <<up, vrrp, pc, link, forceFile>>
  BY DEF Advance, hostVars
<1>2. elapsed[n] \in Nat /\ ttl \in 0..LeaseTTL /\ (up[n] => elapsed'[n] = elapsed[n] + 1)
  <2>1. elapsed[n] \in Nat /\ ttl \in 0..LeaseTTL
    <3>1. elapsed[n] \in 0..NotifyTimeout + 1 /\ ttl \in 0..LeaseTTL
      BY DEF TypeOK, LeaseTypeOK
    <3> QED BY <3>1, Bounds
  <2>2. up[n] => elapsed'[n] = elapsed[n] + 1
    BY DEF Advance
  <2> QED BY <2>1, <2>2
<1>3. holder' = n => holder = n /\ ttl' = ttl - 1
  BY <1>2, NodesAssumption, Bounds DEF Advance, Elapse
<1> QED BY <1>1, <1>2, <1>3, Bounds DEF KeepsPace, OnTheClock

\* The invariant behind a leader that keeps the lease.
LEMMA LeadersAlwaysKeepPace == InReach /\ Spec => [](\A n \in Nodes : KeepsPace(n))
<1> SUFFICES ASSUME InReach
             PROVE  Spec => [](\A n \in Nodes : KeepsPace(n))
  OBVIOUS
<1>1. Init => \A n \in Nodes : KeepsPace(n)
  BY NodesAssumption DEF Init, LeaseInit, KeepsPace
<1>2. TypeOK /\ TypeOK' /\ (\A n \in Nodes : KeepsPace(n)) /\ [Next]_vars
        => (\A n \in Nodes : KeepsPace(n))'
  <2> SUFFICES ASSUME TypeOK, TypeOK', \A m \in Nodes : KeepsPace(m), [Next]_vars,
                      NEW n \in Nodes
               PROVE  KeepsPace(n)'
    OBVIOUS
  <2>1. ASSUME NEW m \in Nodes,
               RunTick(m) \/ RunScript(m) \/ HomeAssistant(m) \/ Operator(m) \/ Environment(m)
        PROVE  KeepsPace(n)'
    <3>1. CASE m = n
      BY <2>1, <3>1, PaceThroughTick, PaceThroughScript, PaceThroughRest
    <3>2. CASE m # n
      BY <2>1, <3>2, LeaderIsLocal, OthersLeaveTheLease, KeepsPaceFrame
    <3> QED BY <3>1, <3>2
  <2>2. CASE SetOrClearClusterHold \/ UNCHANGED vars
    BY <2>2 DEF SetOrClearClusterHold, OperatorOnly, vars, leaseVars, fileVars, hostVars,
                tickVars, KeepsPace, OnTheClock
  <2> QED BY <2>1, <2>2, PaceThroughAdvance DEF Next
<1> QED BY <1>1, <1>2, TypeCorrect, PTL DEF Spec

\* A leader's own tick loses the lease only by giving it up.
LEMMA OnlyGivingUpLoses ==
    ASSUME NEW n \in Nodes, RunTick(n), holder = n, holder' # n
    PROVE  (vrrp[n] = "MASTER" /\ request[n]) \/ ha[n] # "serving"
<1>1. ~TakeOrRenew(n) /\ ~RenewOnly(n) /\ ~ForceClaim(n) /\ ~UNCHANGED leaseVars
  BY DEF TakeOrRenew, RenewOnly, ForceClaim, LeaseGranted, RenewGranted, HeldAfresh, leaseVars
<1> QED
  BY <1>1 DEF RunTick, TickUnreachable, TickHeld, TickForced, TickHandover, TickRelease,
     TickHeldDown, TickLease, TickReplyLost, TickHeartbeatLate, TickProbes, TickRenews,
     TickCutOff, ProbeFails, leaseVars

\* A leader whose Home Assistant answers and whose clock has not run for a whole TTL
\* loses the lease to nothing but its own handover or another node's force-master:
\* not to the clock, a hold, the probe or another node's tick, however late or lost
\* the replies, and for any number of nodes and any timing.
THEOREM HealthyLeaderStays == InReach /\ Spec => HealthyLeaderKeepsLease
<1> SUFFICES ASSUME InReach
             PROVE  Spec => HealthyLeaderKeepsLease
  OBVIOUS
<1>1. TypeOK /\ (\A n \in Nodes : KeepsPace(n)) /\ [Next]_vars =>
        [\A n \in Nodes :
            /\ holder = n /\ holder' # n
            /\ up[n] /\ vrrp[n] = "MASTER" /\ elapsed'[n] < LeaseTTL
            /\ ha[n] = "serving" /\ ha'[n] = "serving"
            => request[n] \/ \E m \in Nodes \ {n} : forceFile[m]]_vars
  <2> SUFFICES ASSUME TypeOK, \A m \in Nodes : KeepsPace(m), Next, NEW n \in Nodes,
                      holder = n, holder' # n, up[n], vrrp[n] = "MASTER",
                      elapsed'[n] < LeaseTTL, ha[n] = "serving", ha'[n] = "serving"
               PROVE  request[n] \/ \E m \in Nodes \ {n} : forceFile[m]
    BY DEF vars, leaseVars
  <2> USE DEF leaseVars, fileVars, hostVars, tickVars
  <2>1. ASSUME NEW m \in Nodes \ {n},
               RunTick(m) \/ RunScript(m) \/ HomeAssistant(m) \/ Operator(m) \/ Environment(m)
        PROVE  forceFile[m]
    BY <2>1, OthersLeaveTheLease
  <2>2. CASE RunTick(n)
    BY <2>2, OnlyGivingUpLoses
  <2>3. ASSUME NEW next \in {"stopped", "booting"}, ContainerStops(n, next)
        PROVE  FALSE
    BY <2>3 DEF ContainerStops, TypeOK
  <2>4. ~RunScript(n)
    BY <2>3 DEF RunScript, RecordMaster, StopFirst, StartHA, WaitHA, PostStartHooks,
                RecordBackup, StopHA, ScriptFails, NotifyTimesOut
  <2>5. ~HomeAssistant(n)
    BY <2>3 DEF HomeAssistant, HaAnswers, HaWedges, HaCrashes, HaRespawns, OperatorStops,
           OperatorStarts, IntegrationResolves, RenewOnly, RenewGranted, TakeOrRenew,
           LeaseGranted, HeldAfresh
  <2>6. ~Operator(n) /\ ~Environment(n) /\ ~SetOrClearClusterHold
    BY DEF Operator, SetOrClearLocalHold, RequestHandover, WithdrawHandover,
           PlaceOrRemoveForce, Adopt, Environment, LinkFailsOrHeals, PowerLoss, Boot,
           SetOrClearClusterHold, OperatorOnly
  <2>7. ~Advance
    <3> SUFFICES ASSUME Advance
                 PROVE  FALSE
      OBVIOUS
    <3>1. OnTheClock(n)
      BY DEF KeepsPace
    <3>2. elapsed[n] \in 0..NotifyTimeout + 1
      BY DEF TypeOK
    <3>3. elapsed'[n] = elapsed[n] + 1
      BY DEF Advance
    <3>4. elapsed'[n] >= LeaseTTL
      BY <3>1, ClockThroughAdvance
    <3> QED BY <3>2, <3>3, <3>4, Bounds
  <2> QED BY <2>1, <2>2, <2>4, <2>5, <2>6, <2>7 DEF Next
<1> QED BY <1>1, TypeCorrect, LeadersAlwaysKeepPace, PTL DEF Spec, HealthyLeaderKeepsLease
==============================================================================
