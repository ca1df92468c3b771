--------------------------- MODULE ClusterPromoter ---------------------------
(***************************************************************************)
(* The election.  On each node systemd runs cluster_promoter.py every ten  *)
(* seconds; one run reads the node's own state file, takes or renews or    *)
(* releases the lease, and only on a change runs notify_master.sh or       *)
(* notify_backup.sh, which record the new role and start or stop Home      *)
(* Assistant.  The unit is a oneshot: no new tick while a script runs.     *)
(*                                                                         *)
(* Time advances in promoter periods.  Within a period the nodes' ticks,   *)
(* the steps of their scripts, Home Assistant, the operators and the       *)
(* environment interleave freely; a period ends when every live promoter   *)
(* has ticked.  A tick that probes its Home Assistant has read the hold    *)
(* before the probe and reaches the lease after it.  A script may take any *)
(* time up to NotifyTimeout, which in the code is four lease TTLs.         *)
(***************************************************************************)
EXTENDS Lease

CONSTANTS
    BaseGrace,          \* DEFAULT_BASE_GRACE_SECONDS
    ProbeCeiling,       \* DEFAULT_PROBE_GRACE_SECONDS
    BackupGrace,        \* BACKUP_SERVING_GRACE_SECONDS
    HoldDown,           \* DEFAULT_RELEASE_HOLDDOWN_SECONDS
    NotifyTimeout,      \* NOTIFY_TIMEOUT_SECONDS
    ReadyTimeout,       \* HA_READY_TIMEOUT_SECONDS
    Cold,               \* topology: the standby's Home Assistant is stopped
    Fileset,            \* a promotion swaps the leader's files in
    LeaseSource,        \* the integration runs with leadership source "lease"
    Disturbances        \* what operators and the environment may do

Kinds == {"partition", "lossy", "power", "wedge", "crash", "operator", "hold",
          "force", "notefault", "handover", "adopt", "filefault", "dockerfault", "stall"}

ASSUME TimingAssumption ==
    /\ {BaseGrace, ProbeCeiling, BackupGrace, HoldDown, NotifyTimeout, ReadyTimeout}
         \subseteq Nat \ {0}
    /\ BaseGrace <= ProbeCeiling
    /\ BackupGrace <= ProbeCeiling

ASSUME ModeAssumption ==
    /\ Cold \in BOOLEAN
    /\ Fileset \in BOOLEAN
    /\ LeaseSource \in BOOLEAN
    /\ Disturbances \subseteq Kinds

VARIABLES
    vrrp,           \* the state file: "MASTER", "BACKUP" or "" (absent, unreadable)
    age,            \* its age, capped at ProbeCeiling
    holddown,       \* what is left of the release-holddown marker, 0 if absent or spent
    localHold,      \* the node's maintenance-hold file is there and has not expired
    clusterHold,    \* the shared hold key is there and has not expired
    forceFile,      \* /run/cluster-sync/force-master exists
    request,        \* the handover request file
    ha,             \* the Home Assistant container
    up,             \* the host is powered
    link,           \* the host can reach Valkey
    pc,             \* where the tick is: "idle", "probe", or a step of a notify script
    elapsed,        \* periods since the promoter's last tick reached the lease, or failed to
    due,            \* the promoter has yet to run this period
    sinceRelease    \* history: periods since the promoter last gave the lease up

leaseVars == <<holder, ttl>>
fileVars == <<vrrp, age, holddown, localHold, forceFile, request>>
hostVars == <<ha, up, link>>
tickVars == <<pc, elapsed, due>>
vars == <<leaseVars, fileVars, clusterHold, hostVars, tickVars, sinceRelease>>

ContainerStates == {"stopped", "booting", "serving", "wedged", "restarting"}

\* Between ticks, waiting for the D3 probe, or at a command of a notify script.
Steps == {"idle", "probe", "recordMaster", "stopFirst", "startHA", "waitHA", "postStart",
          "recordBackup", "stopHA"}

\* A script is cut off at NotifyTimeout, and the timer is due in the next period.
InTime(n) ==
    \/ elapsed[n] <= NotifyTimeout
    \/ pc[n] = "probe"
    \/ pc[n] = "idle" /\ due[n]

TypeOK ==
    /\ LeaseTypeOK
    /\ vrrp \in [Nodes -> {"MASTER", "BACKUP", ""}]
    /\ age \in [Nodes -> 0..ProbeCeiling]
    /\ holddown \in [Nodes -> 0..HoldDown]
    /\ localHold \in [Nodes -> BOOLEAN]
    /\ clusterHold \in BOOLEAN
    /\ forceFile \in [Nodes -> BOOLEAN]
    /\ request \in [Nodes -> BOOLEAN]
    /\ ha \in [Nodes -> ContainerStates]
    /\ up \in [Nodes -> BOOLEAN]
    /\ link \in [Nodes -> BOOLEAN]
    /\ pc \in [Nodes -> Steps]
    /\ elapsed \in [Nodes -> 0..NotifyTimeout + 1]
    /\ \A n \in Nodes : InTime(n)
    /\ due \in [Nodes -> BOOLEAN]
    /\ sinceRelease \in [Nodes -> 0..HoldDown]

(* Installed and booted: tmpfiles.d wrote BACKUP, nobody leads yet.  A warm  *)
(* standby's Home Assistant runs; a cold one's waits for its promotion.      *)
Init ==
    /\ LeaseInit
    /\ vrrp = [n \in Nodes |-> "BACKUP"]
    /\ age = [n \in Nodes |-> 0]
    /\ holddown = [n \in Nodes |-> 0]
    /\ localHold = [n \in Nodes |-> FALSE]
    /\ clusterHold = FALSE
    /\ forceFile = [n \in Nodes |-> FALSE]
    /\ request = [n \in Nodes |-> FALSE]
    /\ ha = [n \in Nodes |-> IF Cold THEN "stopped" ELSE "serving"]
    /\ up = [n \in Nodes |-> TRUE]
    /\ link = [n \in Nodes |-> TRUE]
    /\ pc = [n \in Nodes |-> "idle"]
    /\ elapsed = [n \in Nodes |-> 0]
    /\ due = [n \in Nodes |-> TRUE]
    /\ sinceRelease = [n \in Nodes |-> HoldDown]

------------------------------------------------------------------------------
(* What a tick reads. *)

Held(n) == localHold[n] \/ clusterHold

\* What a reader makes of it: a cluster-wide hold it fails to read is none.
HoldReadings(n) ==
    IF "stall" \in Disturbances THEN {Held(n), localHold[n]} ELSE {Held(n)}

Running(n) == ha[n] \in {"booting", "serving", "wedged"}

\* _recently_touched(state_path, window)
StateFresh(n, window) == age[n] < window

\* _grace_extended must say yes: the container is demonstrably restarting.
MustExtend(n) == StateFresh(n, ProbeCeiling) /\ ha[n] = "restarting"

\* Faulty: the grace has no ceiling.
MayExtendForEver(n) == n \in Nodes

\* _grace_extended may say yes: nothing is known of when the container started.
MayExtend(n) == StateFresh(n, ProbeCeiling)

\* A hold-down bars only a take: a leader's renewal never looks at it.
HeldDown(n) == vrrp[n] # "MASTER" /\ holddown[n] > 0

\* Faulty: a reading of BACKUP is taken for the truth.
TrustsTheFile(n) == n \notin Nodes

\* BACKUP on file, lease elsewhere, yet the container runs: a demotion never ran.
BackupIsServing(n) ==
    /\ Cold
    /\ vrrp[n] = "BACKUP"
    /\ ~StateFresh(n, BackupGrace)
    /\ Running(n)

\* decide(), and the reconcile check that follows when nothing changed.
Act(n, previous, holdsLease) ==
    pc' = [pc EXCEPT ![n] =
             IF holdsLease
             THEN IF previous = "MASTER" THEN "idle" ELSE "recordMaster"
             ELSE IF previous # "BACKUP" \/ BackupIsServing(n)
                  THEN "recordBackup" ELSE "idle"]

\* What a tick may take LEASE_SCRIPT to have answered.  The heartbeat and the hold
\* are read on the same connection, a failed read is shrugged off, and answers come
\* in order: after a stall the lease is answered by the hold's late text, or by the
\* heartbeat's "OK".
LeaseAnswers(n) ==
    IF "stall" \in Disturbances
    THEN {LeaseGranted(n), clusterHold, TRUE}
    ELSE {LeaseGranted(n)}

\* The timer fires at n: the host is up and no tick of its own is under way.
Fires(n) ==
    /\ up[n] /\ due[n] /\ pc[n] = "idle"
    /\ due' = [due EXCEPT ![n] = FALSE]
    /\ UNCHANGED <<vrrp, age, localHold, clusterHold, forceFile, hostVars>>

\* A tick that needs no probe goes from the hold to the lease in one round trip.
Tick(n) ==
    /\ Fires(n)
    /\ elapsed' = [elapsed EXCEPT ![n] = 0]

------------------------------------------------------------------------------
(* One tick: main() and run().  Each is one branch of run(). *)

\* main() connects before anything else, so an unreachable store ends the tick.
TickUnreachable(n) ==
    /\ Tick(n)
    /\ ~link[n]
    /\ UNCHANGED <<leaseVars, holddown, request, pc, sinceRelease>>

\* Faulty: a held node asks with LEASE_SCRIPT, which also takes.
TickHeldTakes(n) ==
    /\ Tick(n)
    /\ link[n] /\ Held(n) /\ ~forceFile[n]
    /\ TakeOrRenew(n)
    /\ Act(n, vrrp[n], LeaseGranted(n))
    /\ UNCHANGED <<holddown, request, sinceRelease>>

\* Faulty: a held node returns before it reaches the lease.
TickHeldReturns(n) ==
    /\ Tick(n)
    /\ link[n] /\ Held(n) /\ ~forceFile[n]
    /\ UNCHANGED <<leaseVars, holddown, request, pc, sinceRelease>>

\* Maintenance hold: keep what we have, take nothing, act on nothing.
TickHeld(n) ==
    /\ Tick(n)
    /\ link[n] /\ Held(n) /\ ~forceFile[n]
    /\ RenewOnly(n)
    /\ UNCHANGED <<holddown, request, pc, sinceRelease>>

\* The heartbeat's late "OK" is read as the text of a cluster-wide hold.
TickHeartbeatLate(n) ==
    /\ "stall" \in Disturbances
    /\ Tick(n)
    /\ link[n] /\ ~forceFile[n]
    /\ RenewOnly(n)
    /\ UNCHANGED <<holddown, request, pc, sinceRelease>>

\* force-master: claim the key as best we can and lead whatever it answered.  The
\* note of who forced is written in between, and failing to write it ends the tick.
TickForced(n) ==
    /\ Tick(n)
    /\ link[n] /\ forceFile[n]
    /\ \/ ForceClaim(n)
       \/ "lossy" \in Disturbances /\ UNCHANGED leaseVars
    /\ \/ Act(n, vrrp[n], TRUE)
       \/ "notefault" \in Disturbances /\ UNCHANGED pc
    /\ sinceRelease' = [sinceRelease EXCEPT ![n] = HoldDown]
    /\ UNCHANGED <<holddown, request>>

\* run() has read no hold and no override.
Unheld(n) == link[n] /\ FALSE \in HoldReadings(n) /\ ~forceFile[n]

\* Faulty: the marker is forgotten.
GiveUpUnmarked(n) ==
    /\ Release(n)
    /\ sinceRelease' = [sinceRelease EXCEPT ![n] = 0]
    /\ Act(n, "MASTER", FALSE)
    /\ UNCHANGED holddown

\* A leader gives the lease up, with the marker that keeps it from retaking it.
GiveUp(n) ==
    /\ Release(n)
    /\ \/ holddown' = [holddown EXCEPT ![n] = HoldDown]
       \/ "filefault" \in Disturbances /\ UNCHANGED holddown
    /\ sinceRelease' = [sinceRelease EXCEPT ![n] = 0]
    /\ Act(n, "MASTER", FALSE)

\* An operator's handover, before the probe is even asked; consumed last.
TickHandover(n) ==
    /\ Tick(n)
    /\ Unheld(n)
    /\ vrrp[n] = "MASTER" /\ request[n]
    /\ GiveUp(n)
    /\ \/ request' = [request EXCEPT ![n] = FALSE]
       \/ "filefault" \in Disturbances /\ UNCHANGED request

\* Faulty: a free lease is seen, declined, and acted on all the same.
HeldDownPromotes(n) ==
    /\ Tick(n)
    /\ Unheld(n)
    /\ HeldDown(n)
    /\ Act(n, vrrp[n], LeaseGranted(n))
    /\ UNCHANGED <<leaseVars, holddown, request, sinceRelease>>

\* M3: this node gave the lease up too recently to take it back.
TickHeldDown(n) ==
    /\ Tick(n)
    /\ Unheld(n)
    /\ HeldDown(n)
    /\ Act(n, vrrp[n], FALSE)
    /\ UNCHANGED <<leaseVars, holddown, request, sinceRelease>>

\* Faulty: the hold-down is not consulted.
OrdinaryTickHeldDown(n) ==
    /\ Unheld(n)
    /\ vrrp[n] = "MASTER" => ~request[n] /\ StateFresh(n, BaseGrace)

\* run() reaches its last branch without a probe.
OrdinaryTick(n) ==
    /\ Unheld(n)
    /\ vrrp[n] = "MASTER" => ~request[n] /\ StateFresh(n, BaseGrace)
    /\ ~HeldDown(n)

\* The ordinary tick: take a free lease or renew our own.
TickLease(n) ==
    /\ Tick(n)
    /\ OrdinaryTick(n)
    /\ TakeOrRenew(n)
    /\ \E answer \in LeaseAnswers(n) : Act(n, vrrp[n], answer)
    /\ UNCHANGED <<holddown, request, sinceRelease>>

\* The script reached the server and the answer was lost: the tick fails there,
\* with no role change, no marker and the request still pending.
TickReplyLost(n) ==
    /\ "lossy" \in Disturbances
    /\ Tick(n)
    /\ link[n] /\ ~forceFile[n]
    /\ \/ Held(n) /\ RenewOnly(n)
       \/ Unheld(n) /\ vrrp[n] = "MASTER" /\ request[n] /\ Release(n)
       \/ OrdinaryTick(n) /\ TakeOrRenew(n)
    /\ UNCHANGED <<holddown, request, pc, sinceRelease>>

(* D3: an established leader asks its own Home Assistant before it renews.   *)
(* The probe takes up to PROBE_TIMEOUT_SECONDS and the container's           *)
(* inspection longer; the hold, the override and the role were read before.  *)

TickProbes(n) ==
    /\ Fires(n)
    /\ Unheld(n)
    /\ vrrp[n] = "MASTER" /\ ~request[n] /\ ~StateFresh(n, BaseGrace)
    /\ pc' = [pc EXCEPT ![n] = "probe"]
    /\ UNCHANGED <<leaseVars, holddown, request, elapsed, sinceRelease>>

\* The probe is over and the tick goes on to the lease as the leader it read it was.
Probed(n) ==
    /\ up[n] /\ pc[n] = "probe"
    /\ elapsed' = [elapsed EXCEPT ![n] = 0]
    /\ UNCHANGED <<vrrp, age, localHold, clusterHold, forceFile, request, hostVars, due>>

\* Home Assistant is silent and nothing extends its grace.
ProbeFails(n) == ha[n] # "serving" /\ ~MustExtend(n)

\* It answers, or its container may be on its way back.
ProbeSpares(n) == ha[n] = "serving" \/ MayExtend(n)

TickRelease(n) ==
    /\ Probed(n)
    /\ link[n] /\ ProbeFails(n)
    /\ GiveUp(n)

TickRenews(n) ==
    /\ Probed(n)
    /\ link[n] /\ ProbeSpares(n)
    /\ TakeOrRenew(n)
    /\ \E answer \in LeaseAnswers(n) : Act(n, "MASTER", answer)
    /\ UNCHANGED <<holddown, sinceRelease>>

\* The store went out of reach meanwhile, or its answer is lost: the tick fails.
TickCutOff(n) ==
    /\ Probed(n)
    /\ \/ ~link[n] /\ UNCHANGED leaseVars
       \/ /\ "lossy" \in Disturbances /\ link[n]
          /\ \/ ProbeFails(n) /\ Release(n)
             \/ ProbeSpares(n) /\ TakeOrRenew(n)
    /\ pc' = [pc EXCEPT ![n] = "idle"]
    /\ UNCHANGED <<holddown, sinceRelease>>

------------------------------------------------------------------------------
(* The notify scripts, step by step; `Tick` may not run beside them. *)

Script(n, step) == up[n] /\ pc[n] = step

Goto(n, step) == pc' = [pc EXCEPT ![n] = step] /\ UNCHANGED <<elapsed, due>>

\* The script is over, one way or another, and with it the tick that ran it.
Finish(n) == Goto(n, "idle")

\* _record_vrrp_state: first in both scripts, atomic, and never fatal.
Record(n, role) ==
    \/ /\ vrrp' = [vrrp EXCEPT ![n] = role]
       /\ age' = [age EXCEPT ![n] = 0]
    \/ "filefault" \in Disturbances /\ UNCHANGED <<vrrp, age>>

\* SIGTERM reaches Home Assistant: a live integration hands its own lease back
\* unless a hold says otherwise, and the container is gone.
ContainerStops(n, next) ==
    /\ ha' = [ha EXCEPT ![n] = next]
    /\ IF ha[n] = "serving" /\ link[n] /\ ~Held(n)
       THEN Release(n)
       ELSE UNCHANGED leaseVars

\* A warm promotion that swaps files stops Home Assistant for it.
StopsFirst == ~Cold /\ Fileset

\* Faulty: notify_master.sh starts Home Assistant and records nothing.
RecordNothing(n) ==
    /\ Script(n, "recordMaster")
    /\ Goto(n, IF StopsFirst THEN "stopFirst" ELSE "startHA")
    /\ UNCHANGED <<leaseVars, fileVars, clusterHold, hostVars, sinceRelease>>

RecordMaster(n) ==
    /\ Script(n, "recordMaster")
    /\ Record(n, "MASTER")
    /\ Goto(n, IF StopsFirst THEN "stopFirst" ELSE "startHA")
    /\ UNCHANGED <<leaseVars, holddown, localHold, forceFile, request, clusterHold,
                   hostVars, sinceRelease>>

\* `docker stop`, before the swap; a refusal is logged and passed over.  Home
\* Assistant hands back the very lease this promotion was made on.
StopFirst(n) ==
    /\ Script(n, "stopFirst")
    /\ \/ ContainerStops(n, "stopped")
       \/ "dockerfault" \in Disturbances /\ UNCHANGED <<leaseVars, ha>>
    /\ Goto(n, "startHA")
    /\ UNCHANGED <<fileVars, clusterHold, up, link, sinceRelease>>

\* Swap, pre-start hooks, pre-flight and `docker start`.  Warm without a fileset has
\* Home Assistant running all along, and logs a start that fails.
StartHA(n) ==
    /\ Script(n, "startHA")
    /\ \/ ha' = [ha EXCEPT ![n] = IF @ = "stopped" /\ (Cold \/ Fileset) THEN "booting" ELSE @]
       \/ ~Cold /\ "dockerfault" \in Disturbances /\ UNCHANGED ha
    /\ Goto(n, IF Cold THEN "waitHA" ELSE "postStart")
    /\ UNCHANGED <<leaseVars, fileVars, clusterHold, up, link, sinceRelease>>

\* _wait_for_ha: an answer, or its own patience, ends the wait.
WaitHA(n) ==
    /\ Script(n, "waitHA")
    /\ ha[n] = "serving" \/ elapsed[n] >= ReadyTimeout
    /\ Goto(n, "postStart")
    /\ UNCHANGED <<leaseVars, fileVars, clusterHold, hostVars, sinceRelease>>

\* The post-start hooks; warm opens its firewall and settles.
PostStartHooks(n) ==
    /\ Script(n, "postStart")
    /\ Finish(n)
    /\ UNCHANGED <<leaseVars, fileVars, clusterHold, hostVars, sinceRelease>>

RecordBackup(n) ==
    /\ Script(n, "recordBackup")
    /\ Record(n, "BACKUP")
    /\ Goto(n, "stopHA")
    /\ UNCHANGED <<leaseVars, holddown, localHold, forceFile, request, clusterHold,
                   hostVars, sinceRelease>>

\* `docker stop` and the post-stop hooks; warm closes its firewall instead.
StopHA(n) ==
    /\ Script(n, "stopHA")
    /\ IF Cold THEN ContainerStops(n, "stopped") ELSE UNCHANGED <<leaseVars, ha>>
    /\ Finish(n)
    /\ UNCHANGED <<fileVars, clusterHold, up, link, sinceRelease>>

\* Docker (cold) or nft (warm) refuses: `set -e` ends the script and the tick
\* returns its code.
ScriptFails(n) ==
    /\ "dockerfault" \in Disturbances
    /\ Script(n, "stopHA") \/ Script(n, IF Cold THEN "startHA" ELSE "postStart")
    /\ Finish(n)
    /\ UNCHANGED <<leaseVars, fileVars, clusterHold, hostVars, sinceRelease>>

\* _run_notify_script gives up on the script; a docker command already handed to
\* the daemon may still be carried out.
NotifyTimesOut(n) ==
    /\ up[n] /\ pc[n] \notin {"idle", "probe", "recordMaster", "recordBackup"}
    /\ elapsed[n] = NotifyTimeout
    /\ \/ UNCHANGED <<leaseVars, ha>>
       \/ Cold /\ pc[n] = "stopHA" /\ ContainerStops(n, "stopped")
       \/ pc[n] = "stopFirst" /\ ContainerStops(n, "stopped")
    /\ Finish(n)
    /\ UNCHANGED <<fileVars, clusterHold, up, link, sinceRelease>>

------------------------------------------------------------------------------
(* Home Assistant, and the integration inside it. *)

HaOnly == UNCHANGED <<fileVars, clusterHold, up, link, tickVars, sinceRelease>>

HaAnswers(n) ==
    /\ up[n] /\ ha[n] = "booting"
    /\ ha' = [ha EXCEPT ![n] = "serving"]
    /\ HaOnly /\ UNCHANGED leaseVars

HaWedges(n) ==
    /\ "wedge" \in Disturbances
    /\ up[n] /\ ha[n] \in {"booting", "serving"}
    /\ ha' = [ha EXCEPT ![n] = "wedged"]
    /\ HaOnly /\ UNCHANGED leaseVars

\* The process dies; the container's `unless-stopped` policy restarts it.
HaCrashes(n) ==
    /\ "crash" \in Disturbances
    /\ up[n] /\ Running(n)
    /\ ha' = [ha EXCEPT ![n] = "restarting"]
    /\ HaOnly /\ UNCHANGED leaseVars

HaRespawns(n) ==
    /\ up[n] /\ ha[n] = "restarting"
    /\ ha' = [ha EXCEPT ![n] = "booting"]
    /\ HaOnly /\ UNCHANGED leaseVars

\* `docker stop`, `docker restart` and `docker start` by hand.
OperatorStops(n) ==
    /\ "operator" \in Disturbances
    /\ up[n] /\ ha[n] # "stopped"
    /\ \E next \in {"stopped", "booting"} : ContainerStops(n, next)
    /\ HaOnly

OperatorStarts(n) ==
    /\ "operator" \in Disturbances
    /\ up[n] /\ ha[n] = "stopped"
    /\ ha' = [ha EXCEPT ![n] = "booting"]
    /\ HaOnly /\ UNCHANGED leaseVars

\* Faulty: the integration does not know of holds.
ResolvesThroughAHold(n) ==
    /\ LeaseSource
    /\ up[n] /\ link[n] /\ ha[n] = "serving"
    /\ TakeOrRenew(n)
    /\ UNCHANGED <<fileVars, clusterHold, hostVars, tickVars, sinceRelease>>

\* leadership._from_lease, on every flush of the integration: the same lease
\* under the same identity, with the hold's rule but no hold-down.
IntegrationResolves(n) ==
    /\ LeaseSource
    /\ up[n] /\ link[n] /\ ha[n] = "serving"
    /\ \E held \in HoldReadings(n) : IF held THEN RenewOnly(n) ELSE TakeOrRenew(n)
    /\ UNCHANGED <<fileVars, clusterHold, hostVars, tickVars, sinceRelease>>

------------------------------------------------------------------------------
(* Operators. *)

OperatorOnly == UNCHANGED <<leaseVars, hostVars, tickVars>>

SetOrClearLocalHold(n) ==
    /\ "hold" \in Disturbances
    /\ up[n]
    /\ localHold' = [localHold EXCEPT ![n] = ~@]
    /\ OperatorOnly
    /\ UNCHANGED <<vrrp, age, holddown, forceFile, request, clusterHold, sinceRelease>>

SetOrClearClusterHold ==
    /\ "hold" \in Disturbances
    /\ clusterHold' = ~clusterHold
    /\ OperatorOnly
    /\ UNCHANGED <<fileVars, sinceRelease>>

\* The dashboard's switch works on any node whose Home Assistant is up.
RequestHandover(n) ==
    /\ "handover" \in Disturbances
    /\ up[n] /\ ha[n] = "serving" /\ ~request[n]
    /\ request' = [request EXCEPT ![n] = TRUE]
    /\ OperatorOnly
    /\ UNCHANGED <<vrrp, age, holddown, localHold, forceFile, clusterHold, sinceRelease>>

WithdrawHandover(n) ==
    /\ "handover" \in Disturbances
    /\ up[n] /\ ha[n] = "serving" /\ request[n]
    /\ request' = [request EXCEPT ![n] = FALSE]
    /\ OperatorOnly
    /\ UNCHANGED <<vrrp, age, holddown, localHold, forceFile, clusterHold, sinceRelease>>

PlaceOrRemoveForce(n) ==
    /\ "force" \in Disturbances
    /\ up[n]
    /\ forceFile' = [forceFile EXCEPT ![n] = ~@]
    /\ OperatorOnly
    /\ UNCHANGED <<vrrp, age, holddown, localHold, request, clusterHold, sinceRelease>>

\* --adopt: record the role the lease says this node has, backdated so that it
\* is probed at once, and end any hold-down.
Adopt(n) ==
    /\ "adopt" \in Disturbances
    /\ up[n] /\ link[n]
    /\ vrrp' = [vrrp EXCEPT ![n] = IF holder = n THEN "MASTER" ELSE "BACKUP"]
    /\ age' = [age EXCEPT ![n] = ProbeCeiling]
    /\ holddown' = [holddown EXCEPT ![n] = 0]
    /\ sinceRelease' = [sinceRelease EXCEPT ![n] = HoldDown]
    /\ OperatorOnly
    /\ UNCHANGED <<localHold, forceFile, request, clusterHold>>

------------------------------------------------------------------------------
(* The environment. *)

LinkFailsOrHeals(n) ==
    /\ "partition" \in Disturbances
    /\ link' = [link EXCEPT ![n] = ~@]
    /\ UNCHANGED <<leaseVars, fileVars, clusterHold, ha, up, tickVars, sinceRelease>>

PowerLoss(n) ==
    /\ "power" \in Disturbances
    /\ up[n]
    /\ up' = [up EXCEPT ![n] = FALSE]
    /\ pc' = [pc EXCEPT ![n] = "idle"]
    /\ elapsed' = [elapsed EXCEPT ![n] = 0]
    /\ due' = [due EXCEPT ![n] = FALSE]
    /\ UNCHANGED <<leaseVars, fileVars, clusterHold, ha, link, sinceRelease>>

\* Faulty: the state file survives the reboot.
BootRemembersRole(n) ==
    /\ ~up[n]
    /\ up' = [up EXCEPT ![n] = TRUE]
    /\ holddown' = [holddown EXCEPT ![n] = 0]
    /\ forceFile' = [forceFile EXCEPT ![n] = FALSE]
    /\ ha' = [ha EXCEPT ![n] = IF @ = "stopped" THEN @ ELSE "booting"]
    /\ UNCHANGED <<leaseVars, vrrp, age, localHold, request, clusterHold, link, tickVars,
                   sinceRelease>>

\* /run is a tmpfs: the hold-down and force-master are gone, and tmpfiles.d says
\* BACKUP.  Docker restarts whatever nobody had stopped.
Boot(n) ==
    /\ ~up[n]
    /\ up' = [up EXCEPT ![n] = TRUE]
    /\ vrrp' = [vrrp EXCEPT ![n] = "BACKUP"]
    /\ age' = [age EXCEPT ![n] = 0]
    /\ holddown' = [holddown EXCEPT ![n] = 0]
    /\ forceFile' = [forceFile EXCEPT ![n] = FALSE]
    /\ ha' = [ha EXCEPT ![n] = IF @ = "stopped" THEN @ ELSE "booting"]
    /\ UNCHANGED <<leaseVars, localHold, request, clusterHold, link, tickVars, sinceRelease>>

\* Faulty: a marker counts for as long as the file is there.
MarkerNeverAges == holddown

\* What is left of each hold-down one period later.
HolddownAged == [n \in Nodes |-> IF holddown[n] > 0 THEN holddown[n] - 1 ELSE 0]

\* n has ticked in this period, and its script may go on into the next.
PeriodOver(n) ==
    /\ ~due[n] /\ pc[n] # "probe"
    /\ pc[n] = "idle" \/ elapsed[n] < NotifyTimeout

\* One period passes, once every live promoter has ticked in it and no script
\* has outlived its timeout.
Advance ==
    /\ \A n \in Nodes : PeriodOver(n)
    /\ Elapse
    /\ age' = [n \in Nodes |-> IF age[n] < ProbeCeiling THEN age[n] + 1 ELSE age[n]]
    /\ holddown' = HolddownAged
    /\ sinceRelease' =
         [n \in Nodes |-> IF sinceRelease[n] < HoldDown
                          THEN sinceRelease[n] + 1 ELSE sinceRelease[n]]
    /\ elapsed' = [n \in Nodes |-> IF up[n] THEN elapsed[n] + 1 ELSE 0]
    /\ due' = [n \in Nodes |-> up[n] /\ pc[n] = "idle"]
    /\ UNCHANGED <<vrrp, localHold, forceFile, request, clusterHold, hostVars, pc>>

------------------------------------------------------------------------------
RunTick(n) ==
    \/ TickUnreachable(n) \/ TickHeld(n) \/ TickHeartbeatLate(n) \/ TickForced(n)
    \/ TickHandover(n) \/ TickHeldDown(n) \/ TickLease(n) \/ TickReplyLost(n)
    \/ TickProbes(n) \/ TickRelease(n) \/ TickRenews(n) \/ TickCutOff(n)

RunScript(n) ==
    \/ RecordMaster(n) \/ StopFirst(n) \/ StartHA(n) \/ WaitHA(n) \/ PostStartHooks(n)
    \/ RecordBackup(n) \/ StopHA(n) \/ ScriptFails(n) \/ NotifyTimesOut(n)

HomeAssistant(n) ==
    \/ HaAnswers(n) \/ HaWedges(n) \/ HaCrashes(n) \/ HaRespawns(n)
    \/ OperatorStops(n) \/ OperatorStarts(n) \/ IntegrationResolves(n)

Operator(n) ==
    \/ SetOrClearLocalHold(n) \/ RequestHandover(n) \/ WithdrawHandover(n)
    \/ PlaceOrRemoveForce(n) \/ Adopt(n)

Environment(n) == LinkFailsOrHeals(n) \/ PowerLoss(n) \/ Boot(n)

Next ==
    \/ \E n \in Nodes : RunTick(n) \/ RunScript(n) \/ HomeAssistant(n)
                          \/ Operator(n) \/ Environment(n)
    \/ SetOrClearClusterHold
    \/ Advance

Spec == Init /\ [][Next]_vars

\* What systemd, docker and Home Assistant do eventually: the timer fires, a
\* script's next command runs (a docker command may fail, not for ever), a
\* container boots or respawns, a host comes back, and time passes.
Fairness ==
    /\ WF_vars(Advance)
    /\ \A n \in Nodes :
        /\ WF_vars(RunTick(n)) /\ WF_vars(RunScript(n))
        /\ SF_vars(StartHA(n)) /\ SF_vars(StopHA(n))
        /\ WF_vars(HaAnswers(n)) /\ WF_vars(HaRespawns(n))
        /\ WF_vars(Boot(n))

FairSpec == Spec /\ Fairness

------------------------------------------------------------------------------
(* What the election promises. *)

\* A node that calls itself leader and has a container to lead with.
LiveMaster(n) == up[n] /\ vrrp[n] = "MASTER" /\ ha[n] # "stopped"

\* n has given the lease up and is about to record it, or was kept from the lease
\* by its own script for longer than the lease lasts and has yet to look at it.
ToldOrOverrun(n) == pc[n] = "recordBackup" \/ elapsed[n] >= LeaseTTL

(* Two nodes never both lead, but for two moments.  One is between a leader's *)
(* release of the lease and its own notify_backup recording BACKUP (run():    *)
(* RELEASE first, the script second).  The other follows a script that ran    *)
(* for longer than the lease's TTL, as NOTIFY_TIMEOUT_SECONDS allows, and     *)
(* lasts until that node's first tick after it.                               *)
OneLiveMaster ==
    \A m, n \in Nodes :
        m # n /\ LiveMaster(m) /\ LiveMaster(n) => ToldOrOverrun(m) \/ ToldOrOverrun(n)

(* A leader whose Home Assistant answers and whose last tick is less than a   *)
(* TTL ago loses the lease only to its own handover, to force-master          *)
(* elsewhere, or because its Home Assistant was stopped under it: never to    *)
(* the clock, the hold or the probe.                                          *)
HealthyLeaderKeepsLease ==
    [][\A n \in Nodes :
        /\ holder = n /\ holder' # n
        /\ up[n] /\ vrrp[n] = "MASTER" /\ elapsed'[n] < LeaseTTL
        /\ ha[n] = "serving" /\ ha'[n] = "serving"
        => request[n] \/ \E m \in Nodes \ {n} : forceFile[m]]_vars

(* A node that gave the lease up does not get it back before the hold-down is *)
(* over, whatever happens in between, unless an operator adopts or forces it  *)
(* (run(): "What clears a hold-down is time, or an operator").                *)
HolddownHonoured ==
    [][\A n \in Nodes :
        holder # n /\ holder' = n /\ ~forceFile[n] => sinceRelease[n] = HoldDown]_vars

(* While a cluster-wide hold stands and nobody forces, no promotion or        *)
(* demotion begins on any node and the lease reaches no new owner (run(): the *)
(* hold branch renews and returns).  What a hold does not stop is a leader's  *)
(* tick that had read none and was at its probe when the hold was set.        *)
HoldFreezesRoles ==
    [][clusterHold /\ (\A n \in Nodes : ~forceFile[n]) =>
        /\ holder' \in {holder, NoNode} \cup {n \in Nodes : pc[n] = "probe"}
        /\ \A n \in Nodes : pc[n] = "idle" => pc'[n] = "idle"]_vars

(* A promotion begins only at the node the lease names, whatever a hold or a  *)
(* failed read did (_read_cluster_hold: "failing toward 'not held' can never  *)
(* promote anything").                                                        *)
OnlyTheHolderPromotes ==
    [][\A n \in Nodes :
        pc[n] = "idle" /\ pc'[n] = "recordMaster" /\ ~forceFile[n] => holder' = n]_vars

(* The election implements the abstract lock: leadership moves only through   *)
(* "free" or an armed override, and never to a node holding down or in a hold *)
(* its tick has read.                                                         *)
Lock == INSTANCE LeaseLock WITH
    owner <- holder,
    barred <- {n \in Nodes : (Held(n) /\ pc[n] # "probe") \/ HeldDown(n)},
    armed <- {n \in Nodes : forceFile[n]}

ElectionIsALock == Lock!Spec

------------------------------------------------------------------------------
(* What must eventually happen. *)

Undisturbed(n) == up[n] /\ link[n] /\ ~Held(n) /\ ~forceFile[n]

(* A leader whose Home Assistant is wedged gives the leadership up, however   *)
(* often the container looks as if it were coming back (_grace_extended's     *)
(* ceiling).                                                                  *)
WedgedLeaderLetsGo ==
    \A n \in Nodes :
        vrrp[n] = "MASTER" /\ ha[n] \in {"wedged", "restarting"} /\ Undisturbed(n)
            ~> vrrp[n] # "MASTER" \/ ha[n] \in {"serving", "stopped"} \/ ~Undisturbed(n)

(* A lease nobody holds is taken by any node that goes on running: no         *)
(* hold-down lasts for ever.                                                  *)
FreeLeaseIsTaken ==
    \A n \in Nodes :
        holder = NoNode /\ Undisturbed(n) ~> holder # NoNode \/ ~Undisturbed(n)

(* The node that holds the lease becomes the leader: an owner that does not   *)
(* promote would keep the cluster without a Home Assistant.                   *)
HolderPromotes ==
    \A n \in Nodes :
        holder = n /\ Undisturbed(n)
            ~> vrrp[n] = "MASTER" \/ holder # n \/ ~Undisturbed(n)

(* A cold node that reads BACKUP, with the lease elsewhere, does not go on    *)
(* serving: the demotion a reboot or a failed script skipped is run after all *)
(* (_backup_is_serving).                                                      *)
StragglerStops ==
    \A n \in Nodes :
        Cold /\ vrrp[n] = "BACKUP" /\ Running(n) /\ holder \notin {n, NoNode} /\ Undisturbed(n)
            ~> ~Running(n) \/ holder \in {n, NoNode} \/ ~Undisturbed(n)
==============================================================================
