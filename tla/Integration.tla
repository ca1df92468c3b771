----------------------------- MODULE Integration -----------------------------
(***************************************************************************)
(* One node's integration through the life of its Home Assistant: boots,   *)
(* restarts, shutdowns, crashes, reloads of its entry and its removal.     *)
(* The setup, the stop and the unload are coroutines that await between    *)
(* their steps, and they share the holds and the lease (MaintenanceHold),  *)
(* the service gate (ServiceGate) and the alerts (AlertRouter) with        *)
(* timers, persons, the promoter and the peer.                             *)
(***************************************************************************)
EXTENDS MaintenanceHold, ServiceGate, AlertRouter

CONSTANTS
    FailuresBeforeAlarm,    \* INGRESS_FAILURES_BEFORE_ALARM
    MaxLives,               \* bound: how often Home Assistant, or its entry, ends
    MaxFaults,              \* bound: how often a condition comes
    MaxActs                 \* bound: how often a person, the peer or the promoter decides

\* What the integration watches: the store ("backend"), the front door ("ingress"), the
\* radios ("radio"), and what the host left in a marker ("degraded", "devices").
Probed == {"ingress", "radio"}
Marked == {"degraded", "devices"}

ASSUME IntegrationAssumption ==
    /\ Conditions \subseteq {"backend"} \cup Probed \cup Marked
    /\ FailuresBeforeAlarm \in Nat \ {0}
    /\ MaxLives \in Nat
    /\ MaxFaults \in Nat
    /\ MaxActs \in Nat

VARIABLES
    core,       \* Home Assistant: "off", "booting", "starting" (its automations run), "running"
    entry,      \* the config entry: "removed", "found", "retrying" (no store), "loaded"
    at,         \* where the setup, stop or unload in progress is
    why,        \* what a stop or an unload is for
    failures,   \* IngressProbe.consecutive_failures
    source,     \* who wrote the snapshot in the store: "self" or "peer"
    lives,      \* how often Home Assistant, or its entry, has ended
    faults,     \* how often a condition has come
    acts        \* how often they have decided

lifeVars == <<core, entry, at, why, failures, source, lives>>
houseVars == <<holdVars, wrong, gateVars, alertVars, lifeVars, faults, acts>>

SetupSteps == {"marked", "devices", "look", "health", "unhold", "unkey", "delete"}
StopSteps == {"leading", "hold", "publish", "check", "release", "gone"}
UnloadSteps == {"restoring", "flush", "uncheck", "unrelease", "over"}

IntegrationTypeOK ==
    /\ HoldTypeOK /\ GateTypeOK /\ AlertTypeOK
    /\ wrong \subseteq Conditions
    /\ core \in {"off", "booting", "starting", "running"}
    /\ entry \in {"removed", "found", "retrying", "loaded"}
    /\ at \in {"idle"} \cup SetupSteps \cup StopSteps \cup UnloadSteps
    /\ why \in {"none", "restart", "shutdown", "reload", "remove"}
    /\ failures \in 0..FailuresBeforeAlarm
    /\ source \in {"self", "peer"}
    /\ lives \in 0..MaxLives
    /\ faults \in 0..MaxFaults
    /\ acts \in 0..MaxActs

IntegrationInit ==
    /\ HoldInit /\ GateInit /\ AlertInit
    /\ wrong = {}
    /\ core = "off" /\ entry = "found" /\ at = "idle" /\ why = "none"
    /\ failures = 0 /\ source = "peer" /\ lives = 0 /\ faults = 0 /\ acts = 0

Idle == at = "idle"
Loaded == entry = "loaded"
\* The timers of a loaded entry, which an unload and a stop take away; a setup ends
\* before the first tick of a timer it has started.
Ticking == Loaded /\ core # "off" /\ Idle

Goes(from, to) == at = from /\ at' = to

------------------------------------------------------------------------------
(* async_setup_entry. *)

\* A pass of the gate; its leadership takes a free lease.
GatePass ==
    /\ Applies(Leads)
    /\ Resolves
    /\ UNCHANGED <<file, key>>

\* The connection comes first; without it Home Assistant tries again, in a start not
\* before it has started.
Attempted == core # "off" /\ Idle /\ (entry = "found" \/ (entry = "retrying" /\ core = "running"))

SetupFails ==
    /\ Attempted /\ ~Reachable
    /\ entry' = "retrying"
    /\ UNCHANGED <<holdVars, wrong, gateVars, alertVars>>
    /\ UNCHANGED <<core, at, why, failures, source, lives, faults, acts>>

\* The gate does not wait for the start of a Home Assistant that is running.
SetUp ==
    /\ Attempted /\ Reachable
    /\ entry' = "loaded" /\ at' = "marked"
    /\ failures' = 0
    /\ Rebuilt(core = "running")
    /\ IF core = "running" THEN GatePass ELSE UNCHANGED <<holdVars, gateVars>>
    /\ UNCHANGED <<wrong, core, why, source, lives, faults, acts>>

\* A pass over a condition announces what it finds.
Announces(c) == IF c \in wrong THEN Raises(c) ELSE Clears(c)
Watches(c) == IF c \in Conditions THEN Announces(c) ELSE UNCHANGED alertVars

\* _setup_degraded_alarm.
DegradedRead ==
    /\ Goes("marked", "devices")
    /\ Watches("degraded")
    /\ UNCHANGED <<holdVars, wrong, gateVars, core, entry, why, failures, source, lives, faults, acts>>

\* _surface_preflight_disables.
DevicesRead ==
    /\ Goes("devices", "look")
    /\ Watches("devices")
    /\ UNCHANGED <<holdVars, wrong, gateVars, core, entry, why, failures, source, lives, faults, acts>>

\* What the view of the cluster says; a store that does not answer names no leader.
Looks == ChecksPromotion(Reachable /\ lease = "self", source = "peer")

FirstLook ==
    /\ Goes("look", "health")
    /\ Looks
    /\ UNCHANGED <<holdVars, wrong, gateVars, core, entry, why, failures, source, lives, faults, acts>>

FirstHealth ==
    /\ Goes("health", "unhold")
    /\ Watches("backend")
    /\ UNCHANGED <<holdVars, wrong, gateVars, core, entry, why, failures, source, lives, faults, acts>>

LocalHoldCleared ==
    /\ Goes("unhold", "unkey")
    /\ ClearsAutoHold
    /\ UNCHANGED <<key, lease, wrong, gateVars, alertVars>>
    /\ UNCHANGED <<core, entry, why, failures, source, lives, faults, acts>>

\* The key is read, and deleted in another round trip.
KeyRead ==
    /\ at = "unkey"
    /\ at' = IF IsAutoKey THEN "delete" ELSE "idle"
    /\ UNCHANGED <<holdVars, wrong, gateVars, alertVars>>
    /\ UNCHANGED <<core, entry, why, failures, source, lives, faults, acts>>

KeyDeleted ==
    /\ Goes("delete", "idle")
    /\ DropsKey
    /\ UNCHANGED <<file, lease, wrong, gateVars, alertVars>>
    /\ UNCHANGED <<core, entry, why, failures, source, lives, faults, acts>>

------------------------------------------------------------------------------
(* Home Assistant's start, and the timers. *)

Boots ==
    /\ core = "off"
    /\ core' = "booting"
    /\ UNCHANGED <<holdVars, wrong, gateVars, alertVars>>
    /\ UNCHANGED <<entry, at, why, failures, source, lives, faults, acts>>

\* EVENT_HOMEASSISTANT_START, before the automations attach their triggers.
Starts ==
    /\ core = "booting" /\ Idle /\ entry # "found"
    /\ core' = "starting"
    /\ IF Loaded THEN GatePass ELSE UNCHANGED <<holdVars, gateVars>>
    /\ UNCHANGED <<wrong, alertVars, entry, at, why, failures, source, lives, faults, acts>>

\* EVENT_HOMEASSISTANT_STARTED.
Started ==
    /\ core = "starting"
    /\ core' = "running"
    /\ IF Loaded THEN Flushes ELSE UNCHANGED alertVars
    /\ UNCHANGED <<holdVars, wrong, gateVars, entry, at, why, failures, source, lives, faults, acts>>

\* _scheduled_flush: the gate, and, leading and restored, the snapshot.
FlushTick ==
    /\ Ticking
    /\ GatePass
    /\ source' = IF Leads /\ core # "booting" THEN "self" ELSE source
    /\ UNCHANGED <<wrong, alertVars, core, entry, at, why, failures, lives, faults, acts>>

ServiceReturns ==
    /\ core # "off"
    /\ \E l \in Layers : CallReturns(l)
    /\ UNCHANGED <<holdVars, wrong, alertVars, lifeVars, faults, acts>>

ServiceFails ==
    /\ core # "off"
    /\ \E l \in Layers : CallFails(l)
    /\ UNCHANGED <<holdVars, wrong, alertVars, lifeVars, faults, acts>>

\* The view of the cluster, polled.
ViewPolled ==
    /\ Ticking
    /\ Looks
    /\ UNCHANGED <<holdVars, wrong, gateVars, lifeVars, faults, acts>>

\* _watch_backend_health.
HealthPolled ==
    /\ Ticking /\ "backend" \in Conditions
    /\ Announces("backend")
    /\ UNCHANGED <<holdVars, wrong, gateVars, lifeVars, faults, acts>>

\* _scheduled_ingress_probe: the leader's alone, and the alarm waits for a pattern.
IngressProbed ==
    /\ Ticking /\ "ingress" \in Conditions
    /\ Resolves
    /\ failures' = IF Leads /\ "ingress" \in wrong
                   THEN IF failures < FailuresBeforeAlarm THEN failures + 1 ELSE failures
                   ELSE 0
    /\ CASE Leads /\ "ingress" \notin wrong -> Clears("ingress")
         [] Leads /\ failures' = FailuresBeforeAlarm -> Raises("ingress")
         [] OTHER -> UNCHANGED alertVars
    /\ UNCHANGED <<file, key, wrong, gateVars, core, entry, at, why, source, lives, faults, acts>>

\* _scheduled_radio_check.
RadioChecked ==
    /\ Ticking /\ "radio" \in Conditions
    /\ Resolves
    /\ IF Leads THEN Announces("radio") ELSE UNCHANGED alertVars
    /\ UNCHANGED <<file, key, wrong, gateVars, lifeVars, faults, acts>>

\* The service clear_degraded: the marker goes, and nobody is told it was repaired.
Acknowledged ==
    /\ Ticking /\ "degraded" \in wrong
    /\ core = "running" \/ "early" \in Disturbances
    /\ wrong' = wrong \ {"degraded"}
    /\ Forgets("degraded")
    /\ UNCHANGED <<holdVars, gateVars, lifeVars, faults, acts>>

\* ALERT_MIN_INTERVAL has passed.
WindowPasses ==
    /\ \E c \in Conditions, w \in Words : WindowEnds(c, w)
    /\ UNCHANGED <<holdVars, wrong, gateVars, lifeVars, faults, acts>>

------------------------------------------------------------------------------
(* _on_stop. *)

\* The restart from the user interface sets RESTART_EXIT_CODE; docker's SIGTERM is a
\* shutdown.  An entry that is not loaded has no listener.
StopBegins ==
    /\ core \in {"starting", "running"} /\ Idle
    /\ lives < MaxLives
    /\ lives' = lives + 1
    /\ why' \in {"restart", "shutdown"}
    /\ at' = IF Loaded THEN "leading" ELSE "gone"
    /\ UNCHANGED <<holdVars, wrong, gateVars, alertVars, core, entry, failures, source, faults, acts>>

\* The leader's final flush, and, for a restart, the hold.
StopResolves ==
    /\ at = "leading"
    /\ Resolves
    /\ at' = IF Leads /\ why = "restart" THEN "hold" ELSE "check"
    /\ source' = IF Leads THEN "self" ELSE source
    /\ UNCHANGED <<file, key, wrong, gateVars, alertVars, core, entry, why, failures>>
    /\ UNCHANGED <<lives, faults, acts>>

StopHolds ==
    /\ at = "hold"
    /\ SetsAutoHold
    /\ at' = IF file' # file THEN "publish" ELSE "check"
    /\ UNCHANGED <<key, lease, wrong, gateVars, alertVars>>
    /\ UNCHANGED <<core, entry, why, failures, source, lives, faults, acts>>

StopPublishes ==
    /\ Goes("publish", "check")
    /\ Publishes
    /\ UNCHANGED <<file, lease, wrong, gateVars, alertVars>>
    /\ UNCHANGED <<core, entry, why, failures, source, lives, faults, acts>>

StopChecks ==
    /\ at = "check"
    /\ at' = IF BlocksRelease THEN "gone" ELSE "release"
    /\ UNCHANGED <<holdVars, wrong, gateVars, alertVars>>
    /\ UNCHANGED <<core, entry, why, failures, source, lives, faults, acts>>

StopReleases ==
    /\ Goes("release", "gone")
    /\ Releases
    /\ UNCHANGED <<file, key, wrong, gateVars, alertVars>>
    /\ UNCHANGED <<core, entry, why, failures, source, lives, faults, acts>>

\* The process is gone, and its memory with it.
Ends ==
    /\ core' = "off" /\ at' = "idle" /\ why' = "none"
    /\ failures' = 0
    /\ entry' = IF entry = "removed" THEN "removed" ELSE "found"
    /\ GateForgets
    /\ StartsAfresh

StopEnds ==
    /\ at = "gone"
    /\ Ends
    /\ UNCHANGED <<holdVars, wrong, source, lives, faults, acts>>

Crashes ==
    /\ core # "off"
    /\ lives < MaxLives
    /\ lives' = lives + 1
    /\ Ends
    /\ UNCHANGED <<holdVars, wrong, source, faults, acts>>

------------------------------------------------------------------------------
(* async_unload_entry. *)

\* The listeners go; a removal forgets what was raised, a reload does not.
UnloadBegins ==
    /\ core = "running" \/ (core # "off" /\ "early" \in Disturbances)
    /\ Loaded /\ Idle
    /\ calling = NoCalls \/ "race" \in Disturbances
    /\ lives < MaxLives
    /\ lives' = lives + 1
    /\ why' \in {"reload", "remove"}
    /\ at' = "restoring"
    /\ Restores
    /\ IF why' = "remove" THEN StartsAfresh ELSE UNCHANGED alertVars
    /\ UNCHANGED <<holdVars, wrong, core, entry, failures, source, faults, acts>>

\* The gate's last calls have been answered, and its object goes.
UnloadRestored ==
    /\ Goes("restoring", "flush")
    /\ calling = NoCalls
    /\ GateForgets
    /\ UNCHANGED <<holdVars, wrong, alertVars, core, entry, why, failures, source>>
    /\ UNCHANGED <<lives, faults, acts>>

\* Faulty: the unload of before _RELOADING.
KeepsNothing == FALSE

\* _RELOADING keeps the lease through a reload, a hold through a removal.
KeepsLease == why = "reload"

\* The final flush asks nobody who leads.
UnloadFlushes ==
    /\ at = "flush"
    /\ at' = IF KeepsLease THEN "over" ELSE "uncheck"
    /\ source' \in IF Reachable THEN {source, "self"} ELSE {source}
    /\ UNCHANGED <<holdVars, wrong, gateVars, alertVars, core, entry, why, failures>>
    /\ UNCHANGED <<lives, faults, acts>>

UnloadChecks ==
    /\ at = "uncheck"
    /\ at' = IF BlocksRelease THEN "over" ELSE "unrelease"
    /\ UNCHANGED <<holdVars, wrong, gateVars, alertVars>>
    /\ UNCHANGED <<core, entry, why, failures, source, lives, faults, acts>>

UnloadReleases ==
    /\ Goes("unrelease", "over")
    /\ Releases
    /\ UNCHANGED <<file, key, wrong, gateVars, alertVars>>
    /\ UNCHANGED <<core, entry, why, failures, source, lives, faults, acts>>

UnloadEnds ==
    /\ Goes("over", "idle")
    /\ entry' = IF why = "reload" THEN "found" ELSE "removed"
    /\ why' = "none"
    /\ UNCHANGED <<holdVars, wrong, gateVars, alertVars, core, failures, source, lives, faults, acts>>

\* An operator configures the integration again.
AddedAgain ==
    /\ entry = "removed" /\ core = "running"
    /\ entry' = "found"
    /\ UNCHANGED <<holdVars, wrong, gateVars, alertVars>>
    /\ UNCHANGED <<core, at, why, failures, source, lives, faults, acts>>

------------------------------------------------------------------------------
(* The world around the node. *)

\* The host writes a marker before it starts Home Assistant.
Changeable(c) == c \in Marked => core = "off"

\* Faults come and go more slowly than ALERT_MIN_INTERVAL, edge by edge.
Settled(c, w) == <<c, w>> \notin recent \/ "flap" \in Disturbances

ConditionComes(c) ==
    /\ c \notin wrong /\ Changeable(c) /\ Settled(c, "raised")
    /\ faults < MaxFaults
    /\ faults' = faults + 1
    /\ wrong' = wrong \cup {c}
    /\ UNCHANGED <<holdVars, gateVars, alertVars, lifeVars, acts>>

ConditionGoes(c) ==
    /\ c \in wrong /\ Changeable(c) /\ Settled(c, "clear")
    /\ wrong' = wrong \ {c}
    /\ UNCHANGED <<holdVars, gateVars, alertVars, lifeVars, faults, acts>>

\* Persons do not act between two steps of a stop, a boot or an unload.
Apart == Idle \/ "race" \in Disturbances

Acts == acts < MaxActs /\ acts' = acts + 1

\* What persons, the peer and the promoter, giving up on a Home Assistant that does not
\* answer, decide; and what follows from it.
Deed ==
    /\ Acts
    /\ \/ Apart /\ (PersonRaises \/ PersonClears \/ PeerRaises \/ PeerClears)
       \/ PeerRestarts \/ PeerLetsGo
       \/ core \in {"off", "booting"} /\ PromoterGivesUp

Consequence ==
    /\ PeerIsBack \/ AutoHoldLapses \/ PeerTakes \/ PromoterTakes \/ LeaseLapses
    /\ UNCHANGED acts

World ==
    /\ Deed \/ Consequence
    /\ UNCHANGED <<gateVars, alertVars, lifeVars, faults>>

------------------------------------------------------------------------------
SetupStep ==
    \/ SetUp \/ SetupFails \/ DegradedRead \/ DevicesRead \/ FirstLook \/ FirstHealth
    \/ LocalHoldCleared \/ KeyRead \/ KeyDeleted

StopStep ==
    \/ StopResolves \/ StopHolds \/ StopPublishes \/ StopChecks \/ StopReleases
    \/ StopEnds

UnloadStep ==
    \/ UnloadRestored \/ UnloadFlushes \/ UnloadChecks \/ UnloadReleases
    \/ UnloadEnds

Watch == ViewPolled \/ HealthPolled \/ IngressProbed \/ RadioChecked

HouseNext ==
    \/ SetupStep \/ StopStep \/ UnloadStep \/ Watch \/ World
    \/ Boots \/ Starts \/ Started \/ FlushTick \/ ServiceReturns \/ ServiceFails
    \/ Acknowledged \/ WindowPasses
    \/ StopBegins \/ Crashes \/ UnloadBegins \/ AddedAgain
    \/ \E c \in Conditions : ConditionComes(c) \/ ConditionGoes(c)

HouseSpec == IntegrationInit /\ [][HouseNext]_houseVars

------------------------------------------------------------------------------
(* What must hold. *)

\* A hold that a person raised is lifted by a person: no restart, boot, reload, lapse
\* or restart of the peer takes it away or puts a deadline on it.
OperatorHoldStands ==
    [][/\ file = "person" /\ file' # "person" => PersonClears
       /\ key = "person" /\ key' # "person" => PersonClears \/ PeerClears]_houseVars

\* A restart that its leader has begun to hold, a reload of the entry, and any work
\* under a hold on this node keep the house where it is as long as the store answers.
PlannedWork ==
    \/ why = "reload"
    \/ why = "restart" /\ at \in {"hold", "publish", "check", "release", "gone"} /\ file # "none"
    \/ file \in {"person", "auto"}

HouseStaysPut ==
    [][PlannedWork /\ Reachable /\ lease = "self" => lease' = "self"]_houseVars

\* What the gate remembers it has switched off is off; and nothing but the end of the
\* process or a call that failed leaves a layer off that no gate remembers: uninstalling
\* or reloading the integration is not how a house loses its automations.
Forgotten == off \ gatedOff

GateUndoesItsWork ==
    [][/\ gatedOff' \subseteq off'
       /\ Forgotten' \subseteq Forgotten \/ core' = "off" \/ callErrors > 0]_houseVars

\* What is active is what the phone last heard was wrong, or is about to hear once Home
\* Assistant has started: through boots and reloads no alarm is repeated, lost, or left
\* without its all-clear.  A takeover that counts as announced has been.
PhoneAgrees ==
    Loaded =>
        /\ \A c \in Conditions \cap Chosen : c \in active <=> LastWord(c) = "raised"
        /\ tookOver /\ "promoted" \in Chosen => LastWord("promoted") = "raised"
==============================================================================
