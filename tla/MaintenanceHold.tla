--------------------------- MODULE MaintenanceHold ---------------------------
(***************************************************************************)
(* The maintenance hold as one node's integration keeps it: a flag file in *)
(* the configuration directory, which its promoter reads too, and a key in *)
(* the store, which also binds the peer.  A person raises and clears both; *)
(* a Home Assistant that restarts as leader raises an automatic hold that  *)
(* lapses by itself and that the next boot clears.  The lease is what the  *)
(* hold is for; the promoters and the peer appear by what they do to it.   *)
(***************************************************************************)
EXTENDS Integers, Sequences

CONSTANT Disturbances       \* what may go wrong beyond outages and crashes

\* remote: a person's hold that a leading node has in the store alone; apart: the same
\* of a leading peer; race: a person acts between two steps of a stop, of a boot or of
\* an unload; early: the entry reloaded or removed while Home Assistant starts; flap: a
\* condition that comes or goes twice within ALERT_MIN_INTERVAL.
HouseKinds == {"remote", "apart", "race", "early", "flap"}

ASSUME HoldAssumption == Disturbances \subseteq HouseKinds

VARIABLES
    file,       \* .cluster_sync_hold here: its text, "stale" once past its deadline
    key,        \* the store's hold: a person's, this node's automatic one, the peer's
    lease,      \* who leads: "self", "peer" or "none"
    wrong       \* the conditions that hold in the world, "backend" if there is no store

holdVars == <<file, key, lease>>

HoldTypeOK ==
    /\ file \in {"none", "person", "auto", "stale"}
    /\ key \in {"none", "person", "auto", "peer"}
    /\ lease \in {"self", "peer", "none"}

HoldInit == file = "none" /\ key = "none" /\ lease \in {"self", "peer"}

Reachable == "backend" \notin wrong

\* is_held looks at the file alone, not at its deadline; a store that does not answer
\* holds nothing.
Held == file # "none" \/ (Reachable /\ key # "none")

\* The promoter honours the deadline.
PromoterHeld == file \in {"person", "auto"} \/ (Reachable /\ key # "none")

\* LeadershipMonitor with the source "lease": renew, and take a free one unless held.
Leads == Reachable /\ (lease = "self" \/ (lease = "none" /\ ~Held))
Resolves == lease' = IF Leads THEN "self" ELSE lease

------------------------------------------------------------------------------
(* What the integration does with the hold, a step at a time. *)

\* set_auto_hold writes nothing over a hold that is there.
SetsAutoHold == file' = IF file = "none" THEN "auto" ELSE file

\* publish_cluster_hold is a plain SET.
Publishes == key' = IF Reachable THEN "auto" ELSE key

\* Faulty: a boot clears whatever hold it finds.
ClearsAnyHold == file' = "none"

\* clear_auto_hold and _clear_auto_hold_cluster_wide look for the marker, and not for
\* whose it is.
ClearsAutoHold == file' = IF file \in {"auto", "stale"} THEN "none" ELSE file
IsAutoKey == Reachable /\ key \in {"auto", "peer"}

DropsKey == key' = IF Reachable THEN "none" ELSE key

\* _release_leadership: the script compares the holder.
Releases == lease' = IF Reachable /\ lease = "self" THEN "none" ELSE lease

\* _hold_blocks_release, of both halves.
BlocksRelease == Held

------------------------------------------------------------------------------
(* Persons, promoters, the peer and the clock. *)

\* The dashboard's switch and cluster-hold.sh on: the file, then the key.
PersonRaises ==
    /\ lease # "peer" \/ "apart" \in Disturbances
    /\ file' = "person"
    /\ key' = IF Reachable THEN "person" ELSE key
    /\ UNCHANGED <<lease, wrong>>

\* off: the file, then the key, whoever raised it.
PersonClears ==
    /\ Held
    /\ Reachable \/ key # "person" \/ "remote" \in Disturbances
    /\ file' = "none"
    /\ DropsKey
    /\ UNCHANGED <<lease, wrong>>

PeerRaises ==
    /\ lease = "peer" \/ "remote" \in Disturbances
    /\ key' = "person"
    /\ UNCHANGED <<file, lease, wrong>>

PeerClears ==
    /\ key # "none"
    /\ key' = "none"
    /\ UNCHANGED <<file, lease, wrong>>

\* The peer restarts as leader; where a person's hold is its own, its file says so.
PeerRestarts ==
    /\ lease = "peer"
    /\ key \notin {"person", "peer"} \/ "apart" \in Disturbances
    /\ key' = "peer"
    /\ UNCHANGED <<file, lease, wrong>>

\* The peer boots, or its hold's TTL runs out.
PeerIsBack ==
    /\ key \in {"auto", "peer"}
    /\ key' = "none"
    /\ UNCHANGED <<file, lease, wrong>>

\* AUTO_HOLD_SECONDS after a restart began: the key's TTL and the file's deadline.
AutoHoldLapses ==
    /\ file = "auto" \/ key = "auto"
    /\ file' = IF file = "auto" THEN "stale" ELSE file
    /\ key' = IF key = "auto" THEN "none" ELSE key
    /\ UNCHANGED <<lease, wrong>>

PeerTakes ==
    /\ lease = "none" /\ key = "none"
    /\ lease' = "peer"
    /\ UNCHANGED <<file, key, wrong>>

\* The peer stops, or stays away for the lease's TTL.
PeerLetsGo ==
    /\ lease = "peer"
    /\ lease' = "none"
    /\ UNCHANGED <<file, key, wrong>>

\* This node's promoter: a free lease is taken, a silent Home Assistant's given up.
PromoterTakes ==
    /\ lease = "none" /\ Reachable /\ ~PromoterHeld
    /\ lease' = "self"
    /\ UNCHANGED <<file, key, wrong>>

PromoterGivesUp ==
    /\ lease = "self" /\ Reachable /\ ~PromoterHeld
    /\ lease' = "none"
    /\ UNCHANGED <<file, key, wrong>>

\* No store, no renewal.
LeaseLapses ==
    /\ lease = "self" /\ ~Reachable
    /\ lease' = "none"
    /\ UNCHANGED <<file, key, wrong>>
==============================================================================
