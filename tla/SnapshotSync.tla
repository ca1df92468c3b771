---------------------------- MODULE SnapshotSync ----------------------------
(***************************************************************************)
(* The shared snapshot.  The integration on each node mirrors its tracked  *)
(* entities, writes the whole mirror to Valkey when this node leads and    *)
(* something changed, and at the next start of Home Assistant takes over   *)
(* what the peer wrote.  A gate keeps a starting node from publishing its  *)
(* own old state over the snapshot it is about to read.                    *)
(*                                                                         *)
(* In the cold topology the promoter starts Home Assistant on the node it  *)
(* makes leader; in the warm one it runs on both.  An entity's value is    *)
(* the number of the change that made it, so newer is greater.             *)
(***************************************************************************)
EXTENDS Integers

CONSTANTS
    Nodes,          \* the node ids
    NoNode,         \* nobody leads, or nobody wrote
    Entities,       \* the tracked entities
    MaxChanges,     \* bound: changes of state in a behaviour
    Slots,          \* bound: flushes that may be in flight at one node
    Cold,           \* Home Assistant starts on the leader only
    Disturbances    \* what may go wrong beyond outages and crashes

\* early: a stop, or a call of the flush service, before Home Assistant has started;
\* quick: a boot that reaches its restore while the old leader is still stopping;
\* unread: the restore's read fails; idle: a snapshot older than restore_max_age;
\* respawn: Docker starts a cold node's container again though the node does not lead.
SnapshotKinds == {"early", "quick", "unread", "idle", "respawn"}

ASSUME SnapshotAssumption ==
    /\ NoNode \notin Nodes
    /\ MaxChanges \in Nat
    /\ Cold \in BOOLEAN
    /\ Disturbances \subseteq SnapshotKinds

VARIABLES
    leader,     \* the node the lease names
    changes,    \* how many changes there have been
    state,      \* Home Assistant's states, which the mirror follows
    disk,       \* the states RestoreEntity will replay at the next boot
    phase,      \* where Home Assistant is
    gate,       \* DATA_RESTORE_DONE: "shut", "open", or "forced" open before the restore
    rev,        \* StateMirror._revision
    flushed,    \* StateMirror._flushed_revision
    flight,     \* the flushes on their way
    store,      \* the snapshot in Valkey
    reading,    \* what the restore has read and not yet applied
    owed        \* history: what the last flush acknowledged to a restored node published

nodeVars == <<state, disk, phase, gate, reading>>
mirrorVars == <<rev, flushed, flight>>
snapshotVars == <<leader, changes, nodeVars, mirrorVars, store, owed>>

Versions == 0..MaxChanges
Maps == [Entities -> Versions]
Entries == [Entities -> [by : Nodes \cup {NoNode}, v : Versions]]
NoEntries == [e \in Entities |-> [by |-> NoNode, v |-> 0]]

\* unloading: the integration's entry, in a Home Assistant that stays up.
Phases == {"down", "starting", "restoring", "running", "unloading", "stopping"}

\* A flush captured the map under a revision; the server may have executed it.
Flushes == [rev : Nat, map : Maps, written : BOOLEAN]
NoFlush == [rev |-> 0, map |-> [e \in Entities |-> 0], written |-> FALSE]

SnapshotTypeOK ==
    /\ leader \in Nodes \cup {NoNode}
    /\ changes \in Versions
    /\ state \in [Nodes -> Maps]
    /\ disk \in [Nodes -> Maps]
    /\ phase \in [Nodes -> Phases]
    /\ gate \in [Nodes -> {"shut", "open", "forced"}]
    /\ rev \in [Nodes -> Nat]
    /\ flushed \in [Nodes -> Nat]
    /\ \A n \in Nodes : flushed[n] <= rev[n]
    /\ flight \in [Nodes -> [Slots -> Flushes]]
    /\ store \in Entries
    /\ reading \in [Nodes -> Entries]
    /\ owed \in Maps

SnapshotInit ==
    /\ leader = NoNode
    /\ changes = 0
    /\ state = [n \in Nodes |-> [e \in Entities |-> 0]]
    /\ disk = state
    /\ phase = [n \in Nodes |-> "down"]
    /\ gate = [n \in Nodes |-> "shut"]
    /\ rev = [n \in Nodes |-> 0]
    /\ flushed = [n \in Nodes |-> 0]
    /\ flight = [n \in Nodes |-> [s \in Slots |-> NoFlush]]
    /\ store = NoEntries
    /\ reading = [n \in Nodes |-> NoEntries]
    /\ owed = [e \in Entities |-> 0]

Up(n) == phase[n] # "down"
Dirty(n) == rev[n] # flushed[n]
Free(n, s) == flight[n][s] = NoFlush
Quiet(n) == \A s \in Slots : Free(n, s)

------------------------------------------------------------------------------
(* The flush. *)

\* Leadership as the integration resolves it, with the source "lease": asking for a
\* free one takes it.
Leads(n) == leader \in {n, NoNode} /\ leader' = n

\* async_flush captures the mirror and its revision, and awaits the write.
Captures(n, s) ==
    /\ Dirty(n) /\ Free(n, s)
    /\ flight' = [flight EXCEPT ![n][s] =
                    [rev |-> rev[n], map |-> state[n], written |-> FALSE]]
    /\ UNCHANGED <<rev, flushed>>

\* _scheduled_flush: only when leading, and only after the restore.
ScheduledFlush(n, s) ==
    /\ Up(n) /\ phase[n] \notin {"unloading", "stopping"}
    /\ gate[n] # "shut"
    /\ Leads(n)
    /\ Captures(n, s)
    /\ UNCHANGED <<changes, nodeVars, store, owed>>

Callable == {"running"} \cup IF "early" \in Disturbances THEN {"starting"} ELSE {}

\* The flush_snapshot service: leader-gated, but not behind the restore.
ServiceFlush(n, s) ==
    /\ phase[n] \in Callable
    /\ Leads(n)
    /\ Captures(n, s)
    /\ UNCHANGED <<changes, nodeVars, store, owed>>

\* write_snapshot reaches the server: every field and the meta in one MULTI.
SnapshotWritten(n, s) ==
    /\ ~Free(n, s) /\ ~flight[n][s].written
    /\ store' = [e \in Entities |-> [by |-> n, v |-> flight[n][s].map[e]]]
    /\ flight' = [flight EXCEPT ![n][s].written = TRUE]
    /\ UNCHANGED <<leader, changes, nodeVars, rev, flushed, owed>>

\* Faulty: whatever was recorded meanwhile counts as written.
FlushMarksAll(n, s) ==
    /\ flight[n][s].written
    /\ flushed' = [flushed EXCEPT ![n] = rev[n]]
    /\ owed' = IF gate[n] = "open" THEN flight[n][s].map ELSE owed
    /\ flight' = [flight EXCEPT ![n][s] = NoFlush]
    /\ UNCHANGED <<leader, changes, nodeVars, rev, store>>

\* The write succeeded: only the revision that was captured is clean.
FlushReturns(n, s) ==
    /\ flight[n][s].written
    /\ flushed' = [flushed EXCEPT ![n] = flight[n][s].rev]
    /\ owed' = IF gate[n] = "open" THEN flight[n][s].map ELSE owed
    /\ flight' = [flight EXCEPT ![n][s] = NoFlush]
    /\ UNCHANGED <<leader, changes, nodeVars, rev, store>>

\* Faulty: AR-0011, a failed write is forgotten.
FlushForgets(n, s) ==
    /\ ~Free(n, s)
    /\ flushed' = [flushed EXCEPT ![n] = flight[n][s].rev]
    /\ flight' = [flight EXCEPT ![n][s] = NoFlush]
    /\ UNCHANGED <<leader, changes, nodeVars, rev, store, owed>>

\* The backend was away, or its answer was: the revision stays dirty.
FlushFails(n, s) ==
    /\ ~Free(n, s)
    /\ flight' = [flight EXCEPT ![n][s] = NoFlush]
    /\ UNCHANGED <<leader, changes, nodeVars, rev, flushed, store, owed>>

------------------------------------------------------------------------------
(* Home Assistant's life on a node. *)

\* An entity changes, and record() folds it into the mirror in the same callback
\* (a mirror that is being unloaded no longer listens, and its revisions are not read).
StateChanges(n, e) ==
    /\ Up(n) /\ changes < MaxChanges
    /\ changes' = changes + 1
    /\ state' = [state EXCEPT ![n][e] = changes + 1]
    /\ rev' = [rev EXCEPT ![n] = @ + 1]
    /\ UNCHANGED <<leader, disk, phase, gate, reading, flushed, flight, store, owed>>

\* RestoreEntity's periodic dump.
StatesDumped(n) ==
    /\ Up(n) /\ disk[n] # state[n]
    /\ disk' = [disk EXCEPT ![n] = state[n]]
    /\ UNCHANGED <<leader, changes, state, phase, gate, reading, mirrorVars, store, owed>>

\* A node boots, in the cold topology a promoted one: its entities have replayed its own
\* disk (see Ends), the mirror is seeded with them, and the gate is shut.  What it published
\* itself is not owed any more: the restore skips a node's own entries, whatever its disk has.
Starts(n) ==
    /\ ~Up(n) /\ (Cold /\ "respawn" \notin Disturbances => leader = n)
    /\ phase' = [phase EXCEPT ![n] = "starting"]
    /\ rev' = [rev EXCEPT ![n] = 1]
    /\ owed' = [e \in Entities |-> IF store[e].by = n THEN 0 ELSE owed[e]]
    /\ UNCHANGED <<leader, changes, state, disk, gate, reading, flushed, flight, store>>

\* In the cold topology a promoted node's boot outlasts the stop of the old leader's Home
\* Assistant.
BootIsLast(n) ==
    Cold /\ Disturbances \cap {"quick", "respawn"} = {} => \A m \in Nodes \ {n} : ~Up(m)

\* What read_snapshot answers: both keys in one script, or nothing at all.
Readings == {store} \cup IF Disturbances \cap {"unread", "idle"} = {} THEN {} ELSE {NoEntries}

\* EVENT_HOMEASSISTANT_START.
RestoreReads(n) ==
    /\ phase[n] = "starting" /\ BootIsLast(n)
    /\ \E answer \in Readings : reading' = [reading EXCEPT ![n] = answer]
    /\ phase' = [phase EXCEPT ![n] = "restoring"]
    /\ UNCHANGED <<leader, changes, state, disk, gate, mirrorVars, store, owed>>

\* Faulty: AR-0040, the local value wins when it looks newer, as it always does.
RestoreKeepsLocal(n) ==
    /\ phase[n] = "restoring"
    /\ phase' = [phase EXCEPT ![n] = "running"]
    /\ gate' = [gate EXCEPT ![n] = IF @ = "shut" THEN "open" ELSE @]
    /\ UNCHANGED <<leader, changes, state, disk, reading, mirrorVars, store, owed>>

\* The peer's entries are set, this node's own are skipped; then the gate opens,
\* whatever came of it.
RestoreApplies(n) ==
    /\ phase[n] = "restoring"
    /\ LET theirs == {e \in Entities : reading[n][e].by \notin {n, NoNode}}
           restored == [e \in Entities |-> IF e \in theirs THEN reading[n][e].v ELSE state[n][e]]
       IN  /\ state' = [state EXCEPT ![n] = restored]
           /\ rev' = [rev EXCEPT ![n] = IF restored = state[n] THEN @ ELSE @ + 1]
    /\ reading' = [reading EXCEPT ![n] = NoEntries]
    /\ phase' = [phase EXCEPT ![n] = "running"]
    /\ gate' = [gate EXCEPT ![n] = IF @ = "shut" THEN "open" ELSE @]
    /\ UNCHANGED <<leader, changes, disk, flushed, flight, store, owed>>

\* _open_gate_anyway: a start this slow knowingly gives the snapshot up.
GateOpensAnyway(n) ==
    /\ phase[n] \in {"starting", "restoring"} /\ gate[n] = "shut"
    /\ BootIsLast(n)
    /\ gate' = [gate EXCEPT ![n] = "forced"]
    /\ owed' = [e \in Entities |-> 0]
    /\ UNCHANGED <<leader, changes, state, disk, phase, reading, mirrorVars, store>>

\* The lease is handed back unless a hold, or a reload of our own making, keeps it.
HandsBack(n) == leader' \in {leader} \cup IF leader = n THEN {NoNode} ELSE {}

\* async_unload_entry: a last flush, whoever leads.
Unloads(n) ==
    /\ phase[n] = "running"
    /\ phase' = [phase EXCEPT ![n] = "unloading"]
    /\ \/ \E s \in Slots : Captures(n, s)
       \/ ~Dirty(n) /\ UNCHANGED mirrorVars
    /\ UNCHANGED <<leader, changes, state, disk, gate, reading, store, owed>>

\* The entry comes back into a running Home Assistant: a new mirror, no restore and
\* no gate to hold.
Reloaded(n) ==
    /\ phase[n] = "unloading" /\ Quiet(n)
    /\ HandsBack(n)
    /\ phase' = [phase EXCEPT ![n] = "running"]
    /\ rev' = [rev EXCEPT ![n] = 1]
    /\ flushed' = [flushed EXCEPT ![n] = 0]
    /\ UNCHANGED <<changes, state, disk, gate, reading, flight, store, owed>>

Stoppable == {"running"} \cup IF "early" \in Disturbances THEN {"starting"} ELSE {}

\* _on_stop: a leader's last flush, without a look at the gate.
StopBegins(n) ==
    /\ phase[n] \in Stoppable
    /\ phase' = [phase EXCEPT ![n] = "stopping"]
    /\ \/ Leads(n) /\ \E s \in Slots : Captures(n, s)
       \/ Leads(n) /\ ~Dirty(n) /\ UNCHANGED mirrorVars
       \/ leader \notin {n, NoNode} /\ UNCHANGED <<leader, mirrorVars>>
    /\ UNCHANGED <<changes, state, disk, gate, reading, store, owed>>

\* Faulty: the flushed revision outlives the process whose revisions it counts.
FlushedOutlives(n, left) ==
    /\ phase' = [phase EXCEPT ![n] = "down"]
    /\ disk' = [disk EXCEPT ![n] = left]
    /\ state' = [state EXCEPT ![n] = left]
    /\ gate' = [gate EXCEPT ![n] = "shut"]
    /\ reading' = [reading EXCEPT ![n] = NoEntries]
    /\ rev' = [rev EXCEPT ![n] = 0]
    /\ flight' = [flight EXCEPT ![n] = [s \in Slots |-> NoFlush]]
    /\ UNCHANGED <<changes, flushed, store, owed>>

\* The process is gone, with the mirror, the gate and any flush in it; what is left
\* is what the next boot will replay.
Ends(n, left) ==
    /\ phase' = [phase EXCEPT ![n] = "down"]
    /\ disk' = [disk EXCEPT ![n] = left]
    /\ state' = [state EXCEPT ![n] = left]
    /\ gate' = [gate EXCEPT ![n] = "shut"]
    /\ reading' = [reading EXCEPT ![n] = NoEntries]
    /\ rev' = [rev EXCEPT ![n] = 0]
    /\ flushed' = [flushed EXCEPT ![n] = 0]
    /\ flight' = [flight EXCEPT ![n] = [s \in Slots |-> NoFlush]]
    /\ UNCHANGED <<changes, store, owed>>

\* The final flush is over or was given up.
StopEnds(n) ==
    /\ phase[n] = "stopping" /\ Quiet(n)
    /\ HandsBack(n)
    /\ Ends(n, state[n])

\* A crash or a power cut; the disk stays as it was.
Crashes(n) ==
    /\ Up(n)
    /\ Ends(n, disk[n])
    /\ UNCHANGED leader

------------------------------------------------------------------------------
(* The election, seen from here: see ClusterPromoter. *)

LeaseMoves ==
    /\ \/ leader = NoNode /\ leader' \in Nodes
       \/ leader # NoNode /\ leader' = NoNode
    /\ UNCHANGED <<changes, nodeVars, mirrorVars, store, owed>>

FlushSteps(n) ==
    \E s \in Slots :
        \/ ScheduledFlush(n, s) \/ ServiceFlush(n, s) \/ SnapshotWritten(n, s)
        \/ FlushReturns(n, s) \/ FlushFails(n, s)

LifeSteps(n) ==
    \/ \E e \in Entities : StateChanges(n, e)
    \/ StatesDumped(n) \/ Starts(n) \/ RestoreReads(n) \/ RestoreApplies(n)
    \/ GateOpensAnyway(n) \/ Unloads(n) \/ Reloaded(n) \/ StopBegins(n) \/ StopEnds(n) \/ Crashes(n)

SnapshotNext == LeaseMoves \/ \E n \in Nodes : FlushSteps(n) \/ LifeSteps(n)

SnapshotSpec == SnapshotInit /\ [][SnapshotNext]_snapshotVars

\* The timer fires, a start-up completes, and an outage does not last: now and then
\* a write gets through and so does its answer.
SnapshotFairness ==
    \A n \in Nodes :
        /\ WF_snapshotVars(RestoreApplies(n))
        /\ \A s \in Slots :
            /\ WF_snapshotVars(ScheduledFlush(n, s))
            /\ SF_snapshotVars(SnapshotWritten(n, s))
            /\ SF_snapshotVars(FlushReturns(n, s))

FairSnapshotSpec == SnapshotSpec /\ SnapshotFairness

------------------------------------------------------------------------------
(* A mirror that reads clean is written: what Valkey has of this node is what *)
(* its Home Assistant shows (async_flush: changes during a flush "are never   *)
(* mistaken for already-persisted").                                          *)
CleanMeansWritten ==
    \A n \in Nodes :
        phase[n] = "running" /\ ~Dirty(n) /\ Quiet(n) =>
            \A e \in Entities : store[e].by = n => store[e].v = state[n][e]

(* State that a flush was told it published is not replaced by older state    *)
(* through any sequence of crashes, promotions and restores, until a start    *)
(* that slow opens the gate or its own author restarts (AR-0040, AR-0065:     *)
(* "the integration destroyed the snapshot it had failed to use").            *)
PublishedStateSurvives == \A e \in Entities : store[e].v >= owed[e]

\* The snapshot is behind what a settled leader's Home Assistant shows.
Behind(n) ==
    phase[n] = "running" /\ leader = n /\ \E e \in Entities : store[e].v < state[n][e]

(* A leader's snapshot does not stay behind its Home Assistant, however often *)
(* the backend fails in between (AR-0011: "leave the revision dirty so the    *)
(* next interval retries").                                                   *)
ChangesReachTheStore == \A n \in Nodes : Behind(n) ~> ~Behind(n)
==============================================================================
