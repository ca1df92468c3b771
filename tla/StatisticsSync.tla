--------------------------- MODULE StatisticsSync ---------------------------
(***************************************************************************)
(* Replication of the long-term statistics.  The leader publishes a window *)
(* of its recorder's rows; the standby's timer merges it into a store      *)
(* beside its own recorder; a promotion installs the store as the recorder *)
(* while Home Assistant is stopped; and a node that led rebuilds the store *)
(* from its recorder.  A standby has no user interface, so what it finds   *)
(* is left in Valkey, where the leader's publisher picks it up and raises  *)
(* it.  Rows are known by their hour.                                      *)
(***************************************************************************)
EXTENDS Integers, FiniteSets

CONSTANTS
    Nodes,          \* the node ids
    NoNode,         \* nobody leads
    MaxHours,       \* bound: hours that pass
    Window,         \* the length of the window, in hours
    Patience,       \* stale_after, in passes of the publisher
    Versions,       \* the recorder schemas of the Home Assistant versions in use
    MaxTerms,       \* bound: promotions
    MaxErrors,      \* bound: errors of a publish or of a pull
    Disturbances    \* what else may go wrong

\* degraded: a swap that ends before it hands the history over; installfault: the mv of
\* the store fails; warm: a node that steps down keeps its Home Assistant running; reseed:
\* a seed for a node that has history of its own; lateseed: a promotion before the seed is
\* adopted.
StatisticsKinds == {"degraded", "installfault", "warm", "reseed", "lateseed"}

ASSUME StatisticsAssumption ==
    /\ NoNode \notin Nodes
    /\ MaxHours \in Nat
    /\ Window \in Nat \ {0}
    /\ Patience \in Nat \ {0}
    /\ Versions \subseteq Nat \ {0}
    /\ MaxTerms \in Nat
    /\ MaxErrors \in Nat
    /\ Disturbances \subseteq StatisticsKinds

VARIABLES
    now,        \* the hour
    leader,     \* the node that leads
    terms,      \* how many promotions there have been
    errors,     \* how many errors
    version,    \* the schema of each node's Home Assistant
    ha,         \* whether it runs
    recorder,   \* home-assistant_v2.db
    store,      \* .cluster_sync_statistics.db
    seed,       \* .cluster_sync_statistics_seed.db
    newer,      \* the recorder's file is newer than the store's
    window,     \* statistics:window in Valkey
    since,      \* the leader's passes since first_success_at, 0 before it
    outcome,    \* what a pull has to report
    status,     \* statistics:follower, "none" when it is not there
    age,        \* passes since it was written
    issues,     \* the leader's repairs
    whole       \* history: a seed with rows was adopted in this term, and no gap since

clusterVars == <<leader, terms, version, ha>>
publishVars == <<window, since>>
sayVars == <<outcome, status, age, issues>>
diskVars == <<recorder, store, seed, newer, whole>>
statisticsVars ==
    <<now, errors, clusterVars, publishVars, sayVars, diskVars>>

Hours == 1..MaxHours

\* A database with its rows, or none.
NoDatabase == [there |-> FALSE, rows |-> {}, schema |-> 0]
Databases == [there : {TRUE}, rows : SUBSET Hours, schema : Versions] \cup {NoDatabase}

\* A window reaches back to covers_from.
NoWindow == [there |-> FALSE, rows |-> {}, schema |-> 0, from |-> 0]
Windows ==
    [there : {TRUE}, rows : SUBSET Hours, schema : Versions, from : 0..MaxHours] \cup {NoWindow}

Alarms == {"schema_mismatch", "gap", "not_seeded"}
States == Alarms \cup {"ok", "failed"}

StatisticsTypeOK ==
    /\ now \in 0..MaxHours
    /\ leader \in Nodes \cup {NoNode}
    /\ terms \in 0..MaxTerms
    /\ errors \in 0..MaxErrors
    /\ version \in [Nodes -> Versions]
    /\ ha \in [Nodes -> BOOLEAN]
    /\ recorder \in [Nodes -> Databases]
    /\ store \in [Nodes -> Databases]
    /\ seed \in [Nodes -> Databases]
    /\ newer \in [Nodes -> BOOLEAN]
    /\ window \in Windows
    /\ since \in 0..Patience
    /\ outcome \in [Nodes -> States \cup {"none"}]
    /\ status \in States \cup {"none"}
    /\ age \in 0..Patience
    /\ issues \subseteq Alarms \cup {"stalled"}
    /\ whole \in [Nodes -> BOOLEAN]

\* New nodes, all of one version.
StatisticsInit ==
    /\ now = 0 /\ leader = NoNode /\ terms = 0 /\ errors = 0
    /\ \E v \in Versions : version = [n \in Nodes |-> v]
    /\ ha = [n \in Nodes |-> FALSE]
    /\ recorder = [n \in Nodes |-> NoDatabase] /\ store = recorder /\ seed = recorder
    /\ newer = [n \in Nodes |-> FALSE]
    /\ window = NoWindow /\ since = 0
    /\ outcome = [n \in Nodes |-> "none"]
    /\ status = "none" /\ age = 0 /\ issues = {}
    /\ whole = newer

Newest(rows) == CHOOSE h \in rows \cup {0} : \A k \in rows : k <= h
Older(x) == IF x < Patience THEN x + 1 ELSE Patience
Error == errors < MaxErrors /\ errors' = errors + 1

\* A database that gets rows it may have.
WithRows(db, rows) == [there |-> TRUE, rows |-> db.rows \cup rows, schema |-> db.schema]

------------------------------------------------------------------------------
(* Time, and the life of a node. *)

\* Every Home Assistant that runs compiles the hour's statistics.
HourPasses ==
    /\ now < MaxHours
    /\ now' = now + 1
    /\ recorder' = [n \in Nodes |-> IF ha[n] THEN WithRows(recorder[n], {now'}) ELSE recorder[n]]
    /\ newer' = [n \in Nodes |-> ha[n] \/ newer[n]]
    /\ UNCHANGED <<errors, clusterVars, publishVars, sayVars, store, seed, whole>>

\* Faulty: Home Assistant takes the recorder as it is.
OpenedAsItIs(n, db) == [db EXCEPT !.there = TRUE]

\* Home Assistant starts: its recorder is created, or migrated to its schema.
Opened(n, db) == [there |-> TRUE, rows |-> db.rows, schema |-> version'[n]]

Starts(n, db) ==
    /\ ha' = [ha EXCEPT ![n] = TRUE]
    /\ recorder' = [recorder EXCEPT ![n] = Opened(n, db)]
    /\ newer' = [newer EXCEPT ![n] = TRUE]

\* With Home Assistant goes its publisher.
Forgets == since' = 0 /\ UNCHANGED window

\* Step 5b of the swap, with the container stopped: unless the recorder is newer, the
\* store becomes the recorder, and is consumed.
Installs(n) == store[n].there /\ ~(recorder[n].there /\ (newer[n] \/ ha[n]))

HandsOver(n) ==
    \/ /\ Installs(n)
       /\ \/ Starts(n, store[n]) /\ store' = [store EXCEPT ![n] = NoDatabase]
          \/ "installfault" \in Disturbances /\ Starts(n, NoDatabase) /\ UNCHANGED store
    \/ /\ ~Installs(n) \/ "degraded" \in Disturbances
       /\ Starts(n, recorder[n]) /\ UNCHANGED store

Promotes(n) ==
    /\ leader = NoNode /\ terms < MaxTerms /\ outcome[n] = "none"
    /\ ~seed[n].there \/ "lateseed" \in Disturbances
    /\ leader' = n /\ terms' = terms + 1
    /\ UNCHANGED version
    /\ HandsOver(n)
    /\ whole' = [m \in Nodes |-> FALSE]
    /\ Forgets
    /\ UNCHANGED <<now, errors, sayVars, seed>>

Stops(n) ==
    /\ ha' = [ha EXCEPT ![n] = @ /\ "warm" \in Disturbances]
    /\ newer' = [newer EXCEPT ![n] = TRUE]

\* The leader steps down, or its node dies and comes back as a standby.
Demotes(n) ==
    /\ leader = n /\ leader' = NoNode
    /\ Stops(n)
    /\ Forgets
    /\ UNCHANGED <<now, errors, terms, version, sayVars, recorder, store,
                   seed, whole>>

\* The leader's Home Assistant stops, and starts again.
GoesDown(n) ==
    /\ leader = n /\ ha[n]
    /\ ha' = [ha EXCEPT ![n] = FALSE] /\ newer' = [newer EXCEPT ![n] = TRUE]
    /\ Forgets
    /\ UNCHANGED <<now, errors, leader, terms, version, sayVars, recorder, store, seed, whole>>

ComesUp(n) ==
    /\ leader = n /\ ~ha[n]
    /\ UNCHANGED version
    /\ Starts(n, recorder[n])
    /\ UNCHANGED <<now, errors, leader, terms, publishVars, sayVars, store, seed, whole>>

\* An image is replaced while its container is stopped; Home Assistant may be started
\* once to migrate the recorder, which is what it migrates.
Upgrades(n) ==
    /\ ~ha[n]
    /\ \E v \in Versions : version[n] < v /\ version' = [version EXCEPT ![n] = v]
    /\ \/ UNCHANGED <<recorder, newer>>
       \/ /\ recorder' = [recorder EXCEPT ![n] = Opened(n, @)]
          /\ newer' = [newer EXCEPT ![n] = TRUE]
    /\ UNCHANGED <<now, errors, leader, terms, ha, publishVars, sayVars, store, seed, whole>>

------------------------------------------------------------------------------
(* The publisher. *)

Floor == IF now > Window THEN now - Window ELSE 0

\* Faulty: the hour that has just ended is left out.
ExportOfOldHours(n) ==
    [there |-> TRUE, schema |-> recorder[n].schema, from |-> Floor,
     rows |-> {h \in recorder[n].rows : Floor < h /\ h < now}]

\* export_since: the rows after the window's floor.
ExportOf(n) ==
    [there |-> TRUE, schema |-> recorder[n].schema, from |-> Floor,
     rows |-> {h \in recorder[n].rows : h > Floor}]

\* _status_is_stale: no status, or one that is too old.
StatusStale == status = "none" \/ age = Patience

\* Faulty: a schema that does not match is no finding.
HearsNoMismatch ==
    (IF status \in Alarms \ {"schema_mismatch"} THEN {status} ELSE {})
        \cup (IF since = Patience /\ StatusStale THEN {"stalled"} ELSE {})

\* _surface_follower_status: each finding is raised or cleared, and silence counts once
\* there has been something to be silent about.
Hears ==
    (IF status \in Alarms THEN {status} ELSE {})
        \cup (IF since = Patience /\ StatusStale THEN {"stalled"} ELSE {})

\* The end of a pass, its publish good or bad.
Surfaces(publishing) ==
    /\ since' = publishing
    /\ issues' = Hears
    /\ age' = Older(age)
    /\ UNCHANGED <<outcome, status>>

\* A pass of the leader's publisher.
Publishes(n) ==
    /\ leader = n /\ ha[n]
    /\ window' = ExportOf(n)
    /\ Surfaces(Older(since))
    /\ UNCHANGED <<now, errors, clusterVars, diskVars>>

\* No recorder, a busy one, a window over the cap, or a write that fails.
PublishFails(n) ==
    /\ leader = n /\ ha[n] /\ Error
    /\ Surfaces(IF since = 0 THEN 0 ELSE Older(since))
    /\ UNCHANGED <<now, clusterVars, window, diskVars>>

------------------------------------------------------------------------------
(* The pull. *)

\* An operator writes a seed on the leader and copies it.
SeedCopied(n) ==
    /\ leader \notin {n, NoNode} /\ ~seed[n].there
    /\ (recorder[n].rows = {} /\ store[n].rows = {}) \/ "reseed" \in Disturbances
    /\ seed' = [seed EXCEPT ![n] = recorder[leader]]
    /\ UNCHANGED <<now, errors, clusterVars, publishVars, sayVars, recorder, store, newer,
                   whole>>

\* A confirmed follower's timer fires; without a window a pull has nothing to do.
Pulling(n) == leader # n /\ window.there /\ outcome[n] = "none"

Rebuilds(n) == ~seed[n].there /\ ~store[n].there /\ recorder[n].there

\* Faulty: a store that is not there begins with the window.
BaseStartsEmpty(n) ==
    IF seed[n].there THEN seed[n]
    ELSE IF Rebuilds(n) THEN [recorder[n] EXCEPT !.rows = {}] ELSE store[n]

\* The store a window is applied to: an adopted seed, one rebuilt from this node's own
\* recorder, or the one that is there.
Base(n) ==
    IF seed[n].there THEN seed[n]
    ELSE IF Rebuilds(n) THEN recorder[n] ELSE store[n]

\* Faulty: a window's floor above the newest row here is no finding.
GapIgnored(before, from) == FALSE

\* A window's floor above the newest row here: what lies between is on its way no more.
IsGap(before, from) == before > 0 /\ from > before

\* What a pull has found.
Finds(n, base, w) ==
    IF ~base.there THEN "not_seeded"
    ELSE IF base.schema # w.schema THEN "schema_mismatch"
    ELSE IF IsGap(Newest(base.rows), w.from) THEN "gap" ELSE "ok"

\* apply_window: adoption and rebuilding stay done if the window is refused.
PullApplies(n) ==
    /\ Pulling(n)
    /\ LET base == Base(n)
           found == Finds(n, base, window)
           merged == IF found \in {"ok", "gap"}
                     THEN WithRows(base, window.rows) ELSE base IN
          /\ store' = [store EXCEPT ![n] = merged]
          /\ outcome' = [outcome EXCEPT ![n] = found]
          /\ newer' = [newer EXCEPT ![n] = @ /\ merged = store[n]]
          /\ whole' = [whole EXCEPT ![n] =
                         (IF seed[n].there THEN base.rows # {} ELSE @) /\ found # "gap"]
    /\ seed' = [seed EXCEPT ![n] = NoDatabase]
    /\ UNCHANGED <<now, errors, clusterVars, publishVars, status, age, issues, recorder>>

\* A seed whose copy has not ended, or a database that cannot be written.
PullRefuses(n) ==
    /\ Pulling(n) /\ Error
    /\ outcome' = [outcome EXCEPT ![n] = "failed"]
    /\ UNCHANGED <<now, clusterVars, publishVars, status, age, issues, diskVars>>

PullReports(n) ==
    /\ outcome[n] # "none"
    /\ outcome' = [outcome EXCEPT ![n] = "none"]
    /\ status' = outcome[n] /\ age' = 0
    /\ UNCHANGED <<now, errors, clusterVars, publishVars, issues, diskVars>>

\* The container dies, or Valkey does not answer, with a window applied and not reported.
PullDies(n) ==
    /\ outcome[n] # "none" /\ Error
    /\ outcome' = [outcome EXCEPT ![n] = "none"]
    /\ UNCHANGED <<now, clusterVars, publishVars, status, age, issues, diskVars>>

\* The status has a lifetime.
StatusExpires ==
    /\ status # "none" /\ age = Patience
    /\ status' = "none"
    /\ UNCHANGED <<now, errors, clusterVars, publishVars, outcome, age, issues, diskVars>>

PullSteps(n) == PullApplies(n) \/ PullReports(n)
NodeSteps(n) ==
    \/ Promotes(n) \/ Demotes(n) \/ GoesDown(n) \/ ComesUp(n) \/ Upgrades(n) \/ SeedCopied(n)
Errors(n) == PublishFails(n) \/ PullRefuses(n) \/ PullDies(n)

StatisticsNext ==
    \/ HourPasses \/ StatusExpires
    \/ \E n \in Nodes : Publishes(n) \/ PullSteps(n) \/ NodeSteps(n) \/ Errors(n)

StatisticsSpec == StatisticsInit /\ [][StatisticsNext]_statisticsVars

\* The publisher's interval fires.
FairStatisticsSpec ==
    StatisticsSpec /\ \A n \in Nodes : WF_statisticsVars(Publishes(n))

------------------------------------------------------------------------------
(* Properties. *)

\* Under one leader, a store seeded with rows that has reported no gap has every row of the leader's
\* up to its own newest one: the window leaves out nothing that is not said.
StoreIsContiguous ==
    \A n \in Nodes :
        leader # NoNode /\ whole[n] =>
            {h \in recorder[leader].rows : h <= Newest(store[n].rows)} \subseteq store[n].rows

\* A promotion never replaces a node's history with less: the swap's check that the local
\* recorder is not newer, and the store that is consumed and rebuilt, are there for this.
PromotionKeepsHistory ==
    [][\A n \in Nodes : recorder[n].rows \subseteq recorder'[n].rows]_statisticsVars

Steady(n) == leader = n /\ ha[n]

\* The standby's timer fires, and its pull ends.
PullsGoOn(m) == WF_statisticsVars(PullSteps(m))

\* ... and reports about as often as the leader publishes: both have the same interval.
Prompt == age < Patience

\* A seeded standby of a leader that stays gets every row of its window.
FollowerCatchesUp ==
    \A n, m \in Nodes :
        n # m /\ PullsGoOn(m)
        /\ <>[](Steady(n) /\ store[m].there /\ store[m].schema = recorder[n].schema)
            => <>[]({h \in recorder[n].rows : h > now - Window} \subseteq store[m].rows)

\* A standby that cannot apply its leader's rows is a repair on the leader, and stays one.
MismatchIsSaid ==
    \A n, m \in Nodes :
        n # m /\ PullsGoOn(m)
        /\ <>[](Steady(n) /\ Prompt /\ store[m].there /\ store[m].schema # recorder[n].schema)
            => <>[]("schema_mismatch" \in issues)

\* So is a standby whose pulls find nothing any more: its timer, or its host, has stopped.
SilenceIsNoticed ==
    \A n \in Nodes :
        <>[](Steady(n) /\ \A m \in Nodes : outcome[m] = "none") => <>[]("stalled" \in issues)

\* A standby whose store has the leader's schema again is no repair any more.
MismatchEnds ==
    \A n, m \in Nodes :
        n # m /\ PullsGoOn(m)
        /\ <>[](Steady(n) /\ Prompt /\ store[m].there /\ store[m].schema = recorder[n].schema
                /\ ~seed[m].there)
            => <>[]("schema_mismatch" \notin issues)

\* A leader's user interface is the only place where its standby's trouble can be seen: what
\* it says is there while it lasts, and no longer.
RepairsTellTheTruth == MismatchIsSaid /\ MismatchEnds /\ SilenceIsNoticed
==============================================================================
