----------------------------- MODULE GoBagSwap -----------------------------
(***************************************************************************)
(* A promotion of one node with fileset replication: the pull keeps a      *)
(* copy of the leader's configuration tree staged; the promoter runs       *)
(* notify_master, which stops Home Assistant (warm topology), installs     *)
(* what is staged, keeps this node's own config entry in it, records what  *)
(* hardware is missing, and starts Home Assistant.                         *)
(*                                                                         *)
(* A tree has two parts: .storage, which holds the identity, and the other *)
(* entries of the configuration directory.  A generation is one state of   *)
(* the leader's whole tree, so parts of one tree have equal generations.   *)
(***************************************************************************)
EXTENDS Integers

CONSTANTS
    Others,         \* the entries of the tree beside .storage
    MaxGen,         \* bound: generations the leaders publish
    Topologies,     \* the topologies to start from: TRUE is warm
    Disturbances    \* what may go wrong

\* failures: a copy, a chown, a tool or docker start fails; stopfault: docker stop fails;
\* mvfault: a rename into place fails; asidefault: the rename before it, which takes the
\* tree that is there out of the way and which no script checks; kill: the swap dies part
\* way; overlap: a promotion begins during a pull; blind: docker inspect fails;
\* preflightfault: the pre-flight fails.
SwapKinds == {"failures", "stopfault", "mvfault", "asidefault", "kill", "overlap", "blind",
              "preflightfault"}

ASSUME GoBagSwapAssumption ==
    /\ MaxGen \in Nat \ {0}
    /\ Topologies \subseteq BOOLEAN
    /\ Disturbances \subseteq SwapKinds

VARIABLES
    warm,           \* the topology the bundle was generated for
    vrrp,           \* the recorded state, which gates the pull
    bag,            \* the leader's tree in Valkey
    staged,         \* STAGED/storage
    verifyFailed,   \* STAGED/verify_failed
    status,         \* STAGED/status.json: the age of the last pull that succeeded
    pull,           \* where the pull is
    incoming,       \* what it has fetched
    live,           \* CONFIG/.storage
    copied,         \* CONFIG/.storage.new
    previous,       \* CONFIG/.storage.previous
    others,         \* the generations of CONFIG's other entries
    marker,         \* CONFIG's degraded marker
    ha,             \* the container
    mem,            \* the .storage Home Assistant has loaded, and writes when it stops
    pc,             \* where notify_master is
    captured,       \* the identity file: whose config entries
    aged,           \* the staged tree was stale when the swap looked
    marked,         \* MARKED
    failed,         \* FAILED
    todo,           \* the entries the swap has yet to install
    before          \* history: .storage and the rest when the swap began

pullVars == <<staged, verifyFailed, status, pull, incoming>>
treeVars == <<live, copied, previous, others>>
haVars == <<ha, mem>>
runVars == <<captured, aged, marked, failed, todo, before>>
swapVars == <<warm, vrrp, bag, pullVars, treeVars, marker, haVars, pc, runVars>>

Gens == 0..MaxGen
Identities == {"own", "peer", "none"}

\* radios: whose missing hardware .storage/.cluster_sync_preflight.json lists.
Trees == [gen : Gens, ident : Identities, radios : Identities]

\* Where a tree may be, and may not.
Absent == [gen |-> -1, ident |-> "none", radios |-> "none"]
Missing(t) == t.gen = -1
GensOrNone == Gens \cup {-1}
Slots == [gen : GensOrNone, ident : Identities, radios : Identities]

\* What Home Assistant makes of a missing .storage: the onboarding screen.
Blank == [gen |-> 0, ident |-> "none", radios |-> "none"]

Reasons == {"none", "verify_failed", "no_staged_fileset", "identity_restore_failed",
            "swap_failed", "no_local_identity", "ownership_restore_failed", "stale"}

Steps == {"idle", "stop", "open", "capture", "copy", "aside", "rename", "graft", "own",
          "rest", "close", "preflight", "start", "settle"}

SwapTypeOK ==
    /\ warm \in Topologies
    /\ vrrp \in {"MASTER", "BACKUP"}
    /\ bag \in Slots
    /\ staged \in Slots
    /\ verifyFailed \in BOOLEAN
    /\ status \in {"none", "fresh", "stale"}
    /\ pull \in {"idle", "fetched", "aside", "placed", "cleared"}
    /\ incoming \in Slots
    /\ live \in Slots
    /\ copied \in Slots
    /\ previous \in Slots
    /\ others \in [Others -> GensOrNone]
    /\ marker \in Reasons
    /\ ha \in {"running", "stopped"}
    /\ mem \in Trees
    /\ pc \in Steps
    /\ captured \in Identities
    /\ aged \in BOOLEAN
    /\ marked \in BOOLEAN
    /\ failed \in BOOLEAN
    /\ todo \subseteq Others
    /\ before \in [storage : Slots, others : [Others -> GensOrNone]]

\* No swap has begun.
NoRun == [storage |-> Absent, others |-> [d \in Others |-> 0]]

\* A standby has Home Assistant configured, not configured, or never started.
SwapInit ==
    /\ warm \in Topologies
    /\ vrrp = "BACKUP"
    /\ bag = Absent /\ staged = Absent /\ incoming = Absent
    /\ verifyFailed = FALSE /\ status = "none" /\ pull = "idle"
    /\ live \in {Absent, Blank, [Blank EXCEPT !.ident = "own"]}
    /\ copied = Absent /\ previous = Absent
    /\ others = [d \in Others |-> 0]
    /\ marker = "none"
    /\ ha = IF warm /\ ~Missing(live) THEN "running" ELSE "stopped"
    /\ mem = IF ha = "running" THEN live ELSE Blank
    /\ pc = "idle"
    /\ captured = "none" /\ aged = FALSE /\ marked = FALSE /\ failed = FALSE
    /\ todo = {} /\ before = NoRun

------------------------------------------------------------------------------
(* The leaders' trees, and the pull. *)

NextGen == IF Missing(bag) THEN 1 ELSE bag.gen + 1

\* The peer leads, changes its tree and publishes it, with its own identity inside.
PeerPublishes ==
    /\ vrrp = "BACKUP" /\ bag.gen < MaxGen
    /\ \E r \in {"none", "peer"} :
          bag' = [gen |-> NextGen, ident |-> "peer", radios |-> r]
    /\ UNCHANGED <<warm, vrrp, pullVars, treeVars, marker, haVars, pc, runVars>>

\* This node leads, its Home Assistant changes the tree and publishes it.
NodePublishes ==
    /\ vrrp = "MASTER" /\ pc = "idle" /\ ha = "running" /\ mem.ident # "none"
    /\ bag.gen < MaxGen
    /\ mem' = [mem EXCEPT !.gen = NextGen]
    /\ live' = mem' /\ bag' = mem'
    /\ others' = [d \in Others |-> NextGen]
    /\ UNCHANGED <<warm, vrrp, pullVars, copied, previous, marker, ha, pc, runVars>>

\* cluster-fileset-pull.sh runs on a confirmed follower only.
PullStarts ==
    /\ pull = "idle" /\ vrrp = "BACKUP" /\ ~Missing(bag)
    /\ pc = "idle" \/ "overlap" \in Disturbances
    /\ UNCHANGED <<warm, vrrp, bag, status, treeVars, marker, haVars, pc, runVars>>
    /\ UNCHANGED staged
    /\ \/ /\ pull' = "fetched" /\ incoming' = bag
          /\ UNCHANGED verifyFailed
       \* The manifest or a blob does not authenticate.
       \/ /\ verifyFailed' = TRUE
          /\ UNCHANGED <<pull, incoming>>

\* restore_fileset's renames: storage to .previous, then .incoming/storage to storage.
PullRenames ==
    /\ \/ /\ pull = "fetched" /\ pull' = "aside" /\ staged' = Absent
          /\ UNCHANGED incoming
       \/ pull = "aside" /\ pull' = "placed" /\ staged' = incoming /\ incoming' = Absent
    /\ UNCHANGED <<warm, vrrp, bag, verifyFailed, status, treeVars, marker, haVars, pc,
                   runVars>>

\* A clean pull clears the marker of a failed one, then writes its status.
PullReports ==
    /\ \/ pull = "placed" /\ pull' = "cleared" /\ verifyFailed' = FALSE /\ UNCHANGED status
       \/ pull = "cleared" /\ pull' = "idle" /\ status' = "fresh" /\ UNCHANGED verifyFailed
    /\ UNCHANGED <<warm, vrrp, bag, staged, incoming, treeVars, marker, haVars, pc, runVars>>

\* The pull's container is killed, or the host restarts.
PullDies ==
    /\ pull # "idle"
    /\ pull' = "idle" /\ incoming' = Absent
    /\ UNCHANGED <<warm, vrrp, bag, staged, verifyFailed, status, treeVars, marker, haVars,
                   pc, runVars>>

\* Pulls fail for longer than fileset_stale_after.
StagingAges ==
    /\ status = "fresh"
    /\ status' = "stale"
    /\ UNCHANGED <<warm, vrrp, bag, staged, verifyFailed, pull, incoming, treeVars, marker,
                   haVars, pc, runVars>>

------------------------------------------------------------------------------
(* notify_master: the swap. *)

WorksUnless(fault) == IF fault \in Disturbances THEN BOOLEAN ELSE {TRUE}
Works == WorksUnless("failures")

\* What the scripts leave alone.
clusterVars == <<warm, vrrp, bag, pullVars>>

\* mark(): the first reason of a run wins.
Marks(reason) ==
    IF marked THEN UNCHANGED <<marker, marked>> ELSE marker' = reason /\ marked' = TRUE

\* The promoter runs notify_master, which records MASTER before anything can fail.
Promotes ==
    /\ vrrp = "BACKUP" /\ pc = "idle"
    /\ pull = "idle" \/ "overlap" \in Disturbances
    /\ vrrp' = "MASTER"
    /\ pc' = IF warm THEN "stop" ELSE "open"
    /\ UNCHANGED <<warm, bag, pullVars, treeVars, marker, haVars, runVars>>

\* Home Assistant writes the stores it holds in memory when it stops, and is gone.
Stops ==
    /\ ha' = "stopped" /\ mem' = Blank
    /\ live' = IF ha = "running" THEN mem ELSE live

\* Warm: docker stop, and go on if it fails.
ScriptStops ==
    /\ pc = "stop" /\ pc' = "open"
    /\ \/ Stops
       \/ "stopfault" \in Disturbances /\ UNCHANGED <<haVars, live>>
    /\ UNCHANGED <<clusterVars, copied, previous, others, marker, runVars>>

\* Faulty: the swap does not look whether the container runs.
SeesNothing == {FALSE}

\* docker inspect, and an answer it cannot give is not "true".
SeesRunning == IF "blind" \in Disturbances THEN {FALSE, ha = "running"} ELSE {ha = "running"}

\* A new run of the swap script: under a running container it ends here, unmarked,
\* because mark() is defined only further down.
SwapOpens ==
    /\ pc = "open"
    /\ \E running \in SeesRunning :
          /\ failed' = FALSE /\ captured' = "none"
          /\ aged' = (status = "stale")
          /\ before' = [storage |-> live, others |-> others]
          /\ todo' = Others
          /\ \/ running /\ pc' = "preflight" /\ marked' = FALSE /\ UNCHANGED marker
             \/ /\ ~running /\ verifyFailed
                /\ pc' = "preflight" /\ marked' = TRUE /\ marker' = "verify_failed"
             \/ /\ ~running /\ ~verifyFailed /\ (Missing(staged) \/ status = "none")
                /\ pc' = "preflight" /\ marked' = TRUE /\ marker' = "no_staged_fileset"
             \/ /\ ~running /\ ~verifyFailed /\ ~Missing(staged) /\ status # "none"
                /\ pc' = "capture" /\ marked' = FALSE /\ UNCHANGED marker
    /\ UNCHANGED <<clusterVars, treeVars, haVars>>

\* Faulty: a failure to capture ends notify_master, as set -e would.
CaptureAborts ==
    /\ pc = "capture"
    /\ \E ok \in Works :
          /\ captured' = IF ok THEN live.ident ELSE "none"
          /\ pc' = IF ok THEN "copy" ELSE "idle"
    /\ UNCHANGED <<clusterVars, treeVars, marker, haVars, aged, marked, failed, todo, before>>

\* fileset_identity.py capture: a missing store has no entries, and is no error.
IdentityCaptured ==
    /\ pc = "capture"
    /\ \E ok \in Works :
          \/ ok /\ captured' = live.ident /\ pc' = "copy" /\ UNCHANGED <<marker, marked>>
          \/ ~ok /\ Marks("identity_restore_failed") /\ pc' = "preflight" /\ UNCHANGED captured
    /\ UNCHANGED <<clusterVars, treeVars, haVars, aged, failed, todo, before>>

\* swap_dir .storage: drop .new and .previous, then copy. Nothing staged is no failure.
StorageCopied ==
    /\ pc = "copy"
    /\ previous' = IF Missing(staged) THEN previous ELSE Absent
    /\ \E ok \in (IF Missing(staged) THEN {TRUE} ELSE Works) :
          /\ copied' = IF ok THEN staged ELSE Absent
          /\ IF ok THEN /\ pc' = IF Missing(staged) THEN "graft" ELSE "aside"
                        /\ UNCHANGED <<marker, marked>>
                   ELSE Marks("swap_failed") /\ pc' = "preflight"
    /\ UNCHANGED <<clusterVars, live, others, haVars, captured, aged, failed, todo, before>>

\* The first rename, with no || behind it: the old tree goes, or stays where it is.
StorageAside ==
    /\ pc = "aside" /\ pc' = "rename"
    /\ \E ok \in WorksUnless("asidefault") :
          IF ok THEN previous' = live /\ live' = Absent ELSE UNCHANGED <<previous, live>>
    /\ UNCHANGED <<clusterVars, copied, others, marker, haVars, runVars>>

\* The second decides what swap_dir returns: mv moves .storage.new to .storage, into
\* the .storage that should have gone, or not at all, where the next swap's rm finds it.
StorageRenamed ==
    /\ pc = "rename"
    /\ \E ok \in WorksUnless("mvfault") :
          /\ live' = IF ok /\ Missing(live) THEN copied ELSE live
          /\ IF ok THEN pc' = "graft" /\ UNCHANGED <<marker, marked>>
                   ELSE pc' = "preflight" /\ Marks("swap_failed")
    /\ copied' = Absent
    /\ UNCHANGED <<clusterVars, previous, others, haVars, captured, aged, failed, todo, before>>

\* graft_entries: this node's own cluster_state_sync entries in place of the carried
\* ones, the settings the cluster shares taken over from those.
Grafted(tree) == [tree EXCEPT !.ident = captured]

\* Faulty: the swap goes on with the tree it could not put this node's entries in.
RestoreIgnored ==
    /\ pc = "graft" /\ pc' = "own"
    /\ \/ /\ ~Missing(live)
          /\ live' = Grafted(live)
          /\ IF captured = "none" THEN Marks("no_local_identity") /\ failed' = TRUE
                                  ELSE UNCHANGED <<marker, marked, failed>>
       \/ /\ "failures" \in Disturbances
          /\ Marks("identity_restore_failed") /\ failed' = TRUE
          /\ UNCHANGED live
    /\ UNCHANGED <<clusterVars, copied, previous, others, haVars, captured, aged, todo, before>>

\* The rollback checks neither rename: .storage goes to .rejected or stays, and the
\* .previous there is comes back only where it went.
RolledBack ==
    \E gone \in WorksUnless("asidefault"), back \in WorksUnless("mvfault") :
        LET kept == ~Missing(live) /\ ~gone
        IN  /\ live' = IF kept THEN live ELSE IF back THEN previous ELSE Absent
            /\ previous' = IF back THEN Absent ELSE previous

\* fileset_identity.py restore: this node's entries replace the peer's, and a node
\* without any gets none. If it fails the swap rolls .storage back.
IdentityRestored ==
    /\ pc = "graft"
    /\ \/ /\ ~Missing(live) /\ pc' = "own"
          /\ live' = Grafted(live)
          /\ UNCHANGED previous
          /\ IF captured = "none" THEN Marks("no_local_identity") /\ failed' = TRUE
                                  ELSE UNCHANGED <<marker, marked, failed>>
       \/ /\ Missing(live) \/ "failures" \in Disturbances
          /\ pc' = "preflight"
          /\ RolledBack
          /\ Marks("identity_restore_failed")
          /\ UNCHANGED failed
    /\ UNCHANGED <<clusterVars, copied, others, haVars, captured, aged, todo, before>>

\* chown of .storage: a failure is marked, and the swap goes on.
StorageOwned ==
    /\ pc = "own" /\ pc' = "rest"
    /\ \E ok \in Works :
          IF ok THEN UNCHANGED <<marker, marked, failed>>
                ELSE Marks("ownership_restore_failed") /\ failed' = TRUE
    /\ UNCHANGED <<clusterVars, treeVars, haVars, captured, aged, todo, before>>

\* Faulty: a failure in the loops is marked but does not count.
EntryForgotten(d) ==
    /\ pc = "rest" /\ d \in todo /\ ~Missing(staged)
    /\ todo' = todo \ {d}
    /\ UNCHANGED failed
    /\ \/ others' = [others EXCEPT ![d] = staged.gen] /\ UNCHANGED <<marker, marked>>
       \/ "failures" \in Disturbances /\ Marks("swap_failed") /\ UNCHANGED others
    /\ UNCHANGED <<clusterVars, live, copied, previous, haVars, pc, captured, aged, before>>

\* Every other staged entry is tried, whatever became of the one before: swap_dir again
\* (cp -a for a file), with the same two renames, and a chown.
EntryInstalled(d) ==
    /\ pc = "rest" /\ d \in todo /\ ~Missing(staged)
    /\ todo' = todo \ {d}
    /\ \/ /\ others' = [others EXCEPT ![d] = staged.gen]
          /\ UNCHANGED <<marker, marked, failed>>
       \* Moved into the entry that should have gone: a success, over the old one.
       \/ /\ "asidefault" \in Disturbances /\ others[d] # -1
          /\ UNCHANGED <<others, marker, marked, failed>>
       \/ /\ "failures" \in Disturbances /\ failed' = TRUE
          /\ \/ Marks("swap_failed") /\ UNCHANGED others
             \/ /\ Marks("ownership_restore_failed")
                /\ others' = [others EXCEPT ![d] = staged.gen]
       \/ /\ "mvfault" \in Disturbances /\ failed' = TRUE
          /\ Marks("swap_failed")
          /\ others' = [others EXCEPT ![d] = -1]
    /\ UNCHANGED <<clusterVars, live, copied, previous, haVars, pc, captured, aged, before>>

RestDone ==
    /\ pc = "rest" /\ (todo = {} \/ Missing(staged))
    /\ pc' = "close"
    /\ UNCHANGED <<clusterVars, treeVars, marker, haVars, runVars>>

\* A failure keeps its marker, a stale tree gets one, and a clean swap removes it.
SwapCloses ==
    /\ pc = "close" /\ pc' = "preflight"
    /\ \/ failed /\ UNCHANGED <<marker, marked>>
       \/ ~failed /\ aged /\ Marks("stale")
       \/ ~failed /\ ~aged /\ marker' = "none" /\ UNCHANGED marked
    /\ UNCHANGED <<clusterVars, treeVars, haVars, captured, aged, failed, todo, before>>

------------------------------------------------------------------------------
(* notify_master: the pre-flight and the start. *)

\* Faulty: a plan with nothing to report leaves the list that is there.
PreflightLeavesList ==
    /\ pc = "preflight" /\ pc' = "start"
    /\ live' = IF ha = "stopped" /\ ~Missing(live) /\ live.radios # "peer"
               THEN [live EXCEPT !.radios = "none"] ELSE live
    /\ UNCHANGED <<clusterVars, copied, previous, others, marker, haVars, runVars>>

\* plan_preflight: what the tree's entries name and this host has not, or nothing. An
\* empty plan removes the list.
Plans == {"none", "own"}

\* ha-device-preflight.py --apply lists the entries whose hardware is absent, or
\* removes the list; it refuses under a running container, and fails without a tree.
Preflight ==
    /\ pc = "preflight" /\ pc' = "start"
    /\ \/ /\ ha = "running" \/ Missing(live) \/ "preflightfault" \in Disturbances
          /\ UNCHANGED live
       \/ /\ ha = "stopped" /\ ~Missing(live)
          /\ \E r \in Plans : live' = [live EXCEPT !.radios = r]
    /\ UNCHANGED <<clusterVars, copied, previous, others, marker, haVars, runVars>>

\* Faulty: Home Assistant is said to run on a tree that is not there.
LoadsNothing ==
    /\ ha' = "running"
    /\ IF ha = "running" THEN UNCHANGED <<mem, live>> ELSE mem' = live /\ UNCHANGED live

\* docker start: a no-op on a running container; without .storage Home Assistant makes one.
Loads ==
    /\ ha' = "running"
    /\ IF ha = "running" THEN UNCHANGED <<mem, live>>
       ELSE /\ mem' = IF Missing(live) THEN Blank ELSE live
            /\ live' = mem'

\* With its process go the variables of a script.
RunOver ==
    /\ pc' = "idle"
    /\ captured' = "none" /\ aged' = FALSE /\ marked' = FALSE /\ failed' = FALSE
    /\ todo' = {} /\ before' = NoRun

ScriptStarts ==
    /\ pc = "start"
    /\ \/ Loads /\ pc' = "settle" /\ UNCHANGED runVars
       \/ "failures" \in Disturbances /\ ha = "stopped" /\ RunOver /\ UNCHANGED <<ha, mem, live>>
    /\ UNCHANGED <<clusterVars, copied, previous, others, marker>>

\* The wait for Home Assistant, the hooks and the settle delay.
ScriptEnds ==
    /\ pc = "settle"
    /\ RunOver
    /\ UNCHANGED <<clusterVars, treeVars, marker, haVars>>

\* The promoter's ceiling on a notify script, or a host that restarts: what was done
\* stays done. The ceiling is usually met in the wait for Home Assistant.
Killable == IF "kill" \in Disturbances THEN Steps \ {"idle"} ELSE {"settle"}

ScriptKilled ==
    /\ pc \in Killable
    /\ RunOver
    /\ UNCHANGED <<clusterVars, treeVars, marker, haVars>>

\* notify_backup, after the last notify script has ended; also what puts a failed
\* promotion back: cold stops Home Assistant, warm leaves it up.
Demotes ==
    /\ vrrp = "MASTER" /\ pc = "idle"
    /\ vrrp' = "BACKUP"
    /\ IF warm THEN UNCHANGED <<haVars, live>> ELSE Stops
    /\ UNCHANGED <<warm, bag, pullVars, copied, previous, others, marker, pc, runVars>>

\* An operator starts a standby's Home Assistant to look at something.
HandStarts ==
    /\ vrrp = "BACKUP" /\ pc = "idle" /\ ha = "stopped"
    /\ Loads
    /\ UNCHANGED <<clusterVars, copied, previous, others, marker, pc, runVars>>

PullSteps == PullStarts \/ PullRenames \/ PullReports \/ PullDies \/ StagingAges
SwapSteps ==
    \/ SwapOpens \/ IdentityCaptured \/ StorageCopied \/ StorageAside \/ StorageRenamed
    \/ IdentityRestored \/ StorageOwned \/ (\E d \in Others : EntryInstalled(d))
    \/ RestDone \/ SwapCloses
ScriptSteps == ScriptStops \/ SwapSteps \/ Preflight \/ ScriptStarts \/ ScriptEnds

SwapNext ==
    \/ PeerPublishes \/ NodePublishes \/ PullSteps
    \/ Promotes \/ ScriptSteps \/ ScriptKilled \/ Demotes \/ HandStarts

SwapSpec == SwapInit /\ [][SwapNext]_swapVars

\* A script that runs goes on to its next command.
FairSwapSpec == SwapSpec /\ WF_swapVars(ScriptSteps)

------------------------------------------------------------------------------
(* Properties. *)

\* A Home Assistant never runs on the peer's config entry: with the peer's node_id it
\* would renew the peer's lease, and both would lead (bundle.py, step 3 of the swap). It
\* stands on the rename to .storage.rejected, which a rollback does not check.
NeverRunsAsThePeer == ha = "running" => mem.ident # "peer"

\* The files of a running Home Assistant are not changed behind it, or its next stop
\* would undo the change: what it has loaded is what is there.
HoldsItsFiles == ha = "running" => mem = live

Same(t, u) == t.gen = u.gen /\ t.ident = u.ident

\* The marker tells which tree is installed: the one that was there (or, after a rollback
\* that failed half way, no .storage), the leader's without an identity, or the leader's
\* and whole, and with no marker also recent.
MarkerIsTrue ==
    /\ marker \in {"verify_failed", "no_staged_fileset", "identity_restore_failed"} =>
          others = before.others
    /\ marker \in {"verify_failed", "no_staged_fileset"} => Same(live, before.storage)
    /\ marker = "identity_restore_failed" =>
          Same(live, before.storage) \/ Missing(live)
    /\ marker = "no_local_identity" =>
          live.gen = staged.gen /\ live.ident = "none"
    /\ marker \in {"none", "stale"} =>
          /\ live.gen = staged.gen /\ live.ident = "own"
          /\ \A d \in Others : others[d] = staged.gen
          /\ marker = "stale" <=> aged

\* When a promotion is about to start the container the marker is true.  It is the only
\* signal of the swap, which never fails (decision D4).  A container the swap found
\* running is not judged: that refusal is not marked at all.
MarkerTellsTheTree == pc = "start" /\ ha = "stopped" => MarkerIsTrue

\* The go-bag brings the peer's list of missing hardware along: a Home Assistant that
\* a promotion starts is shown its own or none.
ListsItsOwnHardware == ha = "running" => mem.radios # "peer"

\* D4: whatever failed before it, a promotion that began reaches the container's start.
PromotionReachesTheStart == (pc \in {"stop", "open"}) ~> (pc = "start")
==============================================================================
