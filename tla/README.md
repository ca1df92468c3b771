# A verification project for Cluster State Sync

Cluster State Sync makes an active/standby pair of two Home Assistant hosts. A
lease in Valkey says which node leads; a host-side promoter on each node starts
and stops Home Assistant accordingly; the integration inside Home Assistant
carries state, configuration files and statistics to the standby through the same
server. This directory holds TLA+ models of that code, the TLC runs that check
them and the proofs that TLAPS checks. All paths below are relative to
`custom_components/cluster_state_sync/`.

## 1. The system

| Component | State it keeps | Operations | Interacts with |
|---|---|---|---|
| Lease scripts (`lease.py`) | one Valkey key: owner, TTL | take or renew, renew only, force, release | evaluated by the promoter and by the integration, under one node id |
| Cluster promoter (`scripts/cluster_promoter.py`) | `/run/cluster-sync/vrrp-state`, the release-holddown marker, `force-master` | one tick: `run()`; `--adopt`, `--hold`, `--clear-hold` | the lease, the holds, the handover file, Home Assistant's HTTP answer, docker, the notify scripts |
| Notify scripts (`bundle.py`) | the state file, the container, the firewall | `notify_master.sh`, `notify_backup.sh`, `notify_fault.sh` | run by the promoter inside its tick; they start and stop Home Assistant |
| Timer and boot (`bundle.py`) | a oneshot unit, its timer, tmpfiles.d | a tick every 10 s; BACKUP at boot | everything above |
| RESP client (`scripts/resp.py`) | one connection, answers in order | get, set, eval | the promoter, the pulls |
| Leadership monitor (`leadership.py`) | last answer | resolve by lease, entity or always | the lease and the holds, on every flush |
| Maintenance hold (`hold.py`, promoter) | a local file and a shared key, both with a deadline | set, clear, expire, set automatically over a restart | read by promoter and integration |
| Handover (`handover.py`, `switch.py`) | a request file | request, withdraw, consume | made by the dashboard, consumed by the promoter |
| State mirror (`__init__.py`) | tracked entries, revision, flushed revision | seed, record, flush, final flush | writes the snapshot in Valkey when leading and past the restore gate |
| Restore (`__init__.py`) | the restore gate | restore at start | reads the peer's snapshot, sets local states |
| Service gate (`gating.py`) | what it switched off | apply, restore | recorder and automations of a follower |
| Fileset publisher (`fileset.py`) | its last two generations; manifest and bodies in Valkey | scan, publish, prune | read by the pull of the standby |
| Fileset pull and swap (`scripts/fileset_pull.py`, `scripts/fileset_identity.py`, `bundle.py`) | staging, the configuration directory, `.previous`, the degraded marker | pull, swap at promotion, roll back | `notify_master.sh`, pre-flight, docker |
| Statistics (`statistics_sync.py`, `statistics_publisher.py`, `scripts/statistics_pull.py`) | recorder, store, seed; the window and the follower's status in Valkey | publish, seed, pull, hand over, rebuild, surface | Valkey, the recorder, the leader's repairs |
| Recorder snapshot (`recorder_snapshot.py`) | a copy of the database | copy periodically | the recorder |
| Alerts (`alerts.py`, `coordinator.py`, the watchers in `__init__.py`) | raised conditions, waiting pushes, `_ALERT_STATE` | raise, clear, forget, announce a promotion | sensors, the cluster view, the phone |
| Entry life cycle (`__init__.py`) | the runtime, `_RELOADING` | set up, stop, unload, reload | all of the above |
| Entities, diagnostics, config flow, preflight, crypto, panel, ingress | none, or presentation | | |

What is hard here: two independent timers, one per host, drive one shared lease;
a tick that runs a script does not renew; a host may stop at any point; an answer
may be lost or come late; operators act beside all that through files; the
integration uses the same lease under the same identity as the promoter next to it;
its setup, stop and unload are coroutines in whose awaits other callbacks run; and a
promotion is a shell script that replaces the configuration under a program which
writes it back when it stops.
What each part must get right:

* the election: at most one live leader; a leader that gave up stays out for its
  hold-down; a hold freezes roles; a healthy leader is not deposed; a dead or
  wedged one is replaced; a promotion needs the lease;
* snapshot: a promoted node restores what the peer last published and never
  publishes its own boot state over it first; a clean mirror means a written one;
* fileset: the manifest's bodies are there, a standby stages one whole generation and
  catches up; a promotion never starts the node as its peer, and says when it starts
  it on anything but the leader's tree;
* statistics: a promotion loses no history, a gap is reported, and what a standby
  cannot do is told on the leader;
* hold: a person's hold is lifted by a person; planned work does not move the house;
* gate: what a follower switched off is switched on again;
* alerts: each condition is announced once and cleared once, reloads or not.

`PROJECT.json` lists every component, and under `hazards` every place of the code
where one of these is at stake.

## 2. The modules

`Lease` is the key in Valkey: `holder` and `ttl`, one operator per Lua script, and
`Elapse` for the server's clock. The scripts run atomically in the server, so each
is one step.

`ClusterPromoter` (extends `Lease`) is the election: for each node the promoter's
files, the container, the link to Valkey, and where its tick is.

| Model | Code |
|---|---|
| `TickUnreachable` | `main()`: no connection, exit 1 before `run()` |
| `TickHeld`, `TickForced`, `TickHandover`, `TickHeldDown`, `TickLease` | the branches of `run()` that need no probe, in its order |
| `TickProbes`, then `TickRelease`, `TickRenews` or `TickCutOff` | an established leader's tick: holds, override and role are read, then its Home Assistant is asked, then the lease script runs |
| `Act` | `decide()` and the reconcile check `_backup_is_serving` |
| `TickReplyLost` | `except (ValkeyError, OSError)`: the script ran, the tick failed |
| `TickHeartbeatLate`, `HoldReadings`, `LeaseAnswers` | `_beat` and `_read_cluster_hold` swallow a timeout on a connection whose answers are matched by order |
| `RecordMaster` … `PostStartHooks`, `RecordBackup`, `StopHA` | the commands of `notify_master.sh` and `notify_backup.sh`, one step each; `StopFirst` is the stop with which a warm promotion that swaps files begins |
| `ScriptFails`, `NotifyTimesOut` | `set -e`, and `_run_notify_script`'s timeout |
| `IntegrationResolves` | `leadership._from_lease` |
| `ContainerStops` | SIGTERM: `_on_stop` hands the lease back unless held |
| `SetOrClear…`, `RequestHandover`, `WithdrawHandover`, `PlaceOrRemoveForce`, `Adopt` | the operators |
| `Boot` | tmpfiles.d: BACKUP; the hold-down and force-master gone with `/run` |
| `Advance` | ten seconds pass; every live promoter has ticked, no probe is out and no script is past its timeout |

Time is counted in promoter periods of 10 s; ages and time-outs are counters capped
at the largest value a guard compares them with. `Cold` chooses the topology,
`Fileset` whether a promotion swaps the leader's files in, `LeaseSource` whether the
integration's leadership source is the lease, and `Disturbances` what operators and the environment may do in an instance. The history
variable `sinceRelease` appears in no guard.

`LeaseLock` is the abstract specification: an owner that changes only through
"free" or an armed override and never becomes a barred node. `ClusterPromoter`
implements it with `owner <- holder`, `barred <-` the nodes in a hold or holding
down, `armed <-` the nodes with force-master (`ElectionIsALock`).

`SnapshotSync` is the shared snapshot: for each node its Home Assistant's life, its
states (which the mirror follows), what RestoreEntity has on disk, the mirror's two
revisions, the restore gate and the flushes in flight; and the snapshot itself, an
author and a value per entity. A value is the number of the change that made it.

| Model | Code (`__init__.py` unless named) |
|---|---|
| `ScheduledFlush`, `ServiceFlush`, `StopBegins`, `Unloads` | the four callers of `async_flush`: the timer, the service, `_on_stop`, `async_unload_entry`; each with the checks it makes |
| `Captures`, `FlushReturns`, `FlushFails` | `async_flush` before and after its await |
| `SnapshotWritten` | `backend.write_snapshot`: one MULTI |
| `StateChanges` | `_on_state_changed` and `record`, one callback |
| `Starts`, `RestoreReads`, `RestoreApplies`, `GateOpensAnyway` | `async_setup_entry`, `_restore_from_snapshot`, the gate and its timeout |
| `Reloaded` | the entry set up in a Home Assistant that is running |
| `Ends`, `Crashes`, `StopEnds` | the process goes: mirror, gate and flights with it |
| `LeaseMoves` | the election, whose guarantees `ClusterPromoter` checks |

The history variable `owed` is what the last acknowledged flush of a restored node
published. `Disturbances` names what the properties do not survive: a stop or a
service call before the restore (`early`), a boot faster than the old leader's stop
(`quick`), a cold node that docker restarts although it does not lead (`respawn`), a
read that fails (`unread`), a snapshot past `restore_max_age` (`idle`).

`GoBag` is the go-bag between two nodes: each node's tree, its publisher's memory of
its last two generations, the publishes on their way, the manifest and the bodies in
Valkey, what a pull has read and what it staged. A publish is as many steps as it has
awaits and file accesses. `Passes` is how many publishes of a node may be on their way
at once: nothing in the code bounds it, and section 5 says what two of them do.

| Model | Code |
|---|---|
| `FileStats`, `FileReads`, `ScanEnds`, `ScanFails` | `fileset.scan` and `async_publish` around it: a file may go or change between its stat and its read |
| `BlobsStored`, `ManifestStored` and their failures | `backend.write_fileset`: bodies, then manifest, each perhaps executed though its answer is lost |
| `PruneScans`, `PruneDeletes`, `PruneFails` | `backend.prune_blobs` with `Keeps`, two generations |
| `PullReads`, `PullStages`, `PullFails` | `fileset_pull.py`: the manifest, then one MGET of the bodies |
| `Promoted`, `Fresh`, `GoesDown`, `ComesUp` | a promotion installs what is staged and restarts Home Assistant; a publisher starts with no memory |

`GoBagSwap` is one node's promotion: `cluster-fileset-pull.sh`'s renames,
`notify_master.sh` with `cluster-fileset-swap.sh` command by command, and what Home
Assistant has loaded beside what is on disk. A tree is its generation, whose config
entry it carries and whose list of missing radios. `Promotes`, `ScriptStops`,
`SwapOpens`, `IdentityCaptured`, `StorageCopied`, `StorageAside`, `StorageRenamed`,
`IdentityRestored`, `StorageOwned`, `EntryInstalled`, `RestDone`, `SwapCloses`,
`Preflight`, `ScriptStarts`, `ScriptEnds` follow the scripts in their order; `mark()`
is `Marks`. `Topologies` chooses cold and warm, and `Disturbances` what may fail: a
copy, a tool, a chown or a `docker start` (`failures`), a `docker stop` (`stopfault`), a
rename into place (`mvfault`), a rename out of the way (`asidefault`), whose exit code
no script looks at.

`StatisticsSync` has for each node its recorder, the store beside it, a seed, which of
the two files is newer and Home Assistant's schema; and the window, the follower's
status and the leader's repairs. `Publishes` is a pass of `async_publish` with
`_surface_follower_status` (`Hears`), `PullApplies` is `apply_window` (`Base`: seed,
store, or a rebuild; `Finds`: the refusals; `IsGap`), `HandsOver` is step 5b of the
swap, `Promotes` and `Demotes` move the leader.

`Integration` is one node's integration through boots, restarts, crashes, reloads and
removals of its entry. It extends three components that share its steps:

* `MaintenanceHold`: the flag file and the key in the store, as `hold.py`, the
  hold calls of `backend.py`, the switch and `cluster-hold.sh` change them; the lease
  as far as a hold is about it; the promoter and the peer by what they do to them;
* `ServiceGate`: what is off, what the gate remembers it switched off, the calls that
  are out and how they end;
* `AlertRouter`: active conditions, waiting pushes, recent words, and what the phone
  was last told of each.

`Integration` itself has the steps of `async_setup_entry`, `_on_stop` and
`async_unload_entry`, each of which awaits between its steps, and the timers and
watchers beside them (`FlushTick`, `ViewPolled`, `HealthPolled`, `IngressProbed`,
`RadioChecked`). `StopHolds`, `StopPublishes`, `StopChecks` and `StopReleases` are the
lines 1710–1747 of `_on_stop`; `KeepsLease` is `_RELOADING`; `Rebuilt` is `_ALERT_STATE`.

`MCClusterPromoter` adds the symmetry of the nodes and a view without history
variables; the other MC modules name their instances. `ClusterPromoterProofs`,
`OneLeaderProofs`, `SnapshotSyncProofs`, `SnapshotSurvivalProofs`, `GoBagProofs`,
`GoBagSwapProofs`, `StatisticsProofs` and `IntegrationProofs` hold the theorems.

Definitions commented `Faulty` are single plausible errors in the definition below
them; nothing of the specification uses them. Each property is known to fail when
one of them takes that definition's place.

### Abstractions

* A tick that needs no probe is one step up to the notify script: the round trip between
  its read of the holds and the lease script is not divided. A tick that probes is
  divided there, so that a hold, an override, a cut link or a stop may fall between.
* The D3 probe and the container's inspection answer by what `ha` is at the moment of the
  lease script; the probe succeeds exactly when Home Assistant is `serving`. A probe ends
  in the period it began in, although with docker's patience it may take 15 s.
* When the container started is not kept: outside `restarting`, extending the grace
  below its ceiling (`MayExtend`) is a free choice.
* `notify_fault.sh` and the state `FAULT` are not run by the promoter and are left out.
* In `ClusterPromoter`, swap, hooks, pre-flight and firewall are part of a script's
  step, and a hold is there or not; `GoBagSwap` and `MaintenanceHold` have the detail.
  There, the integration ignores the deadline in the local file (`is_held`) and the
  promoter honours it (`PromoterHeld`).
* In `SnapshotSync` every tracked entity is restored or skipped as a whole: filters,
  budgets, signatures and time stamps per entry are data. The services that restore
  some domains count as immediate. Leadership is the lease; the check and the
  capture after it are one step, since a lease that moves in between leaves the same
  flight behind. A write that timed out has executed or never will.
* In `GoBag` a change has a modification time of its own (no two within the file
  system's resolution), bodies have equal sizes, and a reference is its body: hashing and sealing are
  taken to be injective. Which paths are scanned is data.
* In `GoBagSwap` the pull's body is fetched whole or not at all (`GoBag` has why), and
  the directories and files other than `.storage` are members of `Others`.
* In `StatisticsSync` a row is its hour, and a merge by natural keys a union; a pass of
  the publisher is one step, since only the leader writes the window.
* In `Integration` a service call is out until it is answered, and a condition is
  there or not; the texts of holds, pushes and repairs are left out.
* Two clocks that disagree are not modelled: every age is measured on one host.

## 3. The runs

Two nodes everywhere: that is what the program supports. The timings are scaled down,
since the interesting cases are which of two deadlines comes first. The code has lease
TTL 30 s < base grace and notify timeout 120 < reconcile grace and wait for Home
Assistant 180 < probe ceiling 600 < hold-down 900. `PromoterFaults` and
`LateReplyPromotes`, where scripts, graces and leases meet, keep exactly this order (2 <
3 < 4 < 5 < 6); the others let neighbours coincide, but keep the ceiling above the base
grace, so that a grace is extended and the extension ends. (`PromoterLive` has a hold-down
of 2 below a ceiling of 3: no guard compares these two.) In all of them a notify script
may outlast the lease, as it may in the code. The theorems hold for all timings.
`sinceRelease` is in no guard, so the runs whose properties do not name it take a view
without it.

| Run | Instance | Shows |
|---|---|---|
| `PromoterFaults` | cold; the strict timings above; power, wedge, crash, docker failures, handover; view without `sinceRelease` | `TypeOK`; `OneLiveMaster`; `HealthyLeaderKeepsLease` |
| `PromoterOperators` | cold; hold-down and ceiling 3, all else 2; hold, force, adopt, lost answers, a forced claim whose note cannot be written | `HolddownHonoured`; `HoldFreezesRoles`; `OnlyTheHolderPromotes`; `ElectionIsALock` with seizures |
| `PromoterUnreliable` | cold; ceiling and hold-down 3, all else 2; partitions, unwritable files, docker commands by hand, handover, lost answers, stalled server; view without `sinceRelease` | `ElectionIsALock`: whatever goes wrong around it, the lease itself stays a lock |
| `PromoterWarm` | warm with a fileset, integration on the lease; TTL and graces 2, all else 3; wedge, power, hold, docker failures; view without `sinceRelease` | `HoldFreezesRoles` with two parties on one identity; `HealthyLeaderKeepsLease` beside promotions that stop their own Home Assistant |
| `SnapshotCarried` | `FairSnapshotSpec`, cold; 1 entity, 2 changes, 1 flush in flight per node; crashes, stops, reloads, outages, slow boots | `SnapshotTypeOK`; `CleanMeansWritten`; `PublishedStateSurvives`; `ChangesReachTheStore` |
| `PromoterLive` | `FairSpec`, cold; ceiling 3, all else 2; power, wedge, docker failures; view without `sinceRelease` | `WedgedLeaderLetsGo`; `FreeLeaseIsTaken`; `HolderPromotes`; `StragglerStops` |
| `SwapPromotes` | `FairSwapSpec`, cold and warm; 1 entry beside `.storage`, 2 generations; `failures`, `stopfault`, `mvfault` | `SwapTypeOK`; `NeverRunsAsThePeer`; `HoldsItsFiles`; `MarkerTellsTheTree`; `ListsItsOwnHardware`; `PromotionReachesTheStart` |
| `GoBagTravels` | `FairGoBagSpec`; 2 nodes, 1 pass each, 1 file, 2 bodies, 1 change, 2 promotions, 1 error, crashes at will | `GoBagTypeOK`; `ManifestFetchable`; `PublisherKnowsTheStore`; `StandbyCatchesUp`; `GarbageGoes` |
| `StatisticsFailover` | `FairStatisticsSpec`; 2 nodes, 3 hours, a window of 1, 2 terms, 1 error | `StatisticsTypeOK`; `StoreIsContiguous`; `PromotionKeepsHistory`; `FollowerCatchesUp` |
| `StatisticsUpgrade` | the same with 2 schemas, 1 hour, 1 term, a patience of 2 passes | `RepairsTellTheTruth` |
| `HouseStays` | one node; 5 conditions, 1 gated layer, 2 lives, 2 acts of persons, promoter or peer, 1 fault, 1 failing call | `PhoneAgrees`; `OperatorHoldStands`; `HouseStaysPut`; `GateUndoesItsWork` |
| `LateReplyPromotes` | cold; the strict timings; a stalled server and nothing else | the violation below |

Fairness (`Fairness`): time advances, the timer fires, a script's next command
runs, a container boots or respawns, a host comes back. All of it is weak except
`StartHA` and `StopHA`, which a docker failure may interrupt again and again: docker
must succeed at least now and then. Nothing is assumed of operators, wedges or crashes.

`SnapshotFairness` is weak for the flush timer and the boot's restore, and strong
for a write reaching the server and its answer coming back: an outage may interrupt
them again and again, but not every time. Two changes suffice: properties compare two
versions of an entity, an older one published over a newer, and the entities of a map
travel together.

`FairSwapSpec` says that a script that runs goes on to its next command,
`FairGoBagSpec` that publisher and pull of each node go on (their timers fire),
`FairStatisticsSpec` that the publisher's interval fires; `FollowerCatchesUp` and
`RepairsTellTheTruth` name the fairness of the standby's timer as a premise, because a
standby that is silent is one of their cases. All of it is weak.

The bounds of the newer runs are the least at which their cases happen: two bodies to
have an old and a new one, two promotions to come back to a node that led before, one
error because a publish or a pull starts over after it, three hours so that a window
of one hour can leave one out, two lives for what one leaves behind for the next. One
file suffices in `GoBagTravels` since bodies are shared through the store by their
contents; the two safety theorems hold for any number. In `PromotionKeepsHistory` three
terms were tried without disturbances and hold too.

Deadlock is checked in the election's runs, in `SnapshotCarried` and in `HouseStays`.
It is off where a bound may end everything: no change left to make or no hour to pass.

### Where the code and its words differ

`LateReplyPromotes` ends in a violation of what a docstring says (quoted in
`findings`): after a stall of the server, the answer of the hold's GET or of the
heartbeat is read as the lease script's, and a standby runs `notify_master.sh`
without the lease.

## 4. The proofs

For any set of nodes and any timings that satisfy the named assumptions:

| Theorem | Assumes | Argument |
|---|---|---|
| `TypeCorrect` | nothing | one case per action |
| `RefinesLock` | `InStep`, no `LeaseSource` | every step that changes `holder` is `Take`, `Seize` or `Vacate` |
| `HoldFreezes` | `InStep` | with `TypeOK`: each action either starts no script or is disabled by the hold |
| `PromotionNeedsTheLease` | `InStep` | only `TickLease` starts a promotion unforced, and only when granted |
| `HolddownIsHonoured` | `Durable` | inductive invariant `MarkerCovers` |
| `OneLeader` | `Orderly`, `PromotesInHand` | inductive invariant `LeadsWithLease` |
| `HealthyLeaderStays` | `InReach` | inductive invariant `KeepsPace` |
| `SnapshotTypeCorrect` | nothing | inductive invariant `SnapshotInv` |
| `CleanIsWritten` | `OneFlush` | `MirrorInv`: what a flight carries, by its revision and by whether it was written |
| `PublishedSurvives` | `OneFlush`; `OnlyOutages` (cold, no disturbance) | `SurvivalInv`: who may write when, and what each node holds of what is owed |
| `SwapTypeCorrect` | nothing | one case per command |
| `SwapKeepsIdentity` | no `kill`, no `asidefault` | `IdentityInv`: the peer's entry is on disk only between the rename and the graft |
| `SwapSparesARunningHA` | no `blind` | `LoadedInv`: from capture to close the container is down |
| `SwapMarksTheTruth` | no `kill`, no `overlap`, no `asidefault` | `MarkerInv`: what each step of the swap has installed, and which reason is marked |
| `SwapListsOwnHardware` | no `kill`, no `preflightfault` | `HardwareInv`: from the second rename to the pre-flight the peer's list is on disk, under a Home Assistant that is down or has its own to write |
| `GoBagTypeCorrect` | nothing | one case per action |
| `StandbyCanAlwaysPull`, `PublisherIsRight` | `OnePublish`, no `deposed`, no `warm` | `BagInv`: what is known of a publish at each of its awaits, and that only the leader has one |
| `StatisticsTypeCorrect` | nothing | with it, that a running Home Assistant has a recorder |
| `HistoryIsKept` | no disturbances, one schema | `HistoryInv`: a store is a standby's, not behind its recorder and the newer file |
| `StoresAreContiguous` | the same, and a pair (`TwoNodes`) | `RowsInv`: what a seed, a store and the window have of the peer's rows, and what a new peer has not yet |
| `IntegrationTypeCorrect` | nothing | `Control`: where a coroutine stands and why |
| `HoldIsAPersons` | no `remote`, `apart`, `race` | `HoldSafe`: what is known of file and key at the steps that overwrite or delete |
| `HouseIsNotMoved` | no `race`, `early` | `LeaseSafe`: no step that releases is reached with a file in place |
| `GateGivesBack` | no `race` | `GateSafe`: a remembered layer is off, and after a restore its call is out |
| `PhoneHearsTheEdges` | no `flap`, no `early`, the all-clears chosen; `[]QueueHasRoom` | `HeldWhileStarting`, `EdgesAreAnnounced`: where pushes may wait, and which edges were not said lately |

`InStep` says no answer comes late; `Durable` that the marker survives (no power
loss, no unwritable file, no `LeaseSource`); `Orderly` limits disturbances to power,
wedge, crash, docker failure and handover; `PromotesInHand` that a promotion does not
stop its own Home Assistant (cold, or no fileset); `InReach` excludes partitions,
adoption, and a force whose claim may be lost. None of them speaks of timings: a script
may run for any number of TTLs.

`HolddownHonoured` is not inductive: it speaks of the history and not of the file.
`MarkerCovers` ties them: while fewer than `HoldDown` periods have passed since the
release, the marker has at least the rest left, and the state file does not say
MASTER unless the demotion is about to record BACKUP. `OneLiveMaster` is not
inductive either: nothing in it says why a second node cannot take the lease.
`LeadsWithLease` adds it: a live leader holds the lease with what its own clock leaves
of the TTL, or its clock has run for a whole TTL, or it is on its way to record BACKUP.
The second case is in the property too (`ToldOrOverrun`): the notify timeout is four
TTLs, so a promotion that takes long loses the lease while it runs, and until its next
tick the two nodes lead together. What `OneLiveMaster` says is that nothing else does
that. `HealthyLeaderKeepsLease` has the same clock on the other side: a leader whose last
tick is less than a TTL ago. `KeepsPace` says that such a leader's tick renewed.

`SnapshotTypeOK` says among others that a mirror's flushed revision never passes its
revision. That is not inductive: a flush that returns sets the first to what it
captured. `SnapshotInv` adds that no flight carries a revision its mirror has not
reached, and that the revisions are zero when the process is gone.

`OnePublish` says that a node has one publish on its way, as `OneFlush` does for
flushes; nothing in the code sees to either (section 5). `ManifestFetchable` is not inductive: a prune deletes what it found before, so `BagInv`
adds that nothing doomed is kept, that a publish's entries are in the last generation
or among the bodies it stored, and that only the leader has a publish on its way.
`MarkerTellsTheTree` speaks of one moment, the start; `MarkerInv` says for each command
before it what is installed so far. `PromotionKeepsHistory` needs to know of a store
what it was rebuilt from, several steps before a promotion installs it.

`CleanMeansWritten` needs to know what flights carry before they land: `MirrorInv` says
that a flight is ahead of what is marked clean, carries the mirror's states if its
revision is the mirror's, and, once written, is what the snapshot has in the node's name.
With two flights in a node's slots this breaks, and TLC shows it; nothing in the code
sees to `OneFlush`, which is therefore an assumption. `PublishedStateSurvives` speaks of
the snapshot alone, so a write that is about to land is unknown to it. `SurvivalInv`
adds whose turn it is to write (`TurnInv`), that no value is newer than the last change
(`InPast`), and for each node (`Keeps`) that what it read is still there when it applies
it, that what it skips as its own is owed no more, and that a restored node's states and
flight are at least what is owed.

`StoreIsContiguous` compares a store with its leader, and a seed can be taken long before
the term in which it counts: `RowsInv` says of every seed what it has of the other
node's rows. That is where the pair is used. With three nodes and three terms TLC finds
a store seeded from an earlier leader under one whose rows the earlier one never had; a
pair is what the program supports. That a finite set of hours has a newest is proved from
the well-foundedness of strict inclusion, since induction is out of reach.

`PhoneAgrees` is not inductive because it forgets what waits for what: an edge that was
said within `ALERT_MIN_INTERVAL` is not said again, so `EdgesAreAnnounced` adds that an
edge still to be found was not; and a setup, a reload and a removal drop what waits, so
`HeldWhileStarting` adds that nothing does then. Every hypothesis is needed: TLC violates
`PhoneAgrees` with `flap` and two faults, with `early`, without the all-clears, and with
room for one push. `[]QueueHasRoom` is about the behaviour and not the constants, since
nothing in the code bounds how many edges come while Home Assistant starts; every state
of `HouseStays` satisfies it. `race`, `remote` and `apart` are allowed.

The names in the column "Assumes" are the disturbances of section 5, which says what TLC
finds when one of them is allowed.

Every invariant and every action property of a run is stated by a theorem. What stays
with TLC: liveness under fairness, with `RepairsTellTheTruth`, which is a property of
that kind; and the combinations of disturbances the assumptions leave out.
`IntegrationTypeOK` is proved and is in no run.

## 5. Known limits of the code that the models show

Each was seen as a counterexample of TLC with the disturbance or bound named.

Election. A partition makes two live masters until the old leader reaches the server
again (it can neither renew nor learn that it lost the lease): `OneLiveMaster` is
claimed without partitions. An operator's `docker restart` of the leader hands the
lease back, so both nodes are live until the old leader's next tick. A reboot ends a
hold-down. A heartbeat answered late is read as a cluster-wide hold for one tick. A
handover requested on a follower stays on disk and gives away the lease of a later
term. A notify script may take `NOTIFY_TIMEOUT_SECONDS` (120) while the lease lives 30
s, and no tick renews meanwhile: a cold boot that takes longer than the TTL lets the
peer promote, and both nodes lead until the first one's next tick. That is the exception
`ToldOrOverrun` in `OneLiveMaster`; without it TLC violates the property in
`PromoterFaults`. A hold set during such an overrun keeps both, since a held node demotes nobody:
`OneLiveMaster` is not claimed with holds. In the warm topology with a fileset
`notify_master.sh` stops the Home Assistant it promotes (bundle.py:984–1015, 1088), whose
`_on_stop` hands back the lease the promotion was made on (`__init__.py`:1746): the peer
may take it while this node says MASTER, with no overrun and nothing failing, so
`OneLiveMaster` is not claimed there either. `force-master` does nothing while Valkey
is unreachable, because `main()` connects (cluster_promoter.py:1590) before `run()`
looks at it. In the warm topology the
integration (leadership.py:135) takes back what a handover released, hold-down or not.
A hold set while a leader is at its probe does not stop that tick: it may still release
the lease and start its demotion, or renew. A release whose answer is lost leaves no
marker, so `HolddownHonoured` counts no hold-down from it.

Snapshot. `PublishedStateSurvives` fails if a flush is sent before the restore, as a
stop or the flush service may (`early`), if the old leader's last write, which nothing
fences, lands after the new one's restore (`quick`), if docker restarts the container of
a cold node that lost the lease beside the new leader (`respawn`), if the restore cannot
read (`unread`), if the leader was idle for longer than `restore_max_age` (`idle`), and if
two flushes of a node overlap (`Slots` with two members), since nothing serialises
them. Unloading the entry flushes without asking who leads (__init__.py:2130), so a
reload on a warm standby replaces the leader's snapshot.

Swap. Killed between the rename and the graft (`kill`), the next start runs on the
peer's config entry, and a killed swap leaves a marker of the time before. The renames
that take a tree out of the way are not checked (`asidefault`): after a failed `mv` of
`.storage` to `.storage.previous` (bundle.py:1684) the next one moves the new tree into
the old and returns 0, so the swap reads as clean over the old tree and removes the
marker; and a rollback that cannot move the grafted tree to `.rejected` (1717–1720)
leaves the peer's tree live, on which Home Assistant starts: `NeverRunsAsThePeer` and
`MarkerTellsTheTree` are violated. `rm -rf` is taken to work. A pull that
runs beside a swap (`overlap`) makes the marker wrong. When docker inspect cannot
answer (`blind`) the swap goes ahead under a running Home Assistant. A pre-flight that
fails (`preflightfault`) leaves the peer's list of missing radios. A swap that finds
the container running calls `mark` (bundle.py:1566) before it is defined (1580): that
path is never marked, and `MarkerTellsTheTree` does not judge it.

Go-bag. Nothing serialises `async_publish`: the interval re-arms before its job runs
(`__init__.py`:609–656), a first pass is delayed into it, and a reload leaves the old
publisher's publish on its way. With two passes in `Passes` TLC violates
`ManifestFetchable`, `PublisherKnowsTheStore` and `StandbyCatchesUp`: one pass has stored
a body that it has not named yet, the other, whose scan found the file gone or different,
publishes and prunes it, and the first one's manifest names what is not there, against
backend.py:322–324 ("a reader must see … every blob it references already present").
The body is not written again until its file changes. If leadership moves inside a
publish (`deposed`), the old leader's prune deletes bodies of the new one's manifest. If a node leads again without a restart of
its Home Assistant (`warm`), its publisher goes by a generation that the peer has
pruned, and publishes a manifest whose bodies are gone until those files change.

Statistics. History is lost when a swap ends before the hand-over (`degraded`) in a later
term than the store was made in, when the `mv` of the store fails (`installfault`), when a
node with history of its own is seeded again (`reseed`), when a seed arrives just before a
promotion (`lateseed`), and when versions differ over three terms. With a third node a
seed of an earlier leader is taken for the leader's (section 4). A gap is not
looked for when the store is empty. After a mismatch the standby's store keeps its
schema, so replication does not resume with the next pull once both versions
agree, as docs/TROUBLESHOOTING.md:356–359 has it, but with a new seed or a promotion.

Hold. `publish_cluster_hold` is a plain SET (backend.py:887), and `set_auto_hold` looks
only at the local file: a restarting leader overwrites a person's cluster-wide hold that
is not in its own file (`remote`, `apart`), and its next boot deletes it. A person who acts
between two steps of a stop, boot or unload (`race`) loses a hold too, and a release that was
checked before goes ahead. An entry reloaded while Home Assistant starts (`early`) may
leave the lease to the peer. A boot clears the peer's automatic hold as its own; a
store that is down at the stop lets the peer promote during the restart.

Gate and alerts. The gate's memory goes with the process. An unload begun while a call
is out (`race`) can leave a layer off. A condition that comes or goes twice within
`ALERT_MIN_INTERVAL` (`flap`), a full queue, or a reload before Home Assistant has
started (`early`), which drops the pushes that wait, leaves the phone with a wrong last
word; a removal orphans its cards.

## 6. Not modelled

Rendering of scripts and firewall rules, forms, panel, entities and diagnostics: no
behaviour over time. Encryption and signatures: pure functions on bytes. The recorder
snapshot: a periodic copy that no failover step depends on. Of the components marked
`partly`: `notify_fault.sh`, the RESP parser, TLS and AUTH, the `always` and `entity`
sources of leadership, per-entity filters and budgets of the restore, the removal of
the entry or of entities from the mirror, and what in the pre-flight is data.

What would come next: `SnapshotSync` composed with `Integration`, whose stop and unload
flush it abstracts, and an abstract specification of the snapshot, of which the mirror,
its flights and the restore gate are an implementation.
