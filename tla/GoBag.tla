------------------------------- MODULE GoBag -------------------------------
(***************************************************************************)
(* The go-bag on its way from the leader to the standby.  The leader's     *)
(* publisher scans the configuration tree, writes each new body to Valkey  *)
(* under a reference that is a hash of it, then a manifest that names      *)
(* them, and then deletes the bodies that neither this manifest nor the    *)
(* one before it names.  A body of an unchanged file is not written again: *)
(* the publisher takes its own last manifest for what the store holds.     *)
(* Nothing keeps a publish from starting while another of the same node is *)
(* on its way: the timer is set again before its job runs, so one that     *)
(* outlasts the interval meets the next.                                   *)
(* The standby's pull reads the manifest, then the bodies, and stages the  *)
(* tree whole or not at all; a promotion installs it (see GoBagSwap).      *)
(***************************************************************************)
EXTENDS Integers

CONSTANTS
    Nodes,          \* the node ids
    NoNode,         \* nobody leads
    Passes,         \* bound: the publishes a node may have on its way at once
    Files,          \* the paths in the replicated roots
    NoFile,         \* none of them
    Bodies,         \* what a file may contain, all of one size and mode
    Gone,           \* the file does not exist
    MaxChanges,     \* bound: changes of files
    MaxMoves,       \* bound: promotions
    MaxErrors,      \* bound: errors of a scan, a write, a prune or a pull
    Disturbances    \* what may go wrong beyond errors, crashes and lost answers

\* deposed: leadership moves while the old leader's publish is on its way;
\* warm: a node comes to lead without its Home Assistant being restarted.
GoBagKinds == {"deposed", "warm"}

ASSUME GoBagAssumption ==
    /\ NoNode \notin Nodes
    /\ NoFile \notin Files
    /\ Gone \notin Bodies
    /\ MaxChanges \in Nat
    /\ MaxMoves \in Nat
    /\ MaxErrors \in Nat
    /\ Disturbances \subseteq GoBagKinds

VARIABLES
    leader,     \* the node that leads
    moves,      \* how many promotions there have been
    errors,     \* how many errors
    up,         \* Home Assistant, and with it the publisher
    tree,       \* each node's configuration directory
    clock,      \* the last change's modification time
    cur,        \* FilesetPublisher._current
    prev,       \* FilesetPublisher._previous
    job,        \* the publish on its way at each node
    manifest,   \* fileset:manifest
    blobs,      \* the references under fileset:blob
    pulling,    \* the manifest a pull has read
    staged      \* what the last good pull staged

treeVars == <<tree, clock>>
publisherVars == <<cur, prev>>
storeVars == <<manifest, blobs>>
pullVars == <<pulling, staged>>
goBagVars == <<leader, moves, errors, up, treeVars, publisherVars, job, storeVars, pullVars>>

Times == 0..MaxChanges
Content == Bodies \cup {Gone}

\* A path's modification time and contents, or its entry in a manifest.
Entries == [mtime : Times, body : Content]
Missing == [mtime |-> 0, body |-> Gone]
Trees == [Files -> Entries]
EmptyTree == [f \in Files |-> Missing]

\* What a manifest says of the contents.
Manifests == [Files -> Content]
NoManifest == [f \in Files |-> NoFile]
ManifestOf(t) == [f \in Files |-> t[f].body]

\* The references of a tree's files.
Refs(t) == {t[f].body : f \in Files} \ {Gone}
RefsOf(m) == {m[f] : f \in Files} \ {Gone, NoFile}

Stages == {"idle", "scan", "blobs", "manifest", "prune", "delete"}

\* prior: the generation the scan compares with; todo: paths to scan; reading: one between
\* its stat and its read, and what the stat said; entries, bodies: the ScanResult; keep: what
\* the prune is told to keep; doomed: what it found.
Jobs == [at : Stages, prior : Trees, todo : SUBSET Files, reading : Files \cup {NoFile},
         seen : Times, entries : Trees, bodies : SUBSET Bodies, keep : SUBSET Bodies,
         doomed : SUBSET Bodies]
NoJob == [at |-> "idle", prior |-> EmptyTree, todo |-> {}, reading |-> NoFile, seen |-> 0,
          entries |-> EmptyTree, bodies |-> {}, keep |-> {}, doomed |-> {}]

GoBagTypeOK ==
    /\ leader \in Nodes \cup {NoNode}
    /\ moves \in 0..MaxMoves
    /\ errors \in 0..MaxErrors
    /\ up \in [Nodes -> BOOLEAN]
    /\ tree \in [Nodes -> Trees]
    /\ clock \in Times
    /\ cur \in [Nodes -> Trees]
    /\ prev \in [Nodes -> Trees]
    /\ job \in [Nodes -> [Passes -> Jobs]]
    /\ manifest \in Manifests \cup {NoManifest}
    /\ blobs \subseteq Bodies
    /\ pulling \in [Nodes -> Manifests \cup {NoManifest}]
    /\ staged \in [Nodes -> Manifests \cup {NoManifest}]

GoBagInit ==
    /\ leader = NoNode /\ moves = 0 /\ errors = 0
    /\ up = [n \in Nodes |-> FALSE]
    /\ \E b \in Bodies : tree = [n \in Nodes |-> [f \in Files |-> [mtime |-> 0, body |-> b]]]
    /\ clock = 0
    /\ cur = [n \in Nodes |-> EmptyTree] /\ prev = cur
    /\ job = [n \in Nodes |-> [p \in Passes |-> NoJob]]
    /\ manifest = NoManifest /\ blobs = {}
    /\ pulling = [n \in Nodes |-> NoManifest] /\ staged = pulling

------------------------------------------------------------------------------
(* The scan. *)

Doing(n, p, stage) == up[n] /\ job[n][p].at = stage
Error == errors < MaxErrors /\ errors' = errors + 1
Goes(n, p, j) == job' = [job EXCEPT ![n][p] = j]
JobEnds(n, p) == Goes(n, p, NoJob)

\* The leader's Home Assistant, or its operator, writes or removes a file.
FileChanges(n, f) ==
    /\ leader = n /\ up[n] /\ clock < MaxChanges
    /\ clock' = clock + 1
    /\ \E b \in Content \ {tree[n][f].body} :
          tree' = [tree EXCEPT ![n][f] = [mtime |-> clock', body |-> b]]
    /\ UNCHANGED <<leader, moves, errors, up, publisherVars, job, storeVars, pullVars>>

\* _scheduled_fileset: only when leading.  async_publish takes no lock.
PublishBegins(n, p) ==
    /\ leader = n /\ Doing(n, p, "idle")
    /\ Goes(n, p, [NoJob EXCEPT !.at = "scan", !.prior = cur[n], !.todo = Files])
    /\ UNCHANGED <<leader, moves, errors, up, treeVars, publisherVars, storeVars, pullVars>>

\* Faulty: size and mode are enough, and here no body differs in them.
SizeIsEnough(prior, t) == prior.body # Gone

\* rsync's quick check, with the modification time.
Unchanged(prior, t) == prior.body # Gone /\ prior.mtime = t.mtime

\* A path is listed and gone by its stat, or unchanged, or to be read.
FileStats(n, p, f) ==
    /\ Doing(n, p, "scan") /\ job[n][p].reading = NoFile /\ f \in job[n][p].todo
    /\ LET now == tree[n][f]
           was == job[n][p].prior[f]
           rest == [job[n][p] EXCEPT !.todo = @ \ {f}] IN
          \/ now.body = Gone /\ Goes(n, p, rest)
          \/ /\ now.body # Gone /\ Unchanged(was, now)
             /\ Goes(n, p, [rest EXCEPT !.entries[f] = was])
          \/ /\ now.body # Gone /\ ~Unchanged(was, now)
             /\ Goes(n, p, [rest EXCEPT !.reading = f, !.seen = now.mtime])
    /\ UNCHANGED <<leader, moves, errors, up, treeVars, publisherVars, storeVars, pullVars>>

\* The entry has the time of the stat and the contents of the read, which may be newer.
\* A file gone since its stat fails the publish.
FileReads(n, p) ==
    /\ Doing(n, p, "scan") /\ job[n][p].reading # NoFile
    /\ LET f == job[n][p].reading
           now == tree[n][f].body IN
          \/ now = Gone /\ JobEnds(n, p)
          \/ /\ now # Gone
             /\ Goes(n, p, [job[n][p] EXCEPT !.reading = NoFile, !.seen = 0,
                            !.entries[f] = [mtime |-> job[n][p].seen, body |-> now],
                            !.bodies = @ \cup {now}])
    /\ UNCHANGED <<leader, moves, errors, up, treeVars, publisherVars, storeVars, pullVars>>

\* Faulty: the manifest goes out with the scan, ahead of the bodies.
ManifestFirst(n, p) ==
    /\ Doing(n, p, "scan") /\ job[n][p].todo = {} /\ job[n][p].reading = NoFile
    /\ Goes(n, p, [job[n][p] EXCEPT !.at = "blobs"])
    /\ manifest' = ManifestOf(job[n][p].entries)
    /\ UNCHANGED <<leader, moves, errors, up, treeVars, publisherVars, blobs, pullVars>>

\* Every path has been looked at.
ScanEnds(n, p) ==
    /\ Doing(n, p, "scan") /\ job[n][p].todo = {} /\ job[n][p].reading = NoFile
    /\ Goes(n, p, [job[n][p] EXCEPT !.at = "blobs"])
    /\ UNCHANGED <<leader, moves, errors, up, treeVars, publisherVars, storeVars, pullVars>>

\* FilesetTooLarge, or another error: nothing is published.
ScanFails(n, p) ==
    /\ Error
    /\ Doing(n, p, "scan")
    /\ JobEnds(n, p)
    /\ UNCHANGED <<leader, moves, up, treeVars, publisherVars, storeVars, pullVars>>

------------------------------------------------------------------------------
(* The publish. *)

\* write_fileset: the bodies, in a pipeline that is no transaction.
BlobsStored(n, p) ==
    /\ Doing(n, p, "blobs")
    /\ blobs' = blobs \cup job[n][p].bodies
    /\ Goes(n, p, [job[n][p] EXCEPT !.at = "manifest"])
    /\ UNCHANGED <<leader, moves, errors, up, treeVars, publisherVars, manifest, pullVars>>

BlobsFail(n, p) ==
    /\ Error
    /\ Doing(n, p, "blobs")
    /\ \E part \in SUBSET job[n][p].bodies : blobs' = blobs \cup part
    /\ JobEnds(n, p)
    /\ UNCHANGED <<leader, moves, up, treeVars, publisherVars, manifest, pullVars>>

\* Faulty: the prune keeps no generation to fall back on.
KeepsCurrent(entries, before) == Refs(entries)

\* What a prune is to keep, of the generation just published and the one before it.
Keeps(entries, before) == Refs(entries) \cup Refs(before)

\* ... then the manifest.  Acknowledged, it is what the publisher goes by from now on.
ManifestStored(n, p) ==
    /\ Doing(n, p, "manifest")
    /\ manifest' = ManifestOf(job[n][p].entries)
    /\ prev' = [prev EXCEPT ![n] = cur[n]]
    /\ cur' = [cur EXCEPT ![n] = job[n][p].entries]
    /\ Goes(n, p, [NoJob EXCEPT !.at = "prune", !.keep = Keeps(job[n][p].entries, cur[n])])
    /\ UNCHANGED <<leader, moves, errors, up, treeVars, blobs, pullVars>>

\* An error, with the write executed or not: the publisher goes by its old one.
ManifestFails(n, p) ==
    /\ Error
    /\ Doing(n, p, "manifest")
    /\ manifest' = ManifestOf(job[n][p].entries) \/ UNCHANGED manifest
    /\ JobEnds(n, p)
    /\ UNCHANGED <<leader, moves, up, treeVars, publisherVars, blobs, pullVars>>

\* prune_blobs scans the store, and deletes what it was not told to keep.
PruneScans(n, p) ==
    /\ Doing(n, p, "prune")
    /\ Goes(n, p, [NoJob EXCEPT !.at = "delete", !.doomed = blobs \ job[n][p].keep])
    /\ UNCHANGED <<leader, moves, errors, up, treeVars, publisherVars, storeVars, pullVars>>

\* Faulty: nothing is ever deleted.
PruneForgets(n, p) ==
    /\ Doing(n, p, "delete")
    /\ JobEnds(n, p)
    /\ UNCHANGED <<leader, moves, errors, up, treeVars, publisherVars, storeVars, pullVars>>

PruneDeletes(n, p) ==
    /\ Doing(n, p, "delete")
    /\ blobs' = blobs \ job[n][p].doomed
    /\ JobEnds(n, p)
    /\ UNCHANGED <<leader, moves, errors, up, treeVars, publisherVars, manifest, pullVars>>

\* An error ends the prune, not the publish.
PruneFails(n, p) ==
    /\ Error
    /\ job[n][p].at \in {"prune", "delete"} /\ up[n]
    /\ JobEnds(n, p)
    /\ UNCHANGED <<leader, moves, up, treeVars, publisherVars, storeVars, pullVars>>

------------------------------------------------------------------------------
(* The pull, and the promotion. *)

\* Faulty: the pull goes on without a manifest.
PullReadsNothing(n) ==
    /\ leader # n /\ pulling[n] = NoManifest
    /\ pulling' = [pulling EXCEPT ![n] = IF manifest = NoManifest THEN EmptyTree ELSE manifest]
    /\ UNCHANGED <<leader, moves, errors, up, treeVars, publisherVars, job, storeVars, staged>>

\* A confirmed follower's pull reads the manifest; with none it refuses.
PullReads(n) ==
    /\ leader # n /\ pulling[n] = NoManifest /\ manifest # NoManifest
    /\ pulling' = [pulling EXCEPT ![n] = manifest]
    /\ UNCHANGED <<leader, moves, errors, up, treeVars, publisherVars, job, storeVars, staged>>

\* One MGET finds every body, and the tree is staged.
PullStages(n) ==
    /\ pulling[n] # NoManifest /\ RefsOf(pulling[n]) \subseteq blobs
    /\ staged' = [staged EXCEPT ![n] = pulling[n]]
    /\ pulling' = [pulling EXCEPT ![n] = NoManifest]
    /\ UNCHANGED <<leader, moves, errors, up, treeVars, publisherVars, job, storeVars>>

\* A body is missing, or the store does not answer or the container dies: no change.
PullFails(n) ==
    /\ pulling[n] # NoManifest
    /\ Error \/ (~(RefsOf(pulling[n]) \subseteq blobs) /\ UNCHANGED errors)
    /\ pulling' = [pulling EXCEPT ![n] = NoManifest]
    /\ UNCHANGED <<leader, moves, up, treeVars, publisherVars, job, storeVars, staged>>

\* A publisher starts with Home Assistant and remembers nothing.
Fresh(n) ==
    /\ cur' = [cur EXCEPT ![n] = EmptyTree]
    /\ prev' = [prev EXCEPT ![n] = EmptyTree]
    /\ job' = [job EXCEPT ![n] = [p \in Passes |-> NoJob]]

\* notify_master stops Home Assistant, installs what is staged and starts it again.
Promoted(n) ==
    /\ leader # n /\ moves < MaxMoves
    /\ "deposed" \in Disturbances \/ \A m \in Nodes, p \in Passes : job[m][p].at = "idle"
    /\ leader' = n /\ moves' = moves + 1
    /\ up' = [up EXCEPT ![n] = TRUE]
    /\ tree' = [tree EXCEPT ![n] =
                  IF staged[n] = NoManifest THEN @
                  ELSE [f \in Files |-> [mtime |-> 0, body |-> staged[n][f]]]]
    /\ IF "warm" \in Disturbances /\ up[n] THEN UNCHANGED <<publisherVars, job>> ELSE Fresh(n)
    /\ UNCHANGED <<errors, clock, storeVars, pullVars>>

\* Home Assistant stops or crashes, on any node and at any moment, and starts again.
GoesDown(n) ==
    /\ up[n]
    /\ up' = [up EXCEPT ![n] = FALSE]
    /\ Fresh(n)
    /\ UNCHANGED <<leader, moves, errors, treeVars, storeVars, pullVars>>

ComesUp(n) ==
    /\ leader = n /\ ~up[n]
    /\ up' = [up EXCEPT ![n] = TRUE]
    /\ UNCHANGED <<leader, moves, errors, treeVars, publisherVars, job, storeVars, pullVars>>

ScanSteps(n, p) ==
    \/ PublishBegins(n, p) \/ (\E f \in Files : FileStats(n, p, f))
    \/ FileReads(n, p) \/ ScanEnds(n, p)
PublishSteps(n, p) ==
    BlobsStored(n, p) \/ ManifestStored(n, p) \/ PruneScans(n, p) \/ PruneDeletes(n, p)
PublishErrors(n, p) ==
    ScanFails(n, p) \/ BlobsFail(n, p) \/ ManifestFails(n, p) \/ PruneFails(n, p)
PullSteps(n) == PullReads(n) \/ PullStages(n) \/ PullFails(n)
LifeSteps(n) ==
    \/ (\E f \in Files : FileChanges(n, f)) \/ Promoted(n) \/ GoesDown(n) \/ ComesUp(n)

GoBagNext ==
    \E n \in Nodes :
        \/ \E p \in Passes : ScanSteps(n, p) \/ PublishSteps(n, p) \/ PublishErrors(n, p)
        \/ PullSteps(n) \/ LifeSteps(n)

GoBagSpec == GoBagInit /\ [][GoBagNext]_goBagVars

\* The publisher's and the pull's timers fire, and a job that runs goes on.
FairGoBagSpec ==
    /\ GoBagSpec
    /\ \A n \in Nodes :
        /\ \A p \in Passes : WF_goBagVars(ScanSteps(n, p) \/ PublishSteps(n, p))
        /\ WF_goBagVars(PullSteps(n))

------------------------------------------------------------------------------
(* Properties. *)

\* The bodies the manifest in the store names are there, whatever the publishers of the
\* last leaders did or left undone: a standby can always pull.
ManifestFetchable == RefsOf(manifest) \subseteq blobs

\* What the leader's publisher takes to be in the store is there, so a body it does not
\* write again is not missing: its current generation, and the one to fall back on.
PublisherKnowsTheStore ==
    leader # NoNode => Refs(cur[leader]) \cup Refs(prev[leader]) \subseteq blobs

\* While one node goes on leading, what it last changed reaches the other nodes' staging.
StandbyCatchesUp ==
    \A n \in Nodes :
        <>[](leader = n /\ up[n]) =>
            <>[](\A m \in Nodes \ {n} : staged[m] = ManifestOf(tree[n]))

\* ... and the store keeps no body but those of that tree.
GarbageGoes ==
    \A n \in Nodes :
        <>[](leader = n /\ up[n]) => <>[](blobs = Refs(tree[n]))
==============================================================================
