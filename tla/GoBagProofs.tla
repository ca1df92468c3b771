---------------------------- MODULE GoBagProofs ----------------------------
(***************************************************************************)
(* Proofs about GoBag, for any number of nodes, files and contents.  That  *)
(* the store holds what the manifest names needs to be known of a publish  *)
(* at each of its stages, and that only the leader has one.                *)
(***************************************************************************)
EXTENDS GoBag, TLAPS

LEMMA EmptyRefs == Refs(EmptyTree) = {}
  BY DEF Refs, EmptyTree, Missing

\* A manifest has the references of the tree it is made from.
LEMMA ManifestRefs ==
  ASSUME NEW t \in Trees
  PROVE  RefsOf(ManifestOf(t)) \subseteq Refs(t)
  BY DEF RefsOf, ManifestOf, Refs, Trees

LEMMA EmptyTreeType == EmptyTree \in Trees
  BY GoBagAssumption DEF EmptyTree, Trees, Missing, Entries, Times, Content

LEMMA NoJobType == NoJob \in Jobs
  BY EmptyTreeType, GoBagAssumption DEF NoJob, Jobs, Stages, Times

LEMMA ManifestType ==
  ASSUME NEW t \in Trees
  PROVE  ManifestOf(t) \in Manifests
  BY DEF ManifestOf, Manifests, Trees, Entries

------------------------------------------------------------------------------
(* Types. *)

NodeTypes ==
    /\ leader \in Nodes \cup {NoNode}
    /\ moves \in 0..MaxMoves
    /\ errors \in 0..MaxErrors
    /\ up \in [Nodes -> BOOLEAN]
    /\ tree \in [Nodes -> Trees]
    /\ clock \in Times
StoreTypes ==
    /\ manifest \in Manifests \cup {NoManifest}
    /\ blobs \subseteq Bodies
    /\ pulling \in [Nodes -> Manifests \cup {NoManifest}]
    /\ staged \in [Nodes -> Manifests \cup {NoManifest}]
PublisherTypes ==
    /\ cur \in [Nodes -> Trees]
    /\ prev \in [Nodes -> Trees]
    /\ job \in [Nodes -> [Passes -> Jobs]]

LEMMA Types == GoBagTypeOK <=> NodeTypes /\ StoreTypes /\ PublisherTypes
  BY DEF GoBagTypeOK, NodeTypes, StoreTypes, PublisherTypes

LEMMA TypesPrimed == GoBagTypeOK' <=> NodeTypes' /\ StoreTypes' /\ PublisherTypes'
  BY DEF GoBagTypeOK, NodeTypes, StoreTypes, PublisherTypes

LEMMA TypeInitially == GoBagInit => GoBagTypeOK
<1> SUFFICES ASSUME GoBagInit PROVE GoBagTypeOK
  OBVIOUS
<1>1. NodeTypes
  <2>1. PICK b \in Bodies : tree = [n \in Nodes |-> [f \in Files |-> [mtime |-> 0, body |-> b]]]
    BY DEF GoBagInit
  <2>2. tree \in [Nodes -> Trees]
    BY <2>1, GoBagAssumption DEF Trees, Entries, Times, Content
  <2> QED
    BY <2>2, GoBagAssumption DEF GoBagInit, NodeTypes, Times
<1>2. StoreTypes
  BY DEF GoBagInit, StoreTypes
<1>3. PublisherTypes
  BY EmptyTreeType, NoJobType DEF GoBagInit, PublisherTypes
<1> QED
  BY <1>1, <1>2, <1>3, Types

\* A step of one publish.
LEMMA GoesOn ==
  ASSUME job \in [Nodes -> [Passes -> Jobs]], NEW n \in Nodes, NEW p \in Passes, NEW j,
         Goes(n, p, j)
  PROVE  /\ job'[n][p] = j
         /\ j \in Jobs => job' \in [Nodes -> [Passes -> Jobs]]
<1>1. job[n] \in [Passes -> Jobs] /\ job' = [job EXCEPT ![n] = [job[n] EXCEPT ![p] = j]]
  BY DEF Goes
<1>2. job'[n] = [job[n] EXCEPT ![p] = j]
  BY <1>1
<1>3. j \in Jobs => [job[n] EXCEPT ![p] = j] \in [Passes -> Jobs]
  BY <1>1
<1> QED
  BY <1>1, <1>2, <1>3

LEMMA KeepsBodies ==
  ASSUME NEW t \in Trees, NEW u \in Trees
  PROVE  Keeps(t, u) \subseteq Bodies
  BY DEF Keeps, Refs, Trees, Entries, Content

\* The steps of a scan leave a job of the right type.
LEMMA ScanKeepsJobs ==
  ASSUME GoBagTypeOK, NEW n \in Nodes, NEW p \in Passes, ScanSteps(n, p)
  PROVE  PublisherTypes'
<1> USE DEF PublisherTypes, GoBagTypeOK
<1>0. job[n][p] \in Jobs
  OBVIOUS
<1>1. ASSUME PublishBegins(n, p) PROVE PublisherTypes'
  <2>1. [NoJob EXCEPT !.at = "scan", !.prior = cur[n], !.todo = Files] \in Jobs
    BY NoJobType DEF Jobs, Stages
  <2> QED
    BY <1>1, <2>1, GoesOn DEF PublishBegins, publisherVars
<1>2. ASSUME NEW f \in Files, FileStats(n, p, f) PROVE PublisherTypes'
  <2> DEFINE was == job[n][p].prior[f]
  <2>1. job[n][p] \in Jobs /\ was \in Entries /\ tree[n][f] \in Entries
    BY DEF Jobs, Trees
  <2>2. [job[n][p] EXCEPT !.todo = @ \ {f}] \in Jobs
    BY <2>1 DEF Jobs
  <2>3. [[job[n][p] EXCEPT !.todo = @ \ {f}] EXCEPT !.entries[f] = was] \in Jobs
    BY <2>1, <2>2 DEF Jobs, Trees
  <2>4. [[job[n][p] EXCEPT !.todo = @ \ {f}] EXCEPT !.reading = f, !.seen = tree[n][f].mtime]
           \in Jobs
    BY <2>1, <2>2 DEF Jobs, Entries
  <2> QED
    BY <1>2, <2>2, <2>3, <2>4, GoesOn DEF FileStats, publisherVars
<1>3. ASSUME FileReads(n, p) PROVE PublisherTypes'
  <2> DEFINE f == job[n][p].reading
             now == tree[n][f].body
             j == [job[n][p] EXCEPT !.reading = NoFile, !.seen = 0,
                            !.entries[f] = [mtime |-> job[n][p].seen, body |-> now],
                            !.bodies = @ \cup {now}]
  <2>1. CASE now = Gone
    BY <1>3, <2>1, NoJobType, GoesOn DEF FileReads, JobEnds, publisherVars
  <2>2. CASE now # Gone
    <3>1. job[n][p] \in Jobs /\ f \in Files
      BY <1>3 DEF FileReads, Jobs
    <3>2. now \in Bodies
      BY <2>2, <3>1 DEF Trees, Entries, Content
    <3>3. [mtime |-> job[n][p].seen, body |-> now] \in Entries
      BY <3>1, <3>2 DEF Jobs, Entries, Content
    <3> DEFINE e == [job[n][p].entries EXCEPT ![f] = [mtime |-> job[n][p].seen, body |-> now]]
    <3>4. e \in Trees
      BY <3>1, <3>3 DEF Jobs, Trees
    <3>5. job[n][p].bodies \cup {now} \subseteq Bodies /\ 0 \in Times
      BY <3>1, <3>2, GoBagAssumption DEF Jobs, Times
    <3>6. [job[n][p] EXCEPT !.reading = NoFile, !.seen = 0, !.entries = e,
                         !.bodies = job[n][p].bodies \cup {now}] \in Jobs
      <4> HIDE DEF e
      <4> QED
        BY <3>1, <3>4, <3>5 DEF Jobs
    <3>7. j = [job[n][p] EXCEPT !.reading = NoFile, !.seen = 0, !.entries = e,
                             !.bodies = job[n][p].bodies \cup {now}]
      BY <3>1 DEF Jobs
    <3>8. j \in Jobs
      BY <3>6, <3>7
    <3>9. Goes(n, p, j)
      BY <1>3, <2>2 DEF FileReads
    <3> QED
      BY <1>3, <3>8, <3>9, GoesOn DEF FileReads, publisherVars
  <2> QED
    BY <2>1, <2>2
<1>4. ASSUME ScanEnds(n, p) PROVE PublisherTypes'
  <2>1. [job[n][p] EXCEPT !.at = "blobs"] \in Jobs
    BY <1>0 DEF Jobs, Stages
  <2> QED
    BY <1>4, <2>1, GoesOn DEF ScanEnds, publisherVars
<1> QED
  BY <1>1, <1>2, <1>3, <1>4 DEF ScanSteps

LEMMA ScanKeepsTheRest ==
  ASSUME NEW n \in Nodes, NEW p \in Passes, ScanSteps(n, p)
  PROVE  UNCHANGED <<leader, moves, errors, up, treeVars, publisherVars, storeVars, pullVars>>
  BY DEF ScanSteps, PublishBegins, FileStats, FileReads, ScanEnds

LEMMA PublishKeepsJobs ==
  ASSUME GoBagTypeOK, NEW n \in Nodes, NEW p \in Passes, PublishSteps(n, p)
  PROVE  PublisherTypes'
<1> USE DEF PublisherTypes, GoBagTypeOK
<1>0. job[n][p] \in Jobs
  OBVIOUS
<1>1. ASSUME BlobsStored(n, p) PROVE PublisherTypes'
  <2>1. [job[n][p] EXCEPT !.at = "manifest"] \in Jobs
    BY <1>0 DEF Jobs, Stages
  <2> QED
    BY <1>1, <2>1, GoesOn DEF BlobsStored, publisherVars
<1>2. ASSUME ManifestStored(n, p) PROVE PublisherTypes'
  <2>1. job[n][p].entries \in Trees
    BY DEF Jobs
  <2>2. [NoJob EXCEPT !.at = "prune", !.keep = Keeps(job[n][p].entries, cur[n])] \in Jobs
    <3>1. Keeps(job[n][p].entries, cur[n]) \subseteq Bodies
      BY <2>1, KeepsBodies
    <3> QED
      BY <3>1, NoJobType DEF Jobs, Stages
  <2> QED
    BY <1>2, <2>1, <2>2, GoesOn DEF ManifestStored
<1>3. ASSUME PruneScans(n, p) PROVE PublisherTypes'
  <2>1. [NoJob EXCEPT !.at = "delete", !.doomed = blobs \ job[n][p].keep] \in Jobs
    BY NoJobType DEF Jobs, Stages
  <2> QED
    BY <1>3, <2>1, GoesOn DEF PruneScans, publisherVars
<1>4. ASSUME PruneDeletes(n, p) PROVE PublisherTypes'
  BY <1>4, NoJobType, GoesOn DEF PruneDeletes, JobEnds, publisherVars
<1> QED
  BY <1>1, <1>2, <1>3, <1>4 DEF PublishSteps

LEMMA PublishKeepsTheStore ==
  ASSUME GoBagTypeOK, NEW n \in Nodes, NEW p \in Passes, PublishSteps(n, p) \/ PublishErrors(n, p)
  PROVE  StoreTypes'
<1> USE DEF StoreTypes, GoBagTypeOK
<1>1. job[n][p] \in Jobs /\ job[n][p].bodies \subseteq Bodies /\ job[n][p].entries \in Trees
  BY DEF Jobs
<1>2. ManifestOf(job[n][p].entries) \in Manifests
  BY <1>1, ManifestType
<1>3. CASE BlobsStored(n, p)
  BY <1>1, <1>3 DEF BlobsStored, pullVars
<1>4. CASE ManifestStored(n, p)
  BY <1>2, <1>4 DEF ManifestStored, pullVars
<1>5. CASE PruneScans(n, p)
  BY <1>5 DEF PruneScans, storeVars, pullVars
<1>6. CASE PruneDeletes(n, p)
  BY <1>6 DEF PruneDeletes, pullVars
<1>7. CASE ScanFails(n, p)
  BY <1>7 DEF ScanFails, storeVars, pullVars
<1>8. CASE BlobsFail(n, p)
  BY <1>1, <1>8 DEF BlobsFail, pullVars
<1>9. CASE ManifestFails(n, p)
  BY <1>2, <1>9 DEF ManifestFails, pullVars
<1>10. CASE PruneFails(n, p)
  BY <1>10 DEF PruneFails, storeVars, pullVars
<1> QED
  BY <1>3, <1>4, <1>5, <1>6, <1>7, <1>8, <1>9, <1>10 DEF PublishSteps, PublishErrors

LEMMA ErrorType == NodeTypes /\ Error => errors' \in 0..MaxErrors
  BY GoBagAssumption DEF NodeTypes, Error

\* What an error leaves alone.
LEMMA ErrorsKeepTheRest ==
  ASSUME NEW n \in Nodes, NEW p \in Passes, PublishErrors(n, p)
  PROVE  /\ Error /\ JobEnds(n, p)
         /\ UNCHANGED <<leader, moves, up, treeVars, publisherVars, pullVars>>
  BY DEF PublishErrors, ScanFails, BlobsFail, ManifestFails, PruneFails, storeVars

LEMMA PullKeepsTypes ==
  ASSUME GoBagTypeOK, NEW n \in Nodes, PullSteps(n)
  PROVE  GoBagTypeOK'
<1> USE Types DEF PublisherTypes, StoreTypes, NodeTypes
<1>1. ASSUME PullReads(n) PROVE NodeTypes' /\ StoreTypes' /\ PublisherTypes'
  BY <1>1 DEF PullReads, treeVars, publisherVars, storeVars
<1>2. ASSUME PullStages(n) PROVE NodeTypes' /\ StoreTypes' /\ PublisherTypes'
  BY <1>2 DEF PullStages, treeVars, publisherVars, storeVars
<1>3. ASSUME PullFails(n) PROVE NodeTypes' /\ StoreTypes' /\ PublisherTypes'
  <2>1. errors' \in 0..MaxErrors
    BY <1>3, ErrorType DEF PullFails
  <2> QED
    BY <1>3, <2>1 DEF PullFails, treeVars, publisherVars, storeVars
<1> QED
  BY <1>1, <1>2, <1>3, TypesPrimed DEF PullSteps

LEMMA FreshType ==
  ASSUME PublisherTypes, NEW n \in Nodes, Fresh(n) \/ UNCHANGED <<publisherVars, job>>
  PROVE  PublisherTypes'
<1>1. [p \in Passes |-> NoJob] \in [Passes -> Jobs]
  BY NoJobType
<1> QED
  BY <1>1, EmptyTreeType DEF PublisherTypes, Fresh, publisherVars

LEMMA LifeKeepsTypes ==
  ASSUME GoBagTypeOK, NEW n \in Nodes, LifeSteps(n)
  PROVE  GoBagTypeOK'
<1>0. NodeTypes /\ StoreTypes /\ PublisherTypes
  BY Types
<1>1. ASSUME NEW f \in Files, FileChanges(n, f)
      PROVE  NodeTypes' /\ StoreTypes' /\ PublisherTypes'
  <2>1. clock' \in Times
    BY <1>0, <1>1, GoBagAssumption DEF FileChanges, NodeTypes, Times
  <2>2. PICK b \in Content : tree' = [tree EXCEPT ![n][f] = [mtime |-> clock', body |-> b]]
    BY <1>1 DEF FileChanges
  <2>3. [mtime |-> clock', body |-> b] \in Entries
    BY <2>1 DEF Entries
  <2>4. tree' \in [Nodes -> Trees]
    BY <1>0, <2>2, <2>3 DEF NodeTypes, Trees
  <2>5. NodeTypes'
    BY <1>0, <1>1, <2>1, <2>4 DEF FileChanges, NodeTypes
  <2> QED
    BY <1>0, <1>1, <2>5 DEF FileChanges, StoreTypes, PublisherTypes, storeVars, pullVars,
                            publisherVars
<1>2. ASSUME Promoted(n) PROVE NodeTypes' /\ StoreTypes' /\ PublisherTypes'
  <2>1. PublisherTypes'
    BY <1>0, <1>2, FreshType DEF Promoted
  <2> DEFINE t == [f \in Files |-> [mtime |-> 0, body |-> staged[n][f]]]
  <2>2. staged[n] # NoManifest => t \in Trees
    BY <1>0, GoBagAssumption DEF StoreTypes, Manifests, Trees, Entries, Times
  <2>3. tree' \in [Nodes -> Trees]
    BY <1>0, <1>2, <2>2 DEF Promoted, NodeTypes
  <2>4. moves' \in 0..MaxMoves
    BY <1>0, <1>2, GoBagAssumption DEF Promoted, NodeTypes
  <2>5. leader' = n /\ up' = [up EXCEPT ![n] = TRUE] /\ UNCHANGED <<errors, clock>>
    BY <1>2 DEF Promoted
  <2>6. NodeTypes'
    BY <1>0, <2>3, <2>4, <2>5 DEF NodeTypes
  <2> QED
    BY <1>0, <1>2, <2>1, <2>6 DEF Promoted, StoreTypes, storeVars, pullVars
<1>3. ASSUME GoesDown(n) PROVE NodeTypes' /\ StoreTypes' /\ PublisherTypes'
  <2>1. PublisherTypes'
    BY <1>0, <1>3, FreshType DEF GoesDown
  <2> QED
    BY <1>0, <1>3, <2>1 DEF GoesDown, NodeTypes, StoreTypes, treeVars, storeVars, pullVars
<1>4. ASSUME ComesUp(n) PROVE NodeTypes' /\ StoreTypes' /\ PublisherTypes'
  BY <1>0, <1>4 DEF ComesUp, NodeTypes, StoreTypes, PublisherTypes, treeVars, storeVars,
                    pullVars, publisherVars
<1> QED
  BY <1>1, <1>2, <1>3, <1>4, TypesPrimed DEF LifeSteps

LEMMA TypeKept == GoBagTypeOK /\ [GoBagNext]_goBagVars => GoBagTypeOK'
<1> SUFFICES ASSUME GoBagTypeOK, [GoBagNext]_goBagVars PROVE GoBagTypeOK'
  OBVIOUS
<1>0. NodeTypes /\ StoreTypes /\ PublisherTypes
  BY Types
<1>1. ASSUME NEW n \in Nodes, NEW p \in Passes, ScanSteps(n, p) PROVE GoBagTypeOK'
  <2>1. PublisherTypes'
    BY <1>1, ScanKeepsJobs
  <2>2. NodeTypes' /\ StoreTypes'
    BY <1>0, <1>1, ScanKeepsTheRest DEF NodeTypes, StoreTypes, treeVars, storeVars, pullVars
  <2> QED
    BY <2>1, <2>2, TypesPrimed
<1>2. ASSUME NEW n \in Nodes, NEW p \in Passes, PublishSteps(n, p) PROVE GoBagTypeOK'
  <2>1. PublisherTypes' /\ StoreTypes'
    BY <1>2, PublishKeepsJobs, PublishKeepsTheStore
  <2>2. UNCHANGED <<leader, moves, errors, up, treeVars>>
    BY <1>2 DEF PublishSteps, BlobsStored, ManifestStored, PruneScans, PruneDeletes
  <2>3. NodeTypes'
    BY <1>0, <2>2 DEF NodeTypes, treeVars
  <2> QED
    BY <2>1, <2>3, TypesPrimed
<1>3. ASSUME NEW n \in Nodes, NEW p \in Passes, PublishErrors(n, p) PROVE GoBagTypeOK'
  <2>1. /\ Error /\ JobEnds(n, p)
        /\ UNCHANGED <<leader, moves, up, treeVars, publisherVars, pullVars>>
    BY <1>3, ErrorsKeepTheRest
  <2>2. StoreTypes'
    BY <1>3, PublishKeepsTheStore
  <2>3. NodeTypes'
    BY <1>0, <2>1, ErrorType DEF NodeTypes, treeVars
  <2>4. PublisherTypes'
    BY <1>0, <2>1, NoJobType, GoesOn DEF PublisherTypes, JobEnds, publisherVars
  <2> QED
    BY <2>2, <2>3, <2>4, TypesPrimed
<1>4. CASE UNCHANGED goBagVars
  BY <1>0, <1>4, TypesPrimed DEF goBagVars, treeVars, publisherVars, storeVars, pullVars,
                                 NodeTypes, StoreTypes, PublisherTypes
<1> QED
  BY <1>1, <1>2, <1>3, <1>4, PullKeepsTypes, LifeKeepsTypes DEF GoBagNext

\* Every variable keeps its type, for any cluster and any tree.
THEOREM GoBagTypeCorrect == GoBagSpec => []GoBagTypeOK
  BY TypeInitially, TypeKept, PTL DEF GoBagSpec
------------------------------------------------------------------------------
(* The store. *)

OnePublish == \A p, q \in Passes : p = q

Undisturbed == OnePublish /\ "deposed" \notin Disturbances /\ "warm" \notin Disturbances

\* Only the leader has a publish on its way.
OnlyTheLeader == \A n \in Nodes, p \in Passes : n # leader => job[n][p].at = "idle"

\* What is known of a publish: what its scan compares with; of its entries, once the bodies
\* are stored and once the manifest is; what the prune keeps, and what it found.
JobKnows(n, p) ==
    /\ job[n][p].at = "scan" => job[n][p].prior = cur[n]
    /\ job[n][p].at # "idle" =>
          Refs(job[n][p].entries) \subseteq Refs(cur[n]) \cup job[n][p].bodies
    /\ job[n][p].at = "manifest" => Refs(job[n][p].entries) \subseteq blobs
    /\ job[n][p].at \in {"prune", "delete"} => RefsOf(manifest) \subseteq Refs(cur[n])
    /\ job[n][p].at = "prune" => job[n][p].keep = Keeps(cur[n], prev[n])
    /\ job[n][p].at = "delete" => job[n][p].doomed \cap Keeps(cur[n], prev[n]) = {}

BagInv ==
    /\ OnlyTheLeader
    /\ ManifestFetchable
    /\ PublisherKnowsTheStore
    /\ \A n \in Nodes, p \in Passes : JobKnows(n, p)

LEMMA BagInitially == GoBagInit => BagInv
  BY DEF GoBagInit, BagInv, OnlyTheLeader, ManifestFetchable, PublisherKnowsTheStore, JobKnows,
         NoJob, RefsOf, NoManifest

\* A step of the leader's publish disturbs no other node's.
LEMMA OthersStayIdle ==
  ASSUME OnePublish, GoBagTypeOK, BagInv, NEW n \in Nodes, NEW p \in Passes, NEW j,
         n # leader => j.at = "idle", Goes(n, p, j), leader' = leader
  PROVE  /\ OnlyTheLeader'
         /\ \A m \in Nodes, q \in Passes : m # leader => JobKnows(m, q)'
         /\ job'[n][p] = j
         /\ JobKnows(n, p)' => \A q \in Passes : JobKnows(n, q)'
<1>1. job \in [Nodes -> [Passes -> Jobs]]
  BY DEF GoBagTypeOK
<1>2. \A q \in Passes : q = p
  BY DEF OnePublish
<1>3. job'[n][p] = j
  BY <1>1, GoesOn
<1>4. \A m \in Nodes : m # n => job'[m] = job[m]
  BY <1>1 DEF Goes
<1>5. \A m \in Nodes, q \in Passes : m # leader => job'[m][q].at = "idle"
  BY <1>2, <1>3, <1>4 DEF BagInv, OnlyTheLeader
<1>6. \A m \in Nodes, q \in Passes : m # leader => JobKnows(m, q)'
  BY <1>5 DEF JobKnows
<1> QED
  BY <1>2, <1>3, <1>5, <1>6 DEF OnlyTheLeader

LEMMA BusyMeansLeader ==
  ASSUME BagInv, NEW n \in Nodes, NEW p \in Passes, job[n][p].at # "idle"
  PROVE  leader = n /\ Refs(cur[n]) \cup Refs(prev[n]) \subseteq blobs
  BY GoBagAssumption DEF BagInv, OnlyTheLeader, PublisherKnowsTheStore

LEMMA ScanKeepsBag ==
  ASSUME OnePublish, GoBagTypeOK, BagInv, NEW n \in Nodes, NEW p \in Passes, ScanSteps(n, p)
  PROVE  BagInv'
<1>1. /\ leader' = leader /\ cur' = cur /\ prev' = prev /\ blobs' = blobs
      /\ manifest' = manifest
  BY ScanKeepsTheRest DEF publisherVars, storeVars
<1>2. ManifestFetchable' /\ PublisherKnowsTheStore'
  BY <1>1 DEF BagInv, ManifestFetchable, PublisherKnowsTheStore
<1>3. leader = n
  BY BusyMeansLeader DEF ScanSteps, PublishBegins, FileStats, FileReads, ScanEnds, Doing
<1>4. job \in [Nodes -> [Passes -> Jobs]] /\ cur \in [Nodes -> Trees] /\ tree \in [Nodes -> Trees]
  BY DEF GoBagTypeOK
<1>5. ASSUME NEW j \in Jobs, Goes(n, p, j), j.at \in {"scan", "blobs", "idle"},
             j.at = "scan" => j.prior = cur[n],
             Refs(j.entries) \subseteq Refs(cur[n]) \cup j.bodies
      PROVE  BagInv'
  <2>1. /\ OnlyTheLeader' /\ job'[n][p] = j
        /\ \A m \in Nodes, q \in Passes : m # leader => JobKnows(m, q)'
        /\ (JobKnows(n, p)' => \A q \in Passes : JobKnows(n, q)')
    BY <1>1, <1>3, <1>5, OthersStayIdle
  <2>2. JobKnows(n, p)'
    BY <1>1, <1>5, <2>1 DEF JobKnows
  <2> QED
    BY <1>1, <1>2, <1>3, <2>1, <2>2 DEF BagInv
<1>6. CASE PublishBegins(n, p)
  <2>1. [NoJob EXCEPT !.at = "scan", !.prior = cur[n], !.todo = Files] \in Jobs
    BY <1>4, NoJobType DEF Jobs, Stages
  <2> QED
    BY <1>5, <1>6, <2>1, EmptyRefs DEF PublishBegins, NoJob
<1>7. ASSUME NEW f \in Files, FileStats(n, p, f) PROVE BagInv'
  <2> DEFINE rest == [job[n][p] EXCEPT !.todo = @ \ {f}]
             kept == [rest EXCEPT !.entries[f] = job[n][p].prior[f]]
             read == [rest EXCEPT !.reading = f, !.seen = tree[n][f].mtime]
  <2>1. /\ job[n][p] \in Jobs /\ job[n][p].at = "scan" /\ job[n][p].prior = cur[n]
        /\ cur[n][f] \in Entries /\ tree[n][f] \in Entries
    BY <1>4, <1>7 DEF FileStats, Doing, Trees, BagInv, JobKnows
  <2>2. rest \in Jobs /\ read \in Jobs
    BY <2>1 DEF Jobs, Entries
  <2>3. kept \in Jobs /\ kept.bodies = job[n][p].bodies
        /\ kept.entries = [job[n][p].entries EXCEPT ![f] = cur[n][f]] /\ kept.at = "scan"
        /\ kept.prior = cur[n]
    BY <2>1 DEF Jobs, Trees
  <2>4. Refs(job[n][p].entries) \subseteq Refs(cur[n]) \cup job[n][p].bodies
    BY <2>1 DEF BagInv, JobKnows
  <2>5. Refs(rest.entries) \subseteq Refs(cur[n]) \cup rest.bodies /\ rest.at = "scan"
        /\ Refs(read.entries) \subseteq Refs(cur[n]) \cup read.bodies /\ read.at = "scan"
        /\ rest.prior = cur[n] /\ read.prior = cur[n]
    BY <2>1, <2>4 DEF Jobs
  <2>6. Refs(kept.entries) \subseteq Refs(cur[n]) \cup kept.bodies
    BY <2>1, <2>3, <2>4 DEF Jobs, Refs, Trees
  <2>7. Goes(n, p, rest) \/ Goes(n, p, kept) \/ Goes(n, p, read)
    BY <1>7 DEF FileStats
  <2> QED
    <3> HIDE DEF rest, kept, read
    <3> QED
      BY <1>5, <2>2, <2>3, <2>5, <2>6, <2>7
<1>8. CASE FileReads(n, p)
  <2> DEFINE f == job[n][p].reading
             now == tree[n][f].body
             entry == [mtime |-> job[n][p].seen, body |-> now]
  <2>1. job[n][p] \in Jobs /\ job[n][p].at = "scan" /\ f \in Files /\ job[n][p].prior = cur[n]
    BY <1>4, <1>8 DEF FileReads, Doing, Jobs, BagInv, JobKnows
  <2>2. Refs(job[n][p].entries) \subseteq Refs(cur[n]) \cup job[n][p].bodies
    BY <2>1 DEF BagInv, JobKnows
  <2>3. CASE now = Gone
    BY <1>5, <1>8, <2>3, NoJobType, EmptyRefs DEF FileReads, JobEnds, NoJob
  <2>4. CASE now # Gone
    <3> DEFINE j == [job[n][p] EXCEPT !.reading = NoFile, !.seen = 0, !.entries[f] = entry,
                                   !.bodies = @ \cup {now}]
    <3>1. Goes(n, p, j)
      BY <1>8, <2>4 DEF FileReads
    <3>2. /\ j.at = "scan" /\ j.entries = [job[n][p].entries EXCEPT ![f] = entry]
          /\ j.bodies = job[n][p].bodies \cup {now} /\ j.prior = cur[n]
      BY <2>1 DEF Jobs
    <3>3. Refs(j.entries) \subseteq Refs(cur[n]) \cup j.bodies
      BY <2>1, <2>2, <3>2 DEF Jobs, Refs, Trees
    <3>4. j \in Jobs
      <4>1. PublisherTypes'
        BY <1>8, ScanKeepsJobs DEF ScanSteps
      <4> QED
        BY <1>4, <3>1, <4>1 DEF PublisherTypes, Goes
    <3> HIDE DEF j
    <3> QED
      BY <1>5, <3>1, <3>2, <3>3, <3>4
  <2> QED
    BY <2>3, <2>4
<1>9. CASE ScanEnds(n, p)
  <2> DEFINE j == [job[n][p] EXCEPT !.at = "blobs"]
  <2>1. job[n][p] \in Jobs /\ job[n][p].at = "scan"
    BY <1>4, <1>9 DEF ScanEnds, Doing
  <2>2. j \in Jobs /\ j.at = "blobs" /\ j.entries = job[n][p].entries /\ j.bodies = job[n][p].bodies
    BY <2>1 DEF Jobs, Stages
  <2>3. Refs(job[n][p].entries) \subseteq Refs(cur[n]) \cup job[n][p].bodies
    BY <2>1 DEF BagInv, JobKnows
  <2>4. Goes(n, p, j)
    BY <1>9 DEF ScanEnds
  <2> HIDE DEF j
  <2> QED
    BY <1>5, <2>2, <2>3, <2>4
<1> QED
  BY <1>6, <1>7, <1>8, <1>9 DEF ScanSteps

LEMMA PublishKeepsBag ==
  ASSUME OnePublish, GoBagTypeOK, BagInv, NEW n \in Nodes, NEW p \in Passes, PublishSteps(n, p)
  PROVE  BagInv'
<1>1. job \in [Nodes -> [Passes -> Jobs]] /\ cur \in [Nodes -> Trees] /\ prev \in [Nodes -> Trees]
  BY DEF GoBagTypeOK
<1>2. /\ leader = n /\ leader' = leader /\ Refs(cur[n]) \subseteq blobs
      /\ Refs(prev[n]) \subseteq blobs
  BY BusyMeansLeader DEF PublishSteps, BlobsStored, ManifestStored, PruneScans, PruneDeletes,
                         Doing
<1>3. job[n][p] \in Jobs
  BY <1>1
<1>4. ASSUME NEW j, Goes(n, p, j), JobKnows(n, p)', ManifestFetchable',
             PublisherKnowsTheStore'
      PROVE  BagInv'
  <2>1. /\ OnlyTheLeader'
        /\ \A m \in Nodes, q \in Passes : m # leader => JobKnows(m, q)'
        /\ \A q \in Passes : JobKnows(n, q)'
    BY <1>2, <1>4, OthersStayIdle
  <2> QED
    BY <1>2, <1>4, <2>1 DEF BagInv
<1>5. CASE BlobsStored(n, p)
  <2> DEFINE j == [job[n][p] EXCEPT !.at = "manifest"]
  <2>1. Goes(n, p, j) /\ job[n][p].at = "blobs" /\ blobs' = blobs \cup job[n][p].bodies
        /\ UNCHANGED <<cur, prev, manifest>>
    BY <1>5 DEF BlobsStored, Doing, publisherVars
  <2>2. job'[n][p] = j /\ j.at = "manifest" /\ j.entries = job[n][p].entries
        /\ j.bodies = job[n][p].bodies
    BY <1>1, <1>3, <2>1, GoesOn DEF Jobs
  <2>3. Refs(job[n][p].entries) \subseteq Refs(cur[n]) \cup job[n][p].bodies
    BY <2>1 DEF BagInv, JobKnows
  <2>4. JobKnows(n, p)'
    BY <1>2, <2>1, <2>2, <2>3 DEF JobKnows
  <2>5. ManifestFetchable' /\ PublisherKnowsTheStore'
    BY <1>2, <2>1 DEF BagInv, ManifestFetchable, PublisherKnowsTheStore
  <2> QED
    BY <1>4, <2>1, <2>4, <2>5
<1>6. CASE ManifestStored(n, p)
  <2> DEFINE e == job[n][p].entries
             j == [NoJob EXCEPT !.at = "prune", !.keep = Keeps(e, cur[n])]
  <2>1. /\ Goes(n, p, j) /\ job[n][p].at = "manifest" /\ manifest' = ManifestOf(e)
        /\ prev' = [prev EXCEPT ![n] = cur[n]] /\ cur' = [cur EXCEPT ![n] = e]
        /\ blobs' = blobs
    BY <1>6 DEF ManifestStored, Doing
  <2>2. e \in Trees /\ Refs(e) \subseteq blobs
    BY <1>3, <2>1 DEF BagInv, JobKnows, Jobs
  <2>3. cur'[n] = e /\ prev'[n] = cur[n] /\ RefsOf(manifest') \subseteq Refs(e)
    BY <1>1, <2>1, <2>2, ManifestRefs
  <2>4. job'[n][p] = j /\ j.at = "prune" /\ j.entries = EmptyTree
        /\ j.keep = Keeps(e, cur[n])
    BY <1>1, <2>1, GoesOn DEF NoJob
  <2>5. JobKnows(n, p)'
    BY <2>3, <2>4, EmptyRefs DEF JobKnows
  <2>6. ManifestFetchable' /\ PublisherKnowsTheStore'
    BY <1>2, <2>1, <2>2, <2>3 DEF ManifestFetchable, PublisherKnowsTheStore
  <2> QED
    BY <1>4, <2>1, <2>5, <2>6
<1>7. CASE PruneScans(n, p)
  <2> DEFINE j == [NoJob EXCEPT !.at = "delete", !.doomed = blobs \ job[n][p].keep]
  <2>1. Goes(n, p, j) /\ job[n][p].at = "prune" /\ UNCHANGED <<cur, prev, manifest, blobs>>
    BY <1>7 DEF PruneScans, Doing, publisherVars, storeVars
  <2>2. job'[n][p] = j /\ j.at = "delete" /\ j.entries = EmptyTree
        /\ j.doomed = blobs \ Keeps(cur[n], prev[n])
    BY <1>1, <2>1, GoesOn DEF NoJob, BagInv, JobKnows
  <2>3. RefsOf(manifest) \subseteq Refs(cur[n])
    BY <2>1 DEF BagInv, JobKnows
  <2>4. JobKnows(n, p)'
    BY <2>1, <2>2, <2>3, EmptyRefs DEF JobKnows
  <2>5. ManifestFetchable' /\ PublisherKnowsTheStore'
    BY <1>2, <2>1 DEF BagInv, ManifestFetchable, PublisherKnowsTheStore
  <2> QED
    BY <1>4, <2>1, <2>4, <2>5
<1>8. CASE PruneDeletes(n, p)
  <2>1. /\ Goes(n, p, NoJob) /\ job[n][p].at = "delete" /\ UNCHANGED <<cur, prev, manifest>>
        /\ blobs' = blobs \ job[n][p].doomed
    BY <1>8 DEF PruneDeletes, JobEnds, Doing, publisherVars
  <2>2. RefsOf(manifest) \subseteq Refs(cur[n]) /\ job[n][p].doomed \cap Keeps(cur[n], prev[n]) = {}
    BY <2>1 DEF BagInv, JobKnows
  <2>3. ManifestFetchable' /\ PublisherKnowsTheStore'
    BY <1>2, <2>1, <2>2 DEF Keeps, ManifestFetchable, PublisherKnowsTheStore
  <2>4. JobKnows(n, p)'
    BY <1>1, <2>1, GoesOn DEF NoJob, JobKnows
  <2> QED
    BY <1>4, <2>1, <2>3, <2>4
<1> QED
  BY <1>5, <1>6, <1>7, <1>8 DEF PublishSteps

\* An error leaves behind bodies nobody names, or a manifest whose bodies are there.
LEMMA ErrorsKeepBag ==
  ASSUME OnePublish, GoBagTypeOK, BagInv, NEW n \in Nodes, NEW p \in Passes, PublishErrors(n, p)
  PROVE  BagInv'
<1>1. job \in [Nodes -> [Passes -> Jobs]] /\ job[n][p].entries \in Trees
  BY DEF GoBagTypeOK, Jobs
<1>2. Goes(n, p, NoJob) /\ UNCHANGED <<leader, cur, prev>>
  BY ErrorsKeepTheRest DEF JobEnds, publisherVars
<1>3. leader = n
  BY BusyMeansLeader DEF PublishErrors, ScanFails, BlobsFail, ManifestFails, PruneFails, Doing
<1>4. /\ OnlyTheLeader' /\ job'[n][p] = NoJob
      /\ \A m \in Nodes, q \in Passes : m # leader => JobKnows(m, q)'
      /\ (JobKnows(n, p)' => \A q \in Passes : JobKnows(n, q)')
  BY <1>2, OthersStayIdle DEF NoJob
<1>5. JobKnows(n, p)'
  BY <1>4 DEF NoJob, JobKnows
<1>6. blobs \subseteq blobs'
  BY DEF PublishErrors, ScanFails, BlobsFail, ManifestFails, PruneFails, storeVars
<1>7. RefsOf(manifest') \subseteq blobs
  <2>1. CASE manifest' = manifest
    BY <2>1 DEF BagInv, ManifestFetchable
  <2>2. CASE ManifestFails(n, p)
    <3>1. Refs(job[n][p].entries) \subseteq blobs
      BY <2>2 DEF ManifestFails, Doing, BagInv, JobKnows
    <3>2. manifest' = ManifestOf(job[n][p].entries) \/ manifest' = manifest
      BY <2>2 DEF ManifestFails
    <3> QED
      BY <1>1, <2>1, <3>1, <3>2, ManifestRefs
  <2> QED
    BY <2>1, <2>2 DEF PublishErrors, ScanFails, BlobsFail, PruneFails, storeVars
<1>8. ManifestFetchable' /\ PublisherKnowsTheStore'
  BY <1>2, <1>6, <1>7 DEF BagInv, ManifestFetchable, PublisherKnowsTheStore
<1> QED
  BY <1>2, <1>3, <1>4, <1>5, <1>8 DEF BagInv

\* A leader begins with a publisher that takes the store for empty.
LEMMA LifeKeepsBag ==
  ASSUME Undisturbed, GoBagTypeOK, BagInv, NEW n \in Nodes, LifeSteps(n)
  PROVE  BagInv'
<1>1. job \in [Nodes -> [Passes -> Jobs]] /\ cur \in [Nodes -> Trees] /\ prev \in [Nodes -> Trees]
  BY DEF GoBagTypeOK
<1>2. blobs' = blobs /\ manifest' = manifest
  BY DEF LifeSteps, FileChanges, Promoted, GoesDown, ComesUp, storeVars
<1>3. ManifestFetchable'
  BY <1>2 DEF BagInv, ManifestFetchable
<1>4. ASSUME UNCHANGED <<leader, cur, prev, job>> PROVE BagInv'
  BY <1>2, <1>3, <1>4 DEF BagInv, OnlyTheLeader, PublisherKnowsTheStore, JobKnows
<1>5. ASSUME Fresh(n)
      PROVE  /\ cur'[n] = EmptyTree /\ prev'[n] = EmptyTree
             /\ \A p \in Passes : job'[n][p] = NoJob
             /\ \A m \in Nodes : m # n =>
                   cur'[m] = cur[m] /\ prev'[m] = prev[m] /\ job'[m] = job[m]
  BY <1>1, <1>5 DEF Fresh
<1>6. CASE Promoted(n)
  <2>1. Fresh(n) /\ leader' = n /\ \A m \in Nodes, p \in Passes : job[m][p].at = "idle"
    BY <1>6 DEF Promoted, Undisturbed
  <2>2. \A m \in Nodes, p \in Passes : job'[m][p].at = "idle"
    BY <1>5, <2>1 DEF NoJob
  <2>3. PublisherKnowsTheStore'
    BY <1>5, <2>1, EmptyRefs DEF PublisherKnowsTheStore
  <2> QED
    BY <1>3, <2>2, <2>3 DEF BagInv, OnlyTheLeader, JobKnows
<1>7. CASE GoesDown(n)
  <2>1. Fresh(n) /\ leader' = leader
    BY <1>7 DEF GoesDown
  <2>2. \A p \in Passes : job'[n][p].at = "idle"
    BY <1>5, <2>1 DEF NoJob
  <2>3. OnlyTheLeader'
    BY <1>5, <2>1, <2>2 DEF BagInv, OnlyTheLeader
  <2>4. PublisherKnowsTheStore'
    <3>1. CASE leader = n
      BY <1>5, <2>1, <3>1, EmptyRefs DEF PublisherKnowsTheStore
    <3>2. CASE leader # n
      BY <1>2, <1>5, <2>1, <3>2 DEF GoBagTypeOK, BagInv, PublisherKnowsTheStore
    <3> QED
      BY <3>1, <3>2
  <2>5. \A p \in Passes : JobKnows(n, p)'
    BY <2>2 DEF JobKnows
  <2>6. ASSUME NEW m \in Nodes, NEW p \in Passes, m # n PROVE JobKnows(m, p)'
    BY <1>2, <1>5, <2>1, <2>6 DEF BagInv, JobKnows
  <2> QED
    BY <1>3, <2>3, <2>4, <2>5, <2>6 DEF BagInv
<1>8. CASE ComesUp(n)
  BY <1>4, <1>8 DEF ComesUp, publisherVars
<1>9. ASSUME NEW f \in Files, FileChanges(n, f) PROVE BagInv'
  BY <1>4, <1>9 DEF FileChanges, publisherVars
<1> QED
  BY <1>6, <1>7, <1>8, <1>9 DEF LifeSteps

LEMMA BagKept ==
  ASSUME Undisturbed
  PROVE  GoBagTypeOK /\ BagInv /\ [GoBagNext]_goBagVars => BagInv'
<1> SUFFICES ASSUME GoBagTypeOK, BagInv, [GoBagNext]_goBagVars PROVE BagInv'
  OBVIOUS
<1>1. ASSUME UNCHANGED <<leader, cur, prev, job, blobs, manifest>> PROVE BagInv'
  BY <1>1 DEF BagInv, OnlyTheLeader, ManifestFetchable, PublisherKnowsTheStore, JobKnows
<1>2. ASSUME NEW n \in Nodes, PullSteps(n) PROVE BagInv'
  BY <1>1, <1>2 DEF PullSteps, PullReads, PullStages, PullFails, publisherVars, storeVars
<1>3. CASE UNCHANGED goBagVars
  BY <1>1, <1>3 DEF goBagVars, publisherVars, storeVars
<1> QED
  BY <1>2, <1>3, ScanKeepsBag, PublishKeepsBag, ErrorsKeepBag, LifeKeepsBag
     DEF GoBagNext, Undisturbed

\* As long as no publish outlasts the interval into the next, leadership does not move in the
\* middle of one and a promotion restarts Home Assistant, a standby finds every body of the
\* manifest, whatever fails or crashes.
THEOREM StandbyCanAlwaysPull ==
  ASSUME Undisturbed
  PROVE  GoBagSpec => []ManifestFetchable
<1>1. GoBagInit => GoBagTypeOK /\ BagInv
  BY TypeInitially, BagInitially
<1>2. GoBagTypeOK /\ BagInv /\ [GoBagNext]_goBagVars => (GoBagTypeOK /\ BagInv)'
  BY TypeKept, BagKept
<1>3. GoBagTypeOK /\ BagInv => ManifestFetchable
  BY DEF BagInv
<1> QED
  BY <1>1, <1>2, <1>3, PTL DEF GoBagSpec

\* ... and what the leader's publisher does not write again is there.
THEOREM PublisherIsRight ==
  ASSUME Undisturbed
  PROVE  GoBagSpec => []PublisherKnowsTheStore
<1>1. GoBagInit => GoBagTypeOK /\ BagInv
  BY TypeInitially, BagInitially
<1>2. GoBagTypeOK /\ BagInv /\ [GoBagNext]_goBagVars => (GoBagTypeOK /\ BagInv)'
  BY TypeKept, BagKept
<1>3. GoBagTypeOK /\ BagInv => PublisherKnowsTheStore
  BY DEF BagInv
<1> QED
  BY <1>1, <1>2, <1>3, PTL DEF GoBagSpec

==============================================================================
