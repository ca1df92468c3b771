-------------------------- MODULE GoBagSwapProofs --------------------------
(***************************************************************************)
(* What holds of a promotion for any set of entries and any number of      *)
(* generations and promotions.  Each theorem names the disturbances it     *)
(* does without.                                                           *)
(***************************************************************************)
EXTENDS GoBagSwap, TLAPS

\* The trees, and what becomes of one when a field is replaced.
LEMMA TreeShapes ==
    /\ Blank \in Trees
    /\ Absent \in Slots
    /\ Trees \subseteq Slots
    /\ \A t \in Slots, i \in Identities :
          [t EXCEPT !.ident = i] \in Slots /\ [t EXCEPT !.radios = i] \in Slots
    /\ \A t \in Trees, g \in Gens : [t EXCEPT !.gen = g] \in Trees
    /\ \A t \in Slots : t.ident \in Identities
    /\ \A t \in Slots : ~Missing(t) => t \in Trees /\ t.gen \in Gens
    /\ Gens \subseteq GensOrNone
<1>1. 0 \in Gens
  BY GoBagSwapAssumption DEF Gens
<1> QED
  BY <1>1 DEF Trees, Slots, GensOrNone, Absent, Blank, Identities, Missing

LEMMA MaxGenIsNat == MaxGen \in Nat \ {0}
BY GoBagSwapAssumption

LEMMA NextGenTypes ==
    ASSUME SwapTypeOK, bag.gen < MaxGen
    PROVE  NextGen \in Gens
<1>1. bag \in Slots
  BY DEF SwapTypeOK
<1>2. bag.gen \in (0..MaxGen) \cup {-1}
  BY <1>1 DEF Slots, GensOrNone, Gens
<1> QED
  BY <1>2, MaxGenIsNat DEF Gens, NextGen, Missing

\* The types in three parts: what the swap leaves alone, the trees, and the run.
OuterTypes ==
    /\ warm \in Topologies
    /\ vrrp \in {"MASTER", "BACKUP"}
    /\ bag \in Slots
    /\ staged \in Slots
    /\ verifyFailed \in BOOLEAN
    /\ status \in {"none", "fresh", "stale"}
    /\ pull \in {"idle", "fetched", "aside", "placed", "cleared"}
    /\ incoming \in Slots

TreeTypes ==
    /\ live \in Slots
    /\ copied \in Slots
    /\ previous \in Slots
    /\ others \in [Others -> GensOrNone]
    /\ ha \in {"running", "stopped"}
    /\ mem \in Trees

RunTypes ==
    /\ marker \in Reasons
    /\ pc \in Steps
    /\ captured \in Identities
    /\ aged \in BOOLEAN
    /\ marked \in BOOLEAN
    /\ failed \in BOOLEAN
    /\ todo \subseteq Others
    /\ before \in [storage : Slots, others : [Others -> GensOrNone]]

LEMMA TypeParts ==
    /\ SwapTypeOK <=> OuterTypes /\ TreeTypes /\ RunTypes
    /\ SwapTypeOK' <=> OuterTypes' /\ TreeTypes' /\ RunTypes'
BY DEF SwapTypeOK, OuterTypes, TreeTypes, RunTypes

LEMMA OuterStays == OuterTypes /\ UNCHANGED clusterVars => OuterTypes'
BY DEF OuterTypes, clusterVars, pullVars

LEMMA TreesStay == TreeTypes /\ UNCHANGED <<treeVars, haVars>> => TreeTypes'
BY DEF TreeTypes, treeVars, haVars

LEMMA RunStays == RunTypes /\ UNCHANGED <<marker, pc, runVars>> => RunTypes'
BY DEF RunTypes, runVars

LEMMA MarksTypes ==
    ASSUME RunTypes, NEW r \in Reasons, Marks(r)
    PROVE  marker' \in Reasons /\ marked' \in BOOLEAN
BY DEF Marks, RunTypes

LEMMA RollbackTypes ==
    ASSUME TreeTypes, RolledBack
    PROVE  live' \in Slots /\ previous' \in Slots
BY TreeShapes DEF RolledBack, TreeTypes

LEMMA RunOverTypes == RunOver /\ marker' \in Reasons => RunTypes'
<1>1. 0 \in Gens /\ Absent \in Slots
  BY TreeShapes, MaxGenIsNat DEF Gens
<1>2. NoRun \in [storage : Slots, others : [Others -> GensOrNone]]
  BY <1>1, TreeShapes DEF NoRun
<1> QED
  BY <1>2 DEF RunOver, RunTypes, Identities, Steps

LEMMA LoadsTypes ==
    ASSUME TreeTypes, Loads, UNCHANGED <<copied, previous, others>>
    PROVE  TreeTypes'
BY TreeShapes DEF Loads, TreeTypes

\* The pull and the leaders keep the types.
LEMMA PullKeepsTypes ==
    ASSUME SwapTypeOK, PeerPublishes \/ NodePublishes \/ PullSteps
    PROVE  SwapTypeOK'
<1> USE TypeParts, TreesStay, RunStays
<1>1. CASE PeerPublishes
  <2>1. bag' \in Slots
    BY <1>1, NextGenTypes, TreeShapes DEF PeerPublishes, Slots, Identities, GensOrNone
  <2>2. OuterTypes'
    BY <1>1, <2>1 DEF PeerPublishes, OuterTypes, pullVars
  <2> QED
    BY <1>1, <2>2 DEF PeerPublishes
<1>2. CASE NodePublishes
  <2>1. NextGen \in Gens
    BY <1>2, NextGenTypes DEF NodePublishes
  <2>2. mem' \in Trees
    BY <1>2, <2>1, TreeShapes DEF NodePublishes, TreeTypes
  <2>3. OuterTypes'
    BY <1>2, <2>2, TreeShapes DEF NodePublishes, OuterTypes, pullVars
  <2>4. TreeTypes'
    BY <1>2, <2>1, <2>2, TreeShapes DEF NodePublishes, TreeTypes
  <2> QED
    BY <1>2, <2>3, <2>4 DEF NodePublishes
<1>3. CASE PullSteps
  <2>1. CASE PullStarts
    BY <2>1 DEF PullStarts, OuterTypes
  <2>2. CASE PullRenames
    BY <2>2, TreeShapes DEF PullRenames, OuterTypes
  <2>3. CASE PullReports
    BY <2>3 DEF PullReports, OuterTypes
  <2>4. CASE PullDies
    BY <2>4, TreeShapes DEF PullDies, OuterTypes
  <2>5. CASE StagingAges
    BY <2>5 DEF StagingAges, OuterTypes
  <2> QED
    BY <1>3, <2>1, <2>2, <2>3, <2>4, <2>5 DEF PullSteps
<1> QED
  BY <1>1, <1>2, <1>3

\* So do the scripts.
LEMMA ScriptKeepsTypes ==
    ASSUME SwapTypeOK, Promotes \/ ScriptSteps \/ ScriptKilled \/ Demotes \/ HandStarts
    PROVE  SwapTypeOK'
<1> USE TypeParts, OuterStays, TreesStay, RunStays
<1>1. CASE Promotes
  <2>1. OuterTypes'
    BY <1>1 DEF Promotes, OuterTypes, pullVars
  <2>2. RunTypes'
    BY <1>1 DEF Promotes, RunTypes, runVars, Steps
  <2> QED
    BY <1>1, <2>1, <2>2 DEF Promotes
<1>2. CASE ScriptStops
  <2>1. TreeTypes'
    BY <1>2, TreeShapes DEF ScriptStops, Stops, TreeTypes, haVars
  <2>2. RunTypes'
    BY <1>2 DEF ScriptStops, RunTypes, runVars, Steps
  <2> QED
    BY <1>2, <2>1, <2>2 DEF ScriptStops
<1>3. CASE SwapOpens
  <2>1. before' \in [storage : Slots, others : [Others -> GensOrNone]]
    BY <1>3 DEF SwapOpens, TreeTypes
  <2>2. RunTypes'
    BY <1>3, <2>1 DEF SwapOpens, RunTypes, Steps, Reasons, Identities
  <2> QED
    BY <1>3, <2>2 DEF SwapOpens
<1>4. CASE IdentityCaptured
  <2>1. live.ident \in Identities
    BY TreeShapes DEF TreeTypes
  <2>2. RunTypes'
    BY <1>4, <2>1, MarksTypes DEF IdentityCaptured, RunTypes, Steps, Reasons
  <2> QED
    BY <1>4, <2>2 DEF IdentityCaptured
<1>5. CASE StorageCopied
  <2>1. TreeTypes'
    BY <1>5, TreeShapes DEF StorageCopied, TreeTypes, OuterTypes, haVars
  <2>2. RunTypes'
    BY <1>5, MarksTypes DEF StorageCopied, RunTypes, Steps, Reasons
  <2> QED
    BY <1>5, <2>1, <2>2 DEF StorageCopied
<1>6. CASE StorageAside \/ StorageRenamed
  <2>1. TreeTypes'
    <3>1. Absent \in Slots
      BY TreeShapes
    <3>2. CASE StorageAside
      BY <3>1, <3>2 DEF StorageAside, TreeTypes, haVars
    <3>3. CASE StorageRenamed
      BY <3>1, <3>3 DEF StorageRenamed, TreeTypes, haVars
    <3> QED
      BY <1>6, <3>2, <3>3
  <2>2. RunTypes'
    BY <1>6, MarksTypes DEF StorageAside, StorageRenamed, RunTypes, runVars, Steps, Reasons
  <2> QED
    BY <1>6, <2>1, <2>2 DEF StorageAside, StorageRenamed
<1>7. CASE IdentityRestored
  <2>1. TreeTypes'
    <3>1. live' \in Slots /\ previous' \in Slots
      BY <1>7, TreeShapes, RollbackTypes DEF IdentityRestored, Grafted, TreeTypes, RunTypes
    <3> QED
      BY <1>7, <3>1 DEF IdentityRestored, TreeTypes, haVars
  <2>2. RunTypes'
    BY <1>7, MarksTypes DEF IdentityRestored, Grafted, RunTypes, Steps, Reasons
  <2> QED
    BY <1>7, <2>1, <2>2 DEF IdentityRestored, Grafted
<1>8. CASE StorageOwned
  <2>1. RunTypes'
    BY <1>8, MarksTypes DEF StorageOwned, RunTypes, Steps, Reasons
  <2> QED
    BY <1>8, <2>1 DEF StorageOwned
<1>9. ASSUME NEW d \in Others, EntryInstalled(d)
      PROVE  SwapTypeOK'
  <2>1. staged.gen \in GensOrNone /\ -1 \in GensOrNone
    BY <1>9, TreeShapes DEF EntryInstalled, OuterTypes, GensOrNone
  <2>2. TreeTypes'
    BY <1>9, <2>1 DEF EntryInstalled, TreeTypes, haVars
  <2>3. RunTypes'
    BY <1>9, MarksTypes DEF EntryInstalled, RunTypes, Reasons
  <2> QED
    BY <1>9, <2>2, <2>3 DEF EntryInstalled
<1>10. CASE RestDone
  BY <1>10 DEF RestDone, RunTypes, runVars, Steps
<1>11. CASE SwapCloses
  <2>1. RunTypes'
    BY <1>11, MarksTypes DEF SwapCloses, RunTypes, Steps, Reasons
  <2> QED
    BY <1>11, <2>1 DEF SwapCloses
<1>12. CASE Preflight
  <2>1. TreeTypes'
    <3>1. \A r \in {"none", "own"} : [live EXCEPT !.radios = r] \in Slots
      BY TreeShapes DEF TreeTypes, Identities
    <3>2. live' \in Slots
      BY <1>12, <3>1 DEF Preflight, Plans, TreeTypes
    <3> QED
      BY <1>12, <3>2 DEF Preflight, Plans, TreeTypes, haVars
  <2>2. RunTypes'
    BY <1>12 DEF Preflight, Plans, RunTypes, runVars, Steps
  <2> QED
    BY <1>12, <2>1, <2>2 DEF Preflight, Plans
<1>13. CASE ScriptStarts
  <2>1. CASE Loads /\ pc' = "settle" /\ UNCHANGED runVars
    BY <1>13, <2>1, LoadsTypes DEF ScriptStarts, RunTypes, runVars, Steps
  <2>2. CASE RunOver /\ UNCHANGED <<ha, mem, live>>
    BY <1>13, <2>2, RunOverTypes DEF ScriptStarts, RunTypes, TreeTypes
  <2> QED
    BY <1>13, <2>1, <2>2 DEF ScriptStarts
<1>14. CASE ScriptEnds \/ ScriptKilled
  BY <1>14, RunOverTypes DEF ScriptEnds, ScriptKilled, RunTypes
<1>15. CASE Demotes
  <2>1. OuterTypes'
    BY <1>15 DEF Demotes, OuterTypes, pullVars
  <2>2. TreeTypes'
    BY <1>15, TreeShapes DEF Demotes, Stops, TreeTypes, haVars
  <2> QED
    BY <1>15, <2>1, <2>2 DEF Demotes
<1>16. CASE HandStarts
  BY <1>16, LoadsTypes DEF HandStarts
<1> QED
  BY <1>1, <1>2, <1>3, <1>4, <1>5, <1>6, <1>7, <1>8, <1>9, <1>10, <1>11, <1>12, <1>13,
     <1>14, <1>15, <1>16 DEF ScriptSteps, SwapSteps

LEMMA SwapTypeInitially == SwapInit => SwapTypeOK
<1> SUFFICES ASSUME SwapInit PROVE SwapTypeOK
  OBVIOUS
<1>1. /\ NoRun \in [storage : Slots, others : [Others -> GensOrNone]]
      /\ 0 \in Gens /\ 0 \in GensOrNone
  <2>1. 0 \in Gens
    BY MaxGenIsNat DEF Gens
  <2>2. 0 \in GensOrNone
    BY <2>1 DEF GensOrNone
  <2> QED
    BY <2>1, <2>2, TreeShapes DEF NoRun
<1>2. [Blank EXCEPT !.ident = "own"] \in Trees
  BY <1>1 DEF Blank, Trees, Identities
<1>3. OuterTypes
  BY TreeShapes DEF SwapInit, OuterTypes
<1>4. TreeTypes
  BY <1>1, <1>2, TreeShapes DEF SwapInit, TreeTypes, Missing, Absent
<1>5. RunTypes
  BY <1>1 DEF SwapInit, RunTypes, Reasons, Steps, Identities
<1> QED
  BY <1>3, <1>4, <1>5, TypeParts

LEMMA SwapTypeKept == SwapTypeOK /\ [SwapNext]_swapVars => SwapTypeOK'
<1> SUFFICES ASSUME SwapTypeOK, [SwapNext]_swapVars PROVE SwapTypeOK'
  OBVIOUS
<1>1. CASE UNCHANGED swapVars
  BY <1>1, TypeParts, TreesStay, RunStays, OuterStays DEF swapVars, clusterVars
<1> QED
  BY <1>1, PullKeepsTypes, ScriptKeepsTypes DEF SwapNext

\* Every variable keeps to its set.
THEOREM SwapTypeCorrect == SwapSpec => []SwapTypeOK
BY SwapTypeInitially, SwapTypeKept, PTL DEF SwapSpec
------------------------------------------------------------------------------
(* Whose config entry a node runs on. *)

\* The peer's entry is in .storage from the second rename to the restore, and nowhere
\* else this node could take it from.
IdentityInv ==
    /\ SwapTypeOK
    /\ live.ident = "peer" => pc = "graft"
    /\ previous.ident # "peer"
    /\ captured # "peer"
    /\ mem.ident # "peer"

LEMMA IdentityInitially == SwapInit => IdentityInv
<1> SUFFICES ASSUME SwapInit PROVE IdentityInv
  OBVIOUS
<1>1. SwapTypeOK
  BY SwapTypeInitially
<1> QED
  BY <1>1 DEF SwapInit, IdentityInv, Blank, Absent

LEMMA IdentityKept ==
    ASSUME {"kill", "asidefault"} \cap Disturbances = {}, IdentityInv, [SwapNext]_swapVars
    PROVE  IdentityInv'
<1>1. SwapTypeOK /\ SwapTypeOK'
  BY SwapTypeKept DEF IdentityInv
<1>2. live \in Slots /\ mem \in Slots /\ previous \in Slots
  BY <1>1, TreeShapes DEF SwapTypeOK
<1> USE <1>1, <1>2 DEF IdentityInv, clusterVars, treeVars, haVars, runVars
<1>3. CASE PeerPublishes \/ PullSteps \/ Promotes
  BY <1>3 DEF PeerPublishes, PullSteps, PullStarts, PullRenames, PullReports, PullDies,
       StagingAges, Promotes
<1>4. CASE NodePublishes
  <2>1. mem'.ident = mem.ident
    BY <1>4 DEF NodePublishes, Slots
  <2> QED
    BY <1>4, <2>1 DEF NodePublishes
<1>5. CASE ScriptStops \/ Demotes
  BY <1>5 DEF ScriptStops, Demotes, Stops, Blank
<1>6. CASE SwapOpens \/ IdentityCaptured \/ StorageCopied \/ StorageAside \/ StorageRenamed
  <2>1. CASE SwapOpens
    BY <2>1 DEF SwapOpens
  <2>2. CASE IdentityCaptured
    BY <2>2 DEF IdentityCaptured
  <2>3. CASE StorageCopied
    BY <2>3 DEF StorageCopied, Absent
  <2>4. CASE StorageAside
    BY <2>4 DEF StorageAside, Absent
  <2>5. CASE StorageRenamed
    BY <2>5 DEF StorageRenamed
  <2> QED
    BY <1>6, <2>1, <2>2, <2>3, <2>4, <2>5
<1>7. CASE IdentityRestored
  <2>1. captured \in Identities
    BY DEF SwapTypeOK
  <2>2. [live EXCEPT !.ident = captured].ident = captured
    BY DEF Slots
  <2>3. \/ live' = [live EXCEPT !.ident = captured] /\ previous' = previous
        \/ RolledBack
    BY <1>7 DEF IdentityRestored, Grafted
  <2>4. captured' = captured /\ mem' = mem
    BY <1>7 DEF IdentityRestored, Grafted
  <2>5. Absent.ident # "peer"
    BY DEF Absent
  <2>6. RolledBack => live' \in {previous, Absent} /\ previous' \in {previous, Absent}
    BY DEF RolledBack, WorksUnless
  <2>7. live'.ident # "peer" /\ previous'.ident # "peer"
    BY <2>2, <2>3, <2>5, <2>6
  <2> QED
    BY <2>4, <2>6, <2>7
<1>8. CASE StorageOwned \/ (\E d \in Others : EntryInstalled(d)) \/ RestDone \/ SwapCloses
  <2>1. pc' # "graft" /\ pc # "graft"
    BY <1>8 DEF StorageOwned, EntryInstalled, RestDone, SwapCloses
  <2>2. UNCHANGED <<live, previous, captured, mem>>
    BY <1>8 DEF StorageOwned, EntryInstalled, RestDone, SwapCloses
  <2> QED
    BY <2>1, <2>2
<1>9. CASE Preflight
  <2>1. \A r \in {"none", "own"} : [live EXCEPT !.radios = r].ident = live.ident
    BY DEF Slots
  <2> QED
    BY <1>9, <2>1 DEF Preflight, Plans
<1>10. Loads /\ pc # "graft" => live'.ident # "peer" /\ mem'.ident # "peer"
  BY DEF Loads, Blank
<1>11. CASE ScriptStarts \/ HandStarts
  BY <1>11, <1>10 DEF ScriptStarts, HandStarts, RunOver
<1>12. CASE ScriptEnds \/ ScriptKilled
  BY <1>12 DEF ScriptEnds, ScriptKilled, Killable, RunOver
<1>13. CASE UNCHANGED swapVars
  BY <1>13 DEF swapVars
<1> QED
  BY <1>3, <1>4, <1>5, <1>6, <1>7, <1>8, <1>9, <1>11, <1>12, <1>13
     DEF SwapNext, ScriptSteps, SwapSteps

\* If the swap is not killed part way and a tree in the way can be moved aside, no Home
\* Assistant runs as the peer: whatever copy, tool, chown, docker command or rename into
\* place fails, the rollback's among them, and even if a pull is under way.
THEOREM SwapKeepsIdentity ==
    ASSUME {"kill", "asidefault"} \cap Disturbances = {}
    PROVE  SwapSpec => []NeverRunsAsThePeer
<1>1. IdentityInv => NeverRunsAsThePeer
  BY DEF IdentityInv, NeverRunsAsThePeer
<1> QED
  BY <1>1, IdentityInitially, IdentityKept, PTL DEF SwapSpec

------------------------------------------------------------------------------
(* What a running Home Assistant has loaded. *)

\* While the swap is under way the container is down.
LoadedInv ==
    /\ HoldsItsFiles
    /\ pc \in {"capture", "copy", "aside", "rename", "graft", "own", "rest", "close"} =>
          ha # "running"

\* As long as docker inspect answers, no step of a promotion changes the files under a
\* running Home Assistant, whatever fails, and wherever the scripts are killed.
THEOREM SwapSparesARunningHA ==
    ASSUME "blind" \notin Disturbances
    PROVE  SwapSpec => []HoldsItsFiles
<1>1. SwapInit => LoadedInv
  BY DEF SwapInit, LoadedInv, HoldsItsFiles
<1>2. LoadedInv /\ [SwapNext]_swapVars => LoadedInv'
  <2> SUFFICES ASSUME LoadedInv, [SwapNext]_swapVars PROVE LoadedInv'
    OBVIOUS
  <2> USE DEF LoadedInv, HoldsItsFiles, clusterVars, treeVars, haVars, runVars
  <2>1. CASE PeerPublishes \/ PullSteps
    BY <2>1 DEF PeerPublishes, PullSteps, PullStarts, PullRenames, PullReports, PullDies,
         StagingAges
  <2>2. CASE NodePublishes \/ Promotes \/ ScriptStops \/ Demotes
    BY <2>2 DEF NodePublishes, Promotes, ScriptStops, Demotes, Stops
  <2>3. CASE SwapOpens
    <3>1. SeesRunning = {ha = "running"}
      BY DEF SeesRunning
    <3>2. pc' = "capture" => ha # "running"
      BY <2>3, <3>1, Zenon DEF SwapOpens
    <3>3. /\ pc' \in {"preflight", "capture"}
          /\ UNCHANGED <<live, ha, mem>>
      BY <2>3 DEF SwapOpens
    <3> QED
      BY <3>2, <3>3
  <2>4. CASE IdentityCaptured \/ StorageCopied \/ StorageAside \/ StorageRenamed
    BY <2>4 DEF IdentityCaptured, StorageCopied, StorageAside, StorageRenamed
  <2>5. CASE IdentityRestored \/ StorageOwned \/ (\E d \in Others : EntryInstalled(d))
    BY <2>5 DEF IdentityRestored, Grafted, StorageOwned, EntryInstalled
  <2>6. CASE RestDone \/ SwapCloses \/ Preflight
    BY <2>6 DEF RestDone, SwapCloses, Preflight, Plans
  <2>7. CASE ScriptStarts \/ HandStarts \/ ScriptEnds \/ ScriptKilled
    BY <2>7 DEF ScriptStarts, HandStarts, ScriptEnds, ScriptKilled, Loads, RunOver
  <2>8. CASE UNCHANGED swapVars
    BY <2>8 DEF swapVars
  <2> QED
    BY <2>1, <2>2, <2>3, <2>4, <2>5, <2>6, <2>7, <2>8 DEF SwapNext, ScriptSteps, SwapSteps
<1>3. LoadedInv => HoldsItsFiles
  BY DEF LoadedInv
<1> QED
  BY <1>1, <1>2, <1>3, PTL DEF SwapSpec

------------------------------------------------------------------------------
(* What the marker says. *)

\* Nothing has been installed yet, and nothing marked.
NothingInstalled ==
    pc \in {"capture", "copy", "aside", "rename", "graft"} =>
        /\ ~marked /\ ~failed
        /\ others = before.others
        /\ ~Missing(staged)
        /\ pc \in {"capture", "copy", "aside"} => live = before.storage
        /\ pc \in {"aside", "rename"} => copied = staged
        /\ pc \in {"rename", "graft"} => previous = before.storage
        /\ pc = "rename" => Missing(live)
        /\ pc = "graft" => live = staged

\* .storage is installed, and a failure since is marked.
StorageInstalled ==
    pc \in {"own", "rest", "close"} =>
        /\ live.gen = staged.gen /\ live.ident = captured
        /\ ~Missing(staged)
        /\ marked <=> failed
        /\ captured = "none" => failed /\ marker = "no_local_identity"
        /\ captured # "none" /\ failed =>
              marker \in {"ownership_restore_failed", "swap_failed"}

\* What is no longer to do is done.
RestInstalled ==
    /\ pc \in {"capture", "copy", "aside", "rename", "graft", "own"} => todo = Others
    /\ pc \in {"rest", "close"} /\ ~failed =>
          \A d \in Others : d \in todo \/ others[d] = staged.gen
    /\ pc = "close" => todo = {}

MarkerInv ==
    /\ IdentityInv
    /\ pc # "idle" => pull = "idle"
    /\ NothingInstalled
    /\ StorageInstalled
    /\ RestInstalled
    /\ pc \in {"preflight", "start"} /\ ha = "stopped" => MarkerIsTrue

\* If no pull is under way when the swap runs, nothing kills it and a tree in the way can
\* be moved aside, the marker tells the truth about the tree Home Assistant is started on:
\* whatever copy, tool, chown, docker command or rename into place fails.
THEOREM SwapMarksTheTruth ==
    ASSUME {"kill", "overlap", "asidefault"} \cap Disturbances = {}
    PROVE  SwapSpec => []MarkerTellsTheTree
<1>1. SwapInit => MarkerInv
  BY IdentityInitially
     DEF SwapInit, MarkerInv, NothingInstalled, StorageInstalled, RestInstalled
<1>2. MarkerInv /\ [SwapNext]_swapVars => MarkerInv'
  <2> SUFFICES ASSUME MarkerInv, [SwapNext]_swapVars PROVE MarkerInv'
    OBVIOUS
  <2>1. IdentityInv' /\ SwapTypeOK /\ SwapTypeOK'
    BY IdentityKept DEF MarkerInv, IdentityInv
  <2> USE <2>1 DEF MarkerInv, clusterVars, pullVars, treeVars, haVars, runVars
  <2>2. ASSUME pc = "idle", pc' = "idle", pull' = "idle" \/ pc' = "idle"
        PROVE  MarkerInv'
    BY <2>2 DEF NothingInstalled, StorageInstalled, RestInstalled
  <2>3. ASSUME UNCHANGED <<staged, pull, treeVars, marker, ha, pc, runVars>>
        PROVE  MarkerInv'
    BY <2>3 DEF NothingInstalled, StorageInstalled, RestInstalled, MarkerIsTrue, Missing
  <2>4. CASE PeerPublishes
    BY <2>3, <2>4 DEF PeerPublishes
  <2>5. CASE NodePublishes \/ Demotes \/ HandStarts
    BY <2>2, <2>5 DEF NodePublishes, Demotes, HandStarts
  <2>6. CASE PullSteps
    <3>1. CASE StagingAges
      BY <2>3, <3>1 DEF StagingAges
    <3>2. CASE PullStarts \/ PullRenames \/ PullReports \/ PullDies
      <4>1. pc = "idle" /\ pc' = "idle"
        BY <3>2 DEF PullStarts, PullRenames, PullReports, PullDies
      <4> QED
        BY <2>2, <4>1
    <3> QED
      BY <2>6, <3>1, <3>2 DEF PullSteps
  <2>7. CASE Promotes \/ ScriptStops
    BY <2>7 DEF Promotes, ScriptStops, NothingInstalled, StorageInstalled, RestInstalled
  <2>8. CASE ScriptStarts \/ ScriptEnds \/ ScriptKilled
    BY <2>8 DEF ScriptStarts, ScriptEnds, ScriptKilled, RunOver, NothingInstalled,
         StorageInstalled, RestInstalled
  <2>9. CASE SwapOpens
    <3>1. PICK running \in SeesRunning : SwapOpens!2!(running)
      BY <2>9 DEF SwapOpens
    <3>2. running => ha = "running"
      BY <3>1, Zenon DEF SeesRunning
    <3>3. /\ pull = "idle" /\ UNCHANGED <<pull, staged, treeVars, ha>>
          /\ before' = [storage |-> live, others |-> others] /\ todo' = Others
          /\ failed' = FALSE
      BY <2>9 DEF SwapOpens
    <3>4. CASE pc' = "capture"
      <4>1. marked' = FALSE /\ ~Missing(staged)
        BY <3>1, <3>4
      <4> QED
        BY <3>3, <3>4, <4>1 DEF NothingInstalled, StorageInstalled, RestInstalled, Missing
    <3>5. CASE pc' = "preflight"
      <4>1. ha = "running" \/ marker' \in {"verify_failed", "no_staged_fileset"}
        BY <3>1, <3>2, <3>5
      <4> QED
        BY <3>3, <3>5, <4>1
           DEF NothingInstalled, StorageInstalled, RestInstalled, MarkerIsTrue, Same
    <3> QED
      BY <3>1, <3>4, <3>5
  <2>10. CASE IdentityCaptured
    BY <2>10 DEF IdentityCaptured, NothingInstalled, StorageInstalled, RestInstalled,
         MarkerIsTrue, Same, Marks
  <2>11. CASE StorageCopied
    BY <2>11 DEF StorageCopied, NothingInstalled, StorageInstalled, RestInstalled,
         MarkerIsTrue, Marks
  <2>12. CASE StorageAside \/ StorageRenamed
    <3>1. CASE StorageAside
      <4>1. /\ previous' = live /\ live' = Absent
            /\ UNCHANGED <<pull, staged, copied, others, marker, ha, runVars>>
            /\ pc = "aside" /\ pc' = "rename"
        BY <3>1 DEF StorageAside, WorksUnless
      <4>2. Missing(live')
        BY <4>1 DEF Missing, Absent
      <4>3. NothingInstalled'
        BY <4>1, <4>2 DEF NothingInstalled, Missing
      <4> QED
        BY <4>1, <4>3 DEF StorageInstalled, RestInstalled
    <3>2. CASE StorageRenamed
      BY <3>2 DEF StorageRenamed, NothingInstalled, StorageInstalled, RestInstalled,
           MarkerIsTrue, Marks
    <3> QED
      BY <2>12, <3>1, <3>2
  <2>13. CASE IdentityRestored
    <3>1. /\ [live EXCEPT !.ident = captured].ident = captured
          /\ [live EXCEPT !.ident = captured].gen = live.gen
      BY DEF SwapTypeOK, Slots
    <3>2. CASE pc' = "own"
      <4>1. /\ live' = [live EXCEPT !.ident = captured]
            /\ UNCHANGED <<pull, staged, others, captured, todo>>
            /\ ~Missing(staged)
        BY <2>13, <3>2 DEF IdentityRestored, Grafted, NothingInstalled
      <4>2. IF captured = "none"
            THEN marker' = "no_local_identity" /\ marked' = TRUE /\ failed' = TRUE
            ELSE UNCHANGED <<marker, marked, failed>>
        BY <2>13, <3>2 DEF IdentityRestored, Grafted, NothingInstalled, Marks
      <4> QED
        BY <2>13, <3>1, <3>2, <4>1, <4>2
           DEF IdentityRestored, Grafted, NothingInstalled, StorageInstalled, RestInstalled, Missing
    <3>3. CASE pc' = "preflight"
      <4>1. /\ live' \in {before.storage, Absent} /\ others' = before.others
            /\ before' = before /\ marker' = "identity_restore_failed" /\ UNCHANGED pull
        BY <2>13, <3>3
           DEF IdentityRestored, RolledBack, WorksUnless, NothingInstalled, Marks
      <4> QED
        BY <2>13, <3>3, <4>1
           DEF IdentityRestored, Grafted, NothingInstalled, StorageInstalled, RestInstalled,
               MarkerIsTrue, Same, Missing, Absent
    <3> QED
      BY <2>13, <3>2, <3>3 DEF IdentityRestored, Grafted
  <2>14. CASE StorageOwned
    BY <2>14 DEF StorageOwned, NothingInstalled, StorageInstalled, RestInstalled, Marks
  <2>15. ASSUME NEW d \in Others, EntryInstalled(d)
         PROVE  MarkerInv'
    <3>1. /\ UNCHANGED <<pull, staged, live, pc, captured>> /\ pc = "rest" /\ pull = "idle"
          /\ todo' = todo \ {d}
      BY <2>15 DEF EntryInstalled
    <3>2. StorageInstalled'
      BY <2>15, <3>1 DEF EntryInstalled, StorageInstalled, Marks, Missing
    <3>3. ~failed' => others' = [others EXCEPT ![d] = staged.gen] /\ ~failed
      BY <2>15 DEF EntryInstalled
    <3>4. RestInstalled'
      BY <3>1, <3>3 DEF RestInstalled, SwapTypeOK
    <3> QED
      BY <3>1, <3>2, <3>4 DEF NothingInstalled
  <2>16. CASE RestDone
    BY <2>16 DEF RestDone, NothingInstalled, StorageInstalled, RestInstalled
  <2>17. CASE SwapCloses
    BY <2>17 DEF SwapCloses, NothingInstalled, StorageInstalled, RestInstalled,
         MarkerIsTrue, Marks, IdentityInv, SwapTypeOK, Identities
  <2>18. CASE Preflight
    <3>1. \A r \in {"none", "own"} :
             [live EXCEPT !.radios = r].ident = live.ident
             /\ [live EXCEPT !.radios = r].gen = live.gen
      BY DEF SwapTypeOK, Slots
    <3> QED
      BY <2>18, <3>1 DEF Preflight, Plans, NothingInstalled, StorageInstalled, RestInstalled,
         MarkerIsTrue, Same
  <2>19. CASE UNCHANGED swapVars
    BY <2>3, <2>19 DEF swapVars
  <2> QED
    BY <2>4, <2>5, <2>6, <2>7, <2>8, <2>9, <2>10, <2>11, <2>12, <2>13, <2>14, <2>15, <2>16,
       <2>17, <2>18, <2>19 DEF SwapNext, ScriptSteps, SwapSteps
<1>3. MarkerInv => MarkerTellsTheTree
  BY DEF MarkerInv, MarkerTellsTheTree
<1> QED
  BY <1>1, <1>2, <1>3, PTL DEF SwapSpec

------------------------------------------------------------------------------
(* Whose missing hardware is listed. *)

\* The six places a tree may be in; what is not there lists nothing.
NoListOfNothing ==
    \A t \in {bag, staged, incoming, live, copied, previous} :
        Missing(t) => t.radios # "peer"

\* The peer's list is in .storage from the second rename to the pre-flight, or under a
\* Home Assistant that was running all along and will write its own over it.
HardwareInv ==
    /\ SwapTypeOK
    /\ NoListOfNothing
    /\ mem.radios # "peer"
    /\ live.radios = "peer" =>
          ha = "running" \/ pc \in {"graft", "own", "rest", "close", "preflight"}

LEMMA HardwareInitially == SwapInit => HardwareInv
<1> SUFFICES ASSUME SwapInit PROVE HardwareInv
  OBVIOUS
<1>1. \A i \in Identities : [Blank EXCEPT !.ident = i].radios = "none"
  BY DEF Blank
<1>2. live.radios = "none" /\ mem.radios = "none"
  BY <1>1 DEF SwapInit, Blank, Absent, Identities
<1>3. Absent.radios = "none"
  BY DEF Absent
<1> QED
  BY <1>2, <1>3, SwapTypeInitially DEF SwapInit, HardwareInv, NoListOfNothing

\* What a tree lists when one field of it is replaced.
LEMMA ListsAfterReplacing ==
    ASSUME NEW t \in Slots
    PROVE  /\ \A i \in Identities :
                 /\ [t EXCEPT !.ident = i].radios = t.radios
                 /\ Missing([t EXCEPT !.ident = i]) <=> Missing(t)
           /\ \A i \in Identities :
                 /\ [t EXCEPT !.radios = i].radios = i
                 /\ Missing([t EXCEPT !.radios = i]) <=> Missing(t)
           /\ \A g \in Gens : [t EXCEPT !.gen = g].radios = t.radios
BY DEF Slots, Missing

LEMMA AbsentAndBlankListNothing == Absent.radios = "none" /\ Blank.radios = "none"
BY DEF Absent, Blank

\* Preflight replaces the peer's list by this node's.
LEMMA PreflightReplaces ==
    ASSUME "preflightfault" \notin Disturbances, HardwareInv, Preflight
    PROVE  live'.radios = "peer" => ha = "running"
<1> SUFFICES ASSUME live'.radios = "peer", ha # "running" PROVE FALSE
  OBVIOUS
<1>1. live \in Slots
  BY DEF HardwareInv, SwapTypeOK
<1>2. CASE live' = live
  <2>1. ~Missing(live)
    BY <1>2 DEF HardwareInv, NoListOfNothing
  <2>2. PICK r \in {"none", "own"} : live' = [live EXCEPT !.radios = r]
    BY <2>1 DEF Preflight, Plans
  <2> QED
    BY <1>1, <2>2, ListsAfterReplacing DEF Identities
<1>3. CASE \E r \in Plans : live' = [live EXCEPT !.radios = r]
  BY <1>1, <1>3, ListsAfterReplacing DEF Plans, Identities
<1> QED
  BY <1>2, <1>3 DEF Preflight

LEMMA HardwareKept ==
    ASSUME "kill" \notin Disturbances, "preflightfault" \notin Disturbances,
           HardwareInv, [SwapNext]_swapVars
    PROVE  HardwareInv'
<1>1. SwapTypeOK /\ SwapTypeOK'
  BY SwapTypeKept DEF HardwareInv
<1>2. /\ live \in Slots /\ mem \in Slots /\ previous \in Slots
      /\ captured \in Identities /\ ha \in {"running", "stopped"}
  BY <1>1, TreeShapes DEF SwapTypeOK
<1> USE <1>1, <1>2, AbsentAndBlankListNothing
    DEF HardwareInv, NoListOfNothing, clusterVars, pullVars, treeVars, haVars, runVars
<1>3. CASE PeerPublishes
  <2>1. ~Missing(bag')
    <3>1. NextGen \in Gens /\ bag'.gen = NextGen
      BY <1>3, NextGenTypes DEF PeerPublishes
    <3> QED
      BY <3>1, MaxGenIsNat DEF Gens, Missing
  <2> QED
    BY <1>3, <2>1 DEF PeerPublishes
<1>4. CASE NodePublishes
  <2>1. mem'.radios = mem.radios
    BY <1>4, NextGenTypes, ListsAfterReplacing DEF NodePublishes
  <2> QED
    BY <1>4, <2>1 DEF NodePublishes
<1>5. CASE PullSteps
  BY <1>5 DEF PullSteps, PullStarts, PullRenames, PullReports, PullDies, StagingAges
<1>6. CASE Promotes
  BY <1>6 DEF Promotes
<1>7. CASE ScriptStops \/ Demotes
  BY <1>7 DEF ScriptStops, Demotes, Stops
<1>8. CASE SwapOpens
  <2>1. UNCHANGED <<clusterVars, treeVars, haVars>> /\ pc = "open"
    BY <1>8 DEF SwapOpens
  <2> QED
    BY <2>1
<1>9. CASE IdentityCaptured \/ StorageCopied \/ StorageAside \/ StorageRenamed
  <2>1. CASE IdentityCaptured
    BY <2>1 DEF IdentityCaptured
  <2>2. CASE StorageCopied
    BY <2>2 DEF StorageCopied
  <2>3. CASE StorageAside
    BY <2>3 DEF StorageAside
  <2>4. CASE StorageRenamed
    BY <2>4 DEF StorageRenamed
  <2> QED
    BY <1>9, <2>1, <2>2, <2>3, <2>4
<1>10. CASE IdentityRestored
  <2>1. /\ \/ live' = [live EXCEPT !.ident = captured] /\ previous' = previous
           \/ live' \in {live, previous, Absent} /\ previous' \in {previous, Absent}
        /\ pc' \in {"own", "preflight"}
        /\ UNCHANGED <<bag, staged, incoming, copied, ha, mem>>
    BY <1>10 DEF IdentityRestored, RolledBack, Grafted
  <2>2. /\ [live EXCEPT !.ident = captured].radios = live.radios
        /\ Missing([live EXCEPT !.ident = captured]) <=> Missing(live)
    BY ListsAfterReplacing
  <2> QED
    BY <2>1, <2>2
<1>11. CASE StorageOwned \/ (\E d \in Others : EntryInstalled(d)) \/ RestDone \/ SwapCloses
  <2>1. /\ pc' \in {"rest", "close", "preflight"}
        /\ UNCHANGED <<bag, staged, incoming, live, copied, previous, ha, mem>>
    BY <1>11 DEF StorageOwned, EntryInstalled, RestDone, SwapCloses
  <2> QED
    BY <2>1
<1>12. CASE Preflight
  <2>1. live'.radios = "peer" => ha = "running"
    BY <1>12, PreflightReplaces
  <2>2. \A r \in {"none", "own"} : [live EXCEPT !.radios = r].radios = r
    BY ListsAfterReplacing DEF Identities
  <2>3. live' = live \/ \E r \in {"none", "own"} : live' = [live EXCEPT !.radios = r]
    BY <1>12 DEF Preflight, Plans
  <2>4. Missing(live') => live'.radios # "peer"
    BY <2>2, <2>3
  <2> QED
    BY <1>12, <2>1, <2>4 DEF Preflight
<1>13. CASE ScriptStarts \/ HandStarts
  <2>1. Loads /\ pc \in {"start", "idle"} => live'.radios # "peer" \/ ha' = "running"
    BY DEF Loads
  <2>2. Loads /\ pc \in {"start", "idle"} =>
           /\ mem'.radios # "peer" /\ (Missing(live') => live'.radios # "peer")
    BY DEF Loads
  <2> QED
    BY <1>13, <2>1, <2>2 DEF ScriptStarts, HandStarts, RunOver
<1>14. CASE ScriptEnds \/ ScriptKilled
  BY <1>14 DEF ScriptEnds, ScriptKilled, Killable, RunOver
<1>15. CASE UNCHANGED swapVars
  BY <1>15 DEF swapVars
<1> QED
  BY <1>3, <1>4, <1>5, <1>6, <1>7, <1>8, <1>9, <1>10, <1>11, <1>12, <1>13, <1>14, <1>15
     DEF SwapNext, ScriptSteps, SwapSteps

\* If the pre-flight can run and nothing kills the promotion before it, no Home Assistant
\* is shown the peer's missing hardware as its own: whatever else fails, with a pull under
\* way, and even if docker inspect is blind.
THEOREM SwapListsOwnHardware ==
    ASSUME "kill" \notin Disturbances, "preflightfault" \notin Disturbances
    PROVE  SwapSpec => []ListsItsOwnHardware
<1>1. HardwareInv => ListsItsOwnHardware
  BY DEF HardwareInv, ListsItsOwnHardware
<1> QED
  BY <1>1, HardwareInitially, HardwareKept, PTL DEF SwapSpec
=============================================================================
