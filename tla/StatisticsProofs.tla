-------------------------- MODULE StatisticsProofs --------------------------
(***************************************************************************)
(* Proofs about StatisticsSync, for any number of nodes, hours and terms.  *)
(* That a promotion installs no less than it replaces rests on a standby's *)
(* store never being behind its own recorder: it is rebuilt from it.       *)
(***************************************************************************)
EXTENDS StatisticsSync, FiniteSetTheorems, TLAPS

------------------------------------------------------------------------------
(* Types. *)

NodeTypes ==
    /\ now \in 0..MaxHours
    /\ leader \in Nodes \cup {NoNode}
    /\ terms \in 0..MaxTerms
    /\ errors \in 0..MaxErrors
    /\ version \in [Nodes -> Versions]
    /\ ha \in [Nodes -> BOOLEAN]
DiskTypes ==
    /\ recorder \in [Nodes -> Databases]
    /\ store \in [Nodes -> Databases]
    /\ seed \in [Nodes -> Databases]
    /\ newer \in [Nodes -> BOOLEAN]
    /\ whole \in [Nodes -> BOOLEAN]
SayTypes ==
    /\ window \in Windows
    /\ since \in 0..Patience
    /\ outcome \in [Nodes -> States \cup {"none"}]
    /\ status \in States \cup {"none"}
    /\ age \in 0..Patience
    /\ issues \subseteq Alarms \cup {"stalled"}

LEMMA Types == StatisticsTypeOK <=> NodeTypes /\ DiskTypes /\ SayTypes
  BY DEF StatisticsTypeOK, NodeTypes, DiskTypes, SayTypes

LEMMA TypesPrimed == StatisticsTypeOK' <=> NodeTypes' /\ DiskTypes' /\ SayTypes'
  BY DEF StatisticsTypeOK, NodeTypes, DiskTypes, SayTypes

\* A Home Assistant that runs has a recorder to publish.
RunningHasRecorder == \A n \in Nodes : ha[n] => recorder[n].there

LEMMA NoDatabaseType == NoDatabase \in Databases
  BY DEF Databases

LEMMA OlderType == \A x \in 0..Patience : Older(x) \in 0..Patience
  BY StatisticsAssumption DEF Older

LEMMA ErrorType == NodeTypes /\ Error => errors' \in 0..MaxErrors
  BY StatisticsAssumption DEF NodeTypes, Error

LEMMA TypeInitially == StatisticsInit => StatisticsTypeOK
<1> SUFFICES ASSUME StatisticsInit PROVE NodeTypes /\ DiskTypes /\ SayTypes
  BY Types
<1>1. NodeTypes
  BY StatisticsAssumption DEF StatisticsInit, NodeTypes
<1>2. DiskTypes
  BY NoDatabaseType DEF StatisticsInit, DiskTypes
<1>3. SayTypes
  BY StatisticsAssumption DEF StatisticsInit, SayTypes, Windows
<1> QED
  BY <1>1, <1>2, <1>3

LEMMA DatabaseFields ==
  ASSUME NEW db \in Databases
  PROVE  /\ db.there \in BOOLEAN
         /\ db.rows \subseteq Hours
         /\ db.there => db.schema \in Versions
         /\ db.there \/ db = NoDatabase
<1>1. CASE db = NoDatabase
  BY <1>1 DEF NoDatabase
<1>2. CASE db \in [there : {TRUE}, rows : SUBSET Hours, schema : Versions]
  BY <1>2
<1> QED
  BY <1>1, <1>2 DEF Databases

LEMMA DatabaseMade ==
  ASSUME NEW rows \in SUBSET Hours, NEW schema \in Versions
  PROVE  [there |-> TRUE, rows |-> rows, schema |-> schema] \in Databases
  BY DEF Databases

\* A recorder that Home Assistant opens is a database of its version.
LEMMA OpenedType ==
  ASSUME NEW n \in Nodes, NEW db \in Databases, version' \in [Nodes -> Versions]
  PROVE  /\ Opened(n, db) \in Databases
         /\ Opened(n, db).there /\ Opened(n, db).rows = db.rows
<1>1. db.rows \in SUBSET Hours /\ version'[n] \in Versions
  BY DatabaseFields
<1>2. Opened(n, db) \in Databases
  BY <1>1, DatabaseMade DEF Opened
<1> QED
  BY <1>2 DEF Opened

LEMMA StartsType ==
  ASSUME NodeTypes, DiskTypes, NEW n \in Nodes, NEW db \in Databases, Starts(n, db),
         version' \in [Nodes -> Versions]
  PROVE  /\ recorder' \in [Nodes -> Databases] /\ newer' \in [Nodes -> BOOLEAN]
         /\ ha' \in [Nodes -> BOOLEAN]
  BY OpenedType DEF NodeTypes, DiskTypes, Starts

\* ... and it has one.
LEMMA StartsRuns ==
  ASSUME NodeTypes, DiskTypes, RunningHasRecorder, NEW n \in Nodes, NEW db \in Databases,
         Starts(n, db), version' \in [Nodes -> Versions]
  PROVE  RunningHasRecorder'
  BY OpenedType DEF NodeTypes, DiskTypes, Starts, RunningHasRecorder

\* A Home Assistant that stays up keeps its recorder.
LEMMA DemotedRuns ==
  ASSUME NodeTypes, RunningHasRecorder, NEW n \in Nodes, Demotes(n) \/ GoesDown(n)
  PROVE  RunningHasRecorder' /\ ha' \in [Nodes -> BOOLEAN]
<1>1. PICK up \in BOOLEAN : ha' = [ha EXCEPT ![n] = @ /\ up]
  <2>1. CASE GoesDown(n)
    BY <2>1 DEF GoesDown, NodeTypes
  <2>2. CASE Demotes(n)
    BY <2>2 DEF Demotes, Stops
  <2> QED
    BY <2>1, <2>2
<1>2. recorder' = recorder
  BY DEF Demotes, GoesDown
<1> QED
  BY <1>1, <1>2 DEF NodeTypes, RunningHasRecorder

LEMMA WindowType ==
  ASSUME NodeTypes, DiskTypes, NEW n \in Nodes, recorder[n].there
  PROVE  ExportOf(n) \in Windows
<1>1. Floor \in 0..MaxHours
  BY StatisticsAssumption DEF NodeTypes, Floor
<1>2. recorder[n].rows \subseteq Hours /\ recorder[n].schema \in Versions
  BY DatabaseFields DEF DiskTypes
<1> QED
  BY <1>1, <1>2 DEF ExportOf, Windows

LEMMA HeardType == SayTypes => Hears \subseteq Alarms \cup {"stalled"}
  BY DEF SayTypes, Hears

LEMMA BaseType ==
  ASSUME DiskTypes, NEW n \in Nodes
  PROVE  Base(n) \in Databases
  BY DEF DiskTypes, Base

LEMMA MergedType ==
  ASSUME NEW db \in Databases, db.there, NEW rows \in SUBSET Hours
  PROVE  /\ WithRows(db, rows) \in Databases
         /\ WithRows(db, rows).there /\ WithRows(db, rows).rows = db.rows \cup rows
<1>1. db.rows \cup rows \in SUBSET Hours /\ db.schema \in Versions
  BY DatabaseFields
<1>2. WithRows(db, rows) \in Databases
  BY <1>1, DatabaseMade DEF WithRows
<1> QED
  BY <1>2 DEF WithRows

LEMMA WindowFields ==
  ASSUME NEW w \in Windows
  PROVE  w.rows \subseteq Hours
<1>1. CASE w = NoWindow
  BY <1>1 DEF NoWindow
<1>2. CASE w # NoWindow
  BY <1>2 DEF Windows
<1> QED
  BY <1>1, <1>2

TypeInv == StatisticsTypeOK /\ RunningHasRecorder

\* The store and the recorder of a promotion are databases.
LEMMA HandsOverType ==
  ASSUME NodeTypes, DiskTypes, RunningHasRecorder, NEW n \in Nodes, HandsOver(n),
         version' \in [Nodes -> Versions]
  PROVE  /\ recorder' \in [Nodes -> Databases] /\ newer' \in [Nodes -> BOOLEAN]
         /\ ha' \in [Nodes -> BOOLEAN] /\ store' \in [Nodes -> Databases]
         /\ RunningHasRecorder'
<1>0. store[n] \in Databases /\ recorder[n] \in Databases
  BY DEF DiskTypes
<1>1. CASE Starts(n, store[n]) /\ store' = [store EXCEPT ![n] = NoDatabase]
  BY <1>0, <1>1, StartsType, StartsRuns, NoDatabaseType DEF DiskTypes
<1>2. CASE Starts(n, NoDatabase) /\ UNCHANGED store
  BY <1>2, StartsType, StartsRuns, NoDatabaseType DEF DiskTypes
<1>3. CASE Starts(n, recorder[n]) /\ UNCHANGED store
  BY <1>0, <1>3, StartsType, StartsRuns DEF DiskTypes
<1> QED
  BY <1>1, <1>2, <1>3 DEF HandsOver

\* A step leaves the types of what it changes.
LEMMA TypeStep ==
  ASSUME TypeInv, [StatisticsNext]_statisticsVars
  PROVE  TypeInv'
<1> SUFFICES NodeTypes' /\ DiskTypes' /\ SayTypes' /\ RunningHasRecorder'
  BY TypesPrimed DEF TypeInv
<1>0. NodeTypes /\ DiskTypes /\ SayTypes /\ RunningHasRecorder
  BY Types DEF TypeInv
<1>1. CASE HourPasses
  <2>1. now' \in 0..MaxHours /\ {now'} \in SUBSET Hours
    BY <1>0, <1>1, StatisticsAssumption DEF HourPasses, NodeTypes, Hours
  <2>2. ASSUME NEW n \in Nodes
        PROVE  /\ recorder'[n] \in Databases
               /\ ha[n] => recorder'[n].there
    <3>1. recorder[n] \in Databases
      BY <1>0 DEF DiskTypes
    <3>2. CASE ha[n]
      <4>1. recorder'[n] = WithRows(recorder[n], {now'})
        BY <1>1, <3>2 DEF HourPasses
      <4> QED
        BY <1>0, <2>1, <3>1, <3>2, <4>1, MergedType DEF RunningHasRecorder
    <3> QED
      BY <1>1, <3>1, <3>2 DEF HourPasses
  <2>3. recorder' \in [Nodes -> Databases]
    BY <1>1, <2>2 DEF HourPasses
  <2>4. newer' \in [Nodes -> BOOLEAN]
    BY <1>0, <1>1 DEF HourPasses, NodeTypes, DiskTypes
  <2> QED
    BY <1>0, <1>1, <2>1, <2>2, <2>3, <2>4
    DEF HourPasses, NodeTypes, DiskTypes, SayTypes, RunningHasRecorder, clusterVars,
        publishVars, sayVars
<1>2. CASE StatusExpires
  BY <1>0, <1>2
  DEF StatusExpires, NodeTypes, DiskTypes, SayTypes, RunningHasRecorder, clusterVars,
      publishVars, diskVars
<1>3. ASSUME NEW n \in Nodes, Publishes(n) \/ PublishFails(n)
      PROVE  NodeTypes' /\ DiskTypes' /\ SayTypes' /\ RunningHasRecorder'
  <2>1. /\ issues' \subseteq Alarms \cup {"stalled"}
        /\ age' \in 0..Patience
    BY <1>0, <1>3, HeardType, OlderType DEF Publishes, PublishFails, Surfaces, SayTypes
  <2>2. CASE Publishes(n)
    <3>1. window' \in Windows
      BY <1>0, <2>2, WindowType DEF Publishes, RunningHasRecorder
    <3>2. since' \in 0..Patience
      BY <1>0, <2>2, OlderType DEF Publishes, Surfaces, SayTypes
    <3> QED
      BY <1>0, <2>1, <2>2, <3>1, <3>2
      DEF Publishes, Surfaces, NodeTypes, DiskTypes, SayTypes, RunningHasRecorder,
          clusterVars, diskVars
  <2>3. CASE PublishFails(n)
    <3>1. since' \in 0..Patience
      BY <1>0, <2>3, OlderType DEF PublishFails, Surfaces, SayTypes
    <3>2. errors' \in 0..MaxErrors
      BY <1>0, <2>3, ErrorType DEF PublishFails
    <3> QED
      BY <1>0, <2>1, <2>3, <3>1, <3>2
      DEF PublishFails, Surfaces, NodeTypes, DiskTypes, SayTypes, RunningHasRecorder,
          clusterVars, diskVars
  <2> QED
    BY <1>3, <2>2, <2>3
<1>4. ASSUME NEW n \in Nodes, PullApplies(n)
      PROVE  NodeTypes' /\ DiskTypes' /\ SayTypes' /\ RunningHasRecorder'
  <2> DEFINE base == Base(n)
             found == Finds(n, base, window)
             merged == IF found \in {"ok", "gap"}
                       THEN WithRows(base, window.rows) ELSE base
  <2>1. base \in Databases /\ window.rows \in SUBSET Hours
    BY <1>0, BaseType, WindowFields DEF SayTypes
  <2>2. found \in States /\ (found \in {"ok", "gap"} => base.there)
    BY DEF Finds, States, Alarms
  <2>3. merged \in Databases
    BY <2>1, <2>2, MergedType
  <2>4. store' = [store EXCEPT ![n] = merged]
    BY <1>4 DEF PullApplies
  <2>5. outcome' = [outcome EXCEPT ![n] = found]
    BY <1>4 DEF PullApplies
  <2>6. newer' \in [Nodes -> BOOLEAN]
    <3>1. newer' = [newer EXCEPT ![n] = @ /\ merged = store[n]]
      BY <1>4 DEF PullApplies
    <3> QED
      BY <1>0, <3>1 DEF DiskTypes
  <2>7. whole' \in [Nodes -> BOOLEAN]
    <3>1. whole' = [whole EXCEPT ![n] =
                      (IF seed[n].there THEN base.rows # {} ELSE @) /\ found # "gap"]
      BY <1>4 DEF PullApplies
    <3> QED
      BY <1>0, <3>1 DEF DiskTypes
  <2>8. /\ store' \in [Nodes -> Databases]
        /\ outcome' \in [Nodes -> States \cup {"none"}]
    <3> HIDE DEF merged, found
    <3> QED
      BY <1>0, <2>2, <2>3, <2>4, <2>5 DEF DiskTypes, SayTypes
  <2>9. /\ seed' = [seed EXCEPT ![n] = NoDatabase]
        /\ UNCHANGED <<now, errors, clusterVars, publishVars, status, age, issues, recorder>>
    BY <1>4 DEF PullApplies
  <2>10. DiskTypes'
    BY <1>0, <2>6, <2>7, <2>8, <2>9, NoDatabaseType DEF DiskTypes
  <2> QED
    BY <1>0, <2>8, <2>9, <2>10
    DEF NodeTypes, SayTypes, RunningHasRecorder, clusterVars, publishVars
<1>5. ASSUME NEW n \in Nodes, PullReports(n) \/ PullRefuses(n) \/ PullDies(n)
      PROVE  NodeTypes' /\ DiskTypes' /\ SayTypes' /\ RunningHasRecorder'
  <2>1. errors' \in 0..MaxErrors
    BY <1>0, <1>5, ErrorType DEF PullReports, PullRefuses, PullDies, NodeTypes
  <2>2. UNCHANGED <<now, clusterVars, publishVars, issues, diskVars>>
    BY <1>5 DEF PullReports, PullRefuses, PullDies
  <2>3. outcome' \in [Nodes -> States \cup {"none"}]
    BY <1>0, <1>5 DEF PullReports, PullRefuses, PullDies, SayTypes, States
  <2>4. status' \in States \cup {"none"} /\ age' \in 0..Patience
    BY <1>0, <1>5, StatisticsAssumption DEF PullReports, PullRefuses, PullDies, SayTypes
  <2> QED
    BY <1>0, <2>1, <2>2, <2>3, <2>4
    DEF NodeTypes, DiskTypes, SayTypes, RunningHasRecorder, clusterVars, publishVars, diskVars
<1>6. ASSUME NEW n \in Nodes, Promotes(n)
      PROVE  NodeTypes' /\ DiskTypes' /\ SayTypes' /\ RunningHasRecorder'
  <2>1. version' = version /\ version' \in [Nodes -> Versions]
    BY <1>0, <1>6 DEF Promotes, NodeTypes
  <2>2. /\ recorder' \in [Nodes -> Databases] /\ newer' \in [Nodes -> BOOLEAN]
        /\ ha' \in [Nodes -> BOOLEAN] /\ store' \in [Nodes -> Databases]
        /\ RunningHasRecorder'
    BY <1>0, <1>6, <2>1, HandsOverType DEF Promotes
  <2>3. terms' \in 0..MaxTerms /\ leader' \in Nodes /\ whole' \in [Nodes -> BOOLEAN]
    BY <1>0, <1>6, StatisticsAssumption DEF Promotes, NodeTypes
  <2>4. since' \in 0..Patience
    BY <1>6, StatisticsAssumption DEF Promotes, Forgets
  <2> QED
    BY <1>0, <1>6, <2>1, <2>2, <2>3, <2>4
    DEF Promotes, Forgets, NodeTypes, DiskTypes, SayTypes, sayVars
<1>7. ASSUME NEW n \in Nodes, Demotes(n) \/ GoesDown(n)
      PROVE  NodeTypes' /\ DiskTypes' /\ SayTypes' /\ RunningHasRecorder'
  <2>1. /\ newer' = [newer EXCEPT ![n] = TRUE]
        /\ leader' \in Nodes \cup {NoNode}
        /\ since' = 0
    BY <1>0, <1>7 DEF Demotes, GoesDown, Stops, Forgets, NodeTypes
  <2>2. RunningHasRecorder' /\ ha' \in [Nodes -> BOOLEAN]
    BY <1>0, <1>7, DemotedRuns
  <2>3. UNCHANGED <<now, errors, terms, version, window, sayVars, recorder, store, seed, whole>>
    BY <1>7 DEF Demotes, GoesDown, Forgets
  <2> QED
    <3>1. NodeTypes'
      BY <1>0, <2>1, <2>2, <2>3 DEF NodeTypes
    <3>2. DiskTypes'
      BY <1>0, <2>1, <2>3 DEF DiskTypes
    <3>3. since' \in 0..Patience
      BY <2>1, StatisticsAssumption
    <3>4. SayTypes'
      BY <1>0, <2>3, <3>3 DEF SayTypes, sayVars
    <3> QED
      BY <2>2, <3>1, <3>2, <3>4
<1>8. ASSUME NEW n \in Nodes, ComesUp(n)
      PROVE  NodeTypes' /\ DiskTypes' /\ SayTypes' /\ RunningHasRecorder'
  <2>1. version' = version /\ version' \in [Nodes -> Versions] /\ recorder[n] \in Databases
    BY <1>0, <1>8 DEF ComesUp, NodeTypes, DiskTypes
  <2>2. /\ recorder' \in [Nodes -> Databases] /\ newer' \in [Nodes -> BOOLEAN]
        /\ ha' \in [Nodes -> BOOLEAN] /\ RunningHasRecorder'
    BY <1>0, <1>8, <2>1, StartsType, StartsRuns DEF ComesUp
  <2> QED
    BY <1>0, <1>8, <2>1, <2>2
    DEF ComesUp, NodeTypes, DiskTypes, SayTypes, sayVars, publishVars
<1>9. ASSUME NEW n \in Nodes, Upgrades(n)
      PROVE  NodeTypes' /\ DiskTypes' /\ SayTypes' /\ RunningHasRecorder'
  <2>1. version' \in [Nodes -> Versions]
    BY <1>0, <1>9 DEF Upgrades, NodeTypes
  <2>2. recorder[n] \in Databases
    BY <1>0 DEF DiskTypes
  <2>3. /\ recorder' \in [Nodes -> Databases] /\ newer' \in [Nodes -> BOOLEAN]
        /\ \A m \in Nodes : recorder'[m] = recorder[m] \/ recorder'[m].there
    <3>1. CASE UNCHANGED <<recorder, newer>>
      BY <1>0, <3>1 DEF DiskTypes
    <3>2. CASE /\ recorder' = [recorder EXCEPT ![n] = Opened(n, @)]
               /\ newer' = [newer EXCEPT ![n] = TRUE]
      <4>1. Opened(n, recorder[n]) \in Databases /\ Opened(n, recorder[n]).there
        BY <2>1, <2>2, OpenedType
      <4> QED
        BY <1>0, <3>2, <4>1 DEF DiskTypes
    <3> QED
      BY <1>9, <3>1, <3>2 DEF Upgrades
  <2> QED
    BY <1>0, <1>9, <2>1, <2>3
    DEF Upgrades, NodeTypes, DiskTypes, SayTypes, RunningHasRecorder, sayVars, publishVars
<1>10. ASSUME NEW n \in Nodes, SeedCopied(n)
       PROVE  NodeTypes' /\ DiskTypes' /\ SayTypes' /\ RunningHasRecorder'
  <2>1. seed' \in [Nodes -> Databases]
    BY <1>0, <1>10 DEF SeedCopied, NodeTypes, DiskTypes
  <2> QED
    BY <1>0, <1>10, <2>1
    DEF SeedCopied, NodeTypes, DiskTypes, SayTypes, RunningHasRecorder, clusterVars,
        publishVars, sayVars
<1>11. CASE UNCHANGED statisticsVars
  BY <1>0, <1>11
  DEF NodeTypes, DiskTypes, SayTypes, RunningHasRecorder, statisticsVars, clusterVars,
      publishVars, sayVars, diskVars
<1> QED
  BY <1>1, <1>2, <1>3, <1>4, <1>5, <1>6, <1>7, <1>8, <1>9, <1>10, <1>11
  DEF StatisticsNext, PullSteps, NodeSteps, Errors

\* Every variable keeps its type: a window that is published is of a recorder that there
\* is, and what a pull merges is a database.
THEOREM StatisticsTypeCorrect == StatisticsSpec => []StatisticsTypeOK
<1>1. StatisticsInit => TypeInv
  BY TypeInitially DEF StatisticsInit, TypeInv, RunningHasRecorder
<1>2. TypeInv /\ [StatisticsNext]_statisticsVars => TypeInv'
  BY TypeStep
<1>3. TypeInv => StatisticsTypeOK
  BY DEF TypeInv
<1> QED
  BY <1>1, <1>2, <1>3, PTL DEF StatisticsSpec

------------------------------------------------------------------------------
(* A promotion keeps history. *)

\* Nothing of Disturbances happens, and the nodes stay on one version.
Calm == Disturbances = {} /\ \A v, w \in Versions : v = w

\* Home Assistant runs where the leader is.
OneRuns == \A n \in Nodes : ha[n] => leader = n

\* A seed waits where there is no history.
SeedOfTheNew == \A n \in Nodes : seed[n].there => leader # n /\ recorder[n].rows = {}

\* A store is a standby's, is not behind the standby's recorder, and is the newer file.
StoreAhead ==
    \A n \in Nodes :
        store[n].there =>
            /\ leader # n
            /\ recorder[n].rows \subseteq store[n].rows
            /\ ~(recorder[n].there /\ newer[n])

HistoryInv == TypeInv /\ OneRuns /\ SeedOfTheNew /\ StoreAhead

\* What a pull leaves is not behind the recorder, and is newer than it.
LEMMA PullAhead ==
  ASSUME HistoryInv, NEW n \in Nodes, PullApplies(n)
  PROVE  StoreAhead'
<1> DEFINE base == Base(n)
           found == Finds(n, base, window)
           merged == IF found \in {"ok", "gap"}
                     THEN WithRows(base, window.rows) ELSE base
<1>0. recorder[n] \in Databases /\ newer \in [Nodes -> BOOLEAN] /\ store \in [Nodes -> Databases]
  BY Types DEF HistoryInv, TypeInv, DiskTypes
<1>1. /\ store' = [store EXCEPT ![n] = merged]
      /\ newer' = [newer EXCEPT ![n] = @ /\ merged = store[n]]
      /\ UNCHANGED <<leader, recorder>>
  BY DEF PullApplies, clusterVars
<1>2. leader # n
  BY DEF PullApplies, Pulling
<1>3. base.rows \subseteq merged.rows
  BY DEF WithRows
<1>4. recorder[n].rows \subseteq base.rows
  <2>1. CASE seed[n].there
    BY <2>1 DEF HistoryInv, SeedOfTheNew
  <2>2. CASE ~seed[n].there /\ Rebuilds(n)
    BY <2>2 DEF Base
  <2>3. CASE ~seed[n].there /\ ~Rebuilds(n)
    <3>1. base = store[n]
      BY <2>3 DEF Base
    <3>2. CASE store[n].there
      BY <3>1, <3>2 DEF HistoryInv, StoreAhead
    <3>3. CASE ~store[n].there
      <4>1. ~recorder[n].there
        BY <2>3, <3>3 DEF Rebuilds
      <4>2. recorder[n].rows = {}
        BY <1>0, <4>1, DatabaseFields DEF NoDatabase
      <4> QED
        BY <4>2
    <3> QED
      BY <3>2, <3>3
  <2> QED
    BY <2>1, <2>2, <2>3
<1>5. ASSUME merged.there, newer'[n], recorder[n].there
      PROVE  FALSE
  <2>1. newer[n] /\ store[n].there
    <3> HIDE DEF merged
    <3> QED
      BY <1>0, <1>1, <1>5
  <2> QED
    BY <1>5, <2>1 DEF HistoryInv, StoreAhead
<1>6. ASSUME NEW m \in Nodes, store'[m].there
      PROVE  /\ leader' # m
             /\ recorder'[m].rows \subseteq store'[m].rows
             /\ ~(recorder'[m].there /\ newer'[m])
  <2>1. CASE m = n
    <3>1. store'[n] = merged
      BY <1>0, <1>1
    <3> QED
      BY <1>1, <1>2, <1>3, <1>4, <1>5, <1>6, <2>1, <3>1
  <2>2. CASE m # n
    <3>1. store'[m] = store[m] /\ newer'[m] = newer[m]
      BY <1>0, <1>1, <2>2
    <3> QED
      BY <1>1, <1>6, <3>1 DEF HistoryInv, StoreAhead
  <2> QED
    BY <2>1, <2>2
<1> QED
  BY <1>6 DEF StoreAhead

\* A promotion installs the store if there is one, and starts the recorder if there is not.
LEMMA PromotionInstalls ==
  ASSUME Calm, HistoryInv, NEW n \in Nodes, Promotes(n)
  PROVE  \/ /\ store[n].there /\ Starts(n, store[n])
            /\ store' = [store EXCEPT ![n] = NoDatabase]
         \/ ~store[n].there /\ Starts(n, recorder[n]) /\ UNCHANGED store
<1>1. ~ha[n]
  BY StatisticsAssumption DEF Promotes, HistoryInv, OneRuns
<1>2. store[n].there => Installs(n)
  BY <1>1 DEF Installs, HistoryInv, StoreAhead
<1>3. Installs(n) => store[n].there
  BY DEF Installs
<1> QED
  BY <1>2, <1>3 DEF Promotes, HandsOver, Calm

\* Every step keeps the invariant, and every row.
LEMMA HistoryStep ==
  ASSUME Calm, HistoryInv, [StatisticsNext]_statisticsVars
  PROVE  /\ OneRuns' /\ SeedOfTheNew' /\ StoreAhead'
         /\ \A n \in Nodes : recorder[n].rows \subseteq recorder'[n].rows
<1> DEFINE Kept == \A n \in Nodes : recorder[n].rows \subseteq recorder'[n].rows
<1> SUFFICES OneRuns' /\ SeedOfTheNew' /\ StoreAhead' /\ Kept
  OBVIOUS
<1>0. NodeTypes /\ DiskTypes /\ RunningHasRecorder /\ OneRuns /\ SeedOfTheNew /\ StoreAhead
  BY Types DEF HistoryInv, TypeInv
<1>1. CASE HourPasses
  <2>1. UNCHANGED <<leader, ha, store, seed>>
    BY <1>1 DEF HourPasses, clusterVars
  <2>2. ASSUME NEW n \in Nodes
        PROVE  /\ recorder[n].rows \subseteq recorder'[n].rows
               /\ leader # n => recorder'[n] = recorder[n] /\ newer'[n] = newer[n]
    <3>1. CASE ha[n]
      <4>1. recorder'[n] = WithRows(recorder[n], {now'}) /\ leader = n
        BY <1>0, <1>1, <3>1 DEF HourPasses, OneRuns
      <4> QED
        BY <4>1 DEF WithRows
    <3>2. CASE ~ha[n]
      BY <1>0, <1>1, <3>2 DEF HourPasses, DiskTypes
    <3> QED
      BY <3>1, <3>2
  <2> QED
    BY <1>0, <2>1, <2>2 DEF OneRuns, SeedOfTheNew, StoreAhead
<1>2. CASE \/ StatusExpires
           \/ \E n \in Nodes : Publishes(n) \/ PullReports(n) \/ Errors(n)
           \/ UNCHANGED statisticsVars
  <2>1. UNCHANGED <<leader, ha, recorder, store, seed, newer>>
    BY <1>2 DEF StatusExpires, Publishes, PullReports, Errors, PublishFails, PullRefuses,
                PullDies, statisticsVars, clusterVars, diskVars
  <2> QED
    BY <1>0, <2>1 DEF OneRuns, SeedOfTheNew, StoreAhead
<1>3. ASSUME NEW n \in Nodes, PullApplies(n)
      PROVE  OneRuns' /\ SeedOfTheNew' /\ StoreAhead' /\ Kept
  <2>1. UNCHANGED <<leader, ha, recorder>> /\ seed' = [seed EXCEPT ![n] = NoDatabase]
    BY <1>3 DEF PullApplies, clusterVars
  <2> QED
    BY <1>0, <1>3, <2>1, PullAhead DEF OneRuns, SeedOfTheNew, DiskTypes, NoDatabase
<1>4. ASSUME NEW n \in Nodes, Promotes(n)
      PROVE  OneRuns' /\ SeedOfTheNew' /\ StoreAhead' /\ Kept
  <2>1. /\ leader = NoNode /\ leader' = n /\ version' = version
        /\ seed' = seed /\ ~seed[n].there
    BY <1>4 DEF Promotes, Calm
  <2>2. PICK db \in Databases :
          /\ Starts(n, db) /\ recorder[n].rows \subseteq db.rows
          /\ store' = store \/ store' = [store EXCEPT ![n] = NoDatabase]
          /\ ~store'[n].there
    <3>1. CASE /\ store[n].there /\ Starts(n, store[n])
               /\ store' = [store EXCEPT ![n] = NoDatabase]
      BY <1>0, <3>1 DEF DiskTypes, StoreAhead, NoDatabase
    <3>2. CASE ~store[n].there /\ Starts(n, recorder[n]) /\ UNCHANGED store
      BY <1>0, <3>2 DEF DiskTypes
    <3> QED
      BY <1>4, <3>1, <3>2, PromotionInstalls
  <2>3. /\ recorder' = [recorder EXCEPT ![n] = Opened(n, db)]
        /\ newer' = [newer EXCEPT ![n] = TRUE]
        /\ ha' = [ha EXCEPT ![n] = TRUE]
    BY <2>2 DEF Starts
  <2>4. Opened(n, db).rows = db.rows
    BY DEF Opened
  <2>5. \A m \in Nodes : ~ha[m]
    BY <1>0, <2>1, StatisticsAssumption DEF OneRuns
  <2>6. OneRuns'
    BY <1>0, <2>1, <2>3, <2>5 DEF OneRuns, NodeTypes
  <2>7. Kept
    BY <1>0, <2>2, <2>3, <2>4 DEF DiskTypes
  <2>8. ASSUME NEW m \in Nodes, m # n
        PROVE  /\ recorder'[m] = recorder[m] /\ newer'[m] = newer[m]
               /\ store'[m] = store[m] /\ leader' # m
    BY <1>0, <2>1, <2>2, <2>3, <2>8 DEF DiskTypes
  <2>9. SeedOfTheNew'
    BY <1>0, <2>1, <2>8 DEF SeedOfTheNew
  <2>10. StoreAhead'
    BY <1>0, <2>2, <2>8 DEF StoreAhead
  <2> QED
    BY <2>6, <2>7, <2>9, <2>10
<1>5. ASSUME NEW n \in Nodes, Demotes(n) \/ GoesDown(n)
      PROVE  OneRuns' /\ SeedOfTheNew' /\ StoreAhead' /\ Kept
  <2>1. /\ leader = n /\ leader' \in {n, NoNode}
        /\ newer' = [newer EXCEPT ![n] = TRUE]
        /\ UNCHANGED <<recorder, store, seed>>
    BY <1>5 DEF Demotes, GoesDown, Stops
  <2>2. \A m \in Nodes : ha'[m] => ha[m] /\ m # n
    BY <1>0, <1>5 DEF Demotes, GoesDown, Stops, Calm, NodeTypes
  <2>3. OneRuns'
    BY <1>0, <2>1, <2>2 DEF OneRuns
  <2>4. SeedOfTheNew'
    BY <1>0, <2>1, StatisticsAssumption DEF SeedOfTheNew
  <2>5. StoreAhead'
    BY <1>0, <2>1, StatisticsAssumption DEF StoreAhead, DiskTypes
  <2> QED
    BY <2>1, <2>3, <2>4, <2>5
<1>6. ASSUME NEW n \in Nodes, ComesUp(n)
      PROVE  OneRuns' /\ SeedOfTheNew' /\ StoreAhead' /\ Kept
  <2>1. /\ leader = n /\ UNCHANGED <<leader, store, seed>>
        /\ recorder' = [recorder EXCEPT ![n] = Opened(n, recorder[n])]
        /\ newer' = [newer EXCEPT ![n] = TRUE]
        /\ ha' = [ha EXCEPT ![n] = TRUE]
    BY <1>6 DEF ComesUp, Starts
  <2>2. Opened(n, recorder[n]).rows = recorder[n].rows
    BY DEF Opened
  <2>3. ASSUME NEW m \in Nodes
        PROVE  /\ recorder'[m].rows = recorder[m].rows
               /\ leader # m => recorder'[m] = recorder[m] /\ newer'[m] = newer[m]
    BY <1>0, <2>1, <2>2 DEF DiskTypes
  <2>4. OneRuns'
    BY <1>0, <2>1 DEF OneRuns, NodeTypes
  <2> QED
    BY <1>0, <2>1, <2>3, <2>4 DEF SeedOfTheNew, StoreAhead
<1>7. ASSUME NEW n \in Nodes, Upgrades(n)
      PROVE  FALSE
  <2>1. PICK v \in Versions : version[n] < v
    BY <1>7 DEF Upgrades
  <2>2. version[n] \in Versions
    BY <1>0 DEF NodeTypes
  <2>3. version[n] = v
    BY <2>1, <2>2 DEF Calm
  <2> QED
    BY <2>1, <2>2, <2>3, StatisticsAssumption
<1>8. ASSUME NEW n \in Nodes, SeedCopied(n)
      PROVE  OneRuns' /\ SeedOfTheNew' /\ StoreAhead' /\ Kept
  <2>1. /\ leader # n /\ recorder[n].rows = {}
        /\ seed' = [seed EXCEPT ![n] = recorder[leader]]
        /\ UNCHANGED <<leader, ha, recorder, store, newer>>
    BY <1>8 DEF SeedCopied, Calm, clusterVars
  <2> QED
    BY <1>0, <2>1 DEF OneRuns, SeedOfTheNew, StoreAhead, DiskTypes
<1> QED
  BY <1>1, <1>2, <1>3, <1>4, <1>5, <1>6, <1>7, <1>8 DEF StatisticsNext, PullSteps, NodeSteps

LEMMA HistoryInitially == StatisticsInit => HistoryInv
<1> SUFFICES ASSUME StatisticsInit PROVE HistoryInv
  OBVIOUS
<1>1. \A n \in Nodes : ~seed[n].there /\ ~store[n].there /\ ~ha[n]
  BY DEF StatisticsInit, NoDatabase
<1> QED
  BY <1>1, TypeInitially
  DEF HistoryInv, TypeInv, RunningHasRecorder, OneRuns, SeedOfTheNew, StoreAhead

LEMMA HistoryKept ==
  ASSUME Calm, HistoryInv, [StatisticsNext]_statisticsVars
  PROVE  HistoryInv'
<1>1. TypeInv'
  BY TypeStep DEF HistoryInv
<1> QED
  BY <1>1, HistoryStep DEF HistoryInv

\* In a calm cluster no promotion replaces a node's history with less: a node's store is
\* rebuilt from what it recorded, only grows, and is consumed when it is installed, so the
\* swap never finds one behind the recorder it replaces.
THEOREM HistoryIsKept == ASSUME Calm PROVE StatisticsSpec => PromotionKeepsHistory
<1>1. StatisticsInit => HistoryInv
  BY HistoryInitially
<1>2. HistoryInv /\ [StatisticsNext]_statisticsVars => HistoryInv'
  BY HistoryKept
<1>3. HistoryInv /\ [StatisticsNext]_statisticsVars
        => [\A n \in Nodes : recorder[n].rows \subseteq recorder'[n].rows]_statisticsVars
  BY HistoryStep
<1> QED
  BY <1>1, <1>2, <1>3, PTL DEF StatisticsSpec, PromotionKeepsHistory

------------------------------------------------------------------------------
(* The newest row. *)

\* Rows have a greatest: of the intervals from a row to the last hour one is least.
LEMMA GreatestRow ==
  ASSUME NEW rows \in SUBSET Hours, rows # {}
  PROVE  \E m \in rows : \A k \in rows : k <= m
<1> DEFINE T == {h .. MaxHours : h \in rows}
<1>1. T \subseteq FiniteSubsetsOf(Hours) /\ T # {}
  <2>1. ASSUME NEW h \in rows PROVE h .. MaxHours \in FiniteSubsetsOf(Hours)
    BY StatisticsAssumption, FS_Interval DEF Hours, FiniteSubsetsOf
  <2> QED
    BY <2>1
<1>2. PICK x \in T : \A y \in T : <<y, x>> \notin StrictSubsetOrdering(Hours)
  BY <1>1, FS_StrictSubsetOrderingWellFounded, WFMin
<1>3. PICK m \in rows : x = m .. MaxHours
  OBVIOUS
<1>4. ASSUME NEW k \in rows, ~(k <= m)
      PROVE  FALSE
  <2>1. /\ k .. MaxHours \subseteq m .. MaxHours
        /\ m \in (m .. MaxHours) \ (k .. MaxHours)
        /\ k .. MaxHours \in SUBSET Hours /\ m .. MaxHours \in SUBSET Hours
    BY StatisticsAssumption, <1>4 DEF Hours
  <2>2. <<k .. MaxHours, m .. MaxHours>> \in StrictSubsetOrdering(Hours)
    BY <2>1 DEF StrictSubsetOrdering
  <2> QED
    BY <1>2, <1>3, <2>2
<1> QED
  BY <1>4

\* Newest is the greatest row, and 0 where there is none.
LEMMA NewestIsGreatest ==
  ASSUME NEW rows \in SUBSET Hours
  PROVE  /\ Newest(rows) \in rows \cup {0}
         /\ Newest(rows) \in Nat
         /\ \A k \in rows : k <= Newest(rows)
<1>1. \E h \in rows \cup {0} : \A k \in rows : k <= h
  <2>1. CASE rows = {}
    BY <2>1
  <2>2. CASE rows # {}
    BY <2>2, GreatestRow
  <2> QED
    BY <2>1, <2>2
<1>2. Newest(rows) \in rows \cup {0} /\ \A k \in rows : k <= Newest(rows)
  BY <1>1 DEF Newest
<1>3. rows \cup {0} \subseteq Nat
  BY StatisticsAssumption DEF Hours
<1>4. Newest(rows) \in Nat
  BY <1>2, <1>3, Zenon
<1> QED
  BY <1>2, <1>4, Zenon

\* Of two sets of rows the newest is the newest of one.
LEMMA NewestOfUnion ==
  ASSUME NEW rows \in SUBSET Hours, NEW more \in SUBSET Hours
  PROVE  Newest(rows \cup more) <= Newest(rows) \/ Newest(rows \cup more) <= Newest(more)
<1>1. Newest(rows \cup more) \in rows \cup more \cup {0}
  BY NewestIsGreatest
<1>2. Newest(rows) \in Nat /\ Newest(more) \in Nat
  BY NewestIsGreatest
<1>3. /\ \A k \in rows : k <= Newest(rows)
      /\ \A k \in more : k <= Newest(more)
  BY NewestIsGreatest
<1>4. CASE Newest(rows \cup more) = 0
  BY <1>2, <1>4
<1>5. CASE Newest(rows \cup more) # 0
  BY <1>1, <1>3, <1>5
<1> QED
  BY <1>4, <1>5

------------------------------------------------------------------------------
(* A seeded store has what its leader has. *)

\* A pair, which is what the program supports.
TwoNodes == \E a, b \in Nodes : Nodes = {a, b}

\* rows has all that node m recorded, up to its own newest one.
Contiguous(m, rows) == \A h \in recorder[m].rows : h <= Newest(rows) => h \in rows

\* The window has all that node m recorded, from its floor to its newest row.
Fits(m) ==
    \A h \in recorder[m].rows :
        window.from < h /\ h <= Newest(window.rows) => h \in window.rows

\* A node without history, which may be seeded.
New(n) == recorder[n].rows = {}

RowsArePast ==
    /\ window.rows \subseteq 1..now
    /\ \A n \in Nodes :
          /\ recorder[n].rows \subseteq 1..now
          /\ store[n].rows \subseteq 1..now
          /\ seed[n].rows \subseteq 1..now

\* While one node is new all there is comes from the other, whoever led and published.
NewPeer ==
    \A n, m \in Nodes :
        n # m /\ New(n) =>
            /\ window.rows \subseteq recorder[m].rows
            /\ store[m].rows \subseteq recorder[m].rows
            /\ seed[m].rows = {}
            /\ Fits(m)

SeedHolds ==
    \A n, m \in Nodes : n # m /\ seed[n].there => Contiguous(m, seed[n].rows)

\* A store that is claimed to be whole is that of a new node, and no promotion took it.
WholeStandby ==
    \A n \in Nodes :
        whole[n] => New(n) /\ leader # n /\ store[n].there /\ store[n].rows # {}

StoreHolds ==
    \A n, m \in Nodes : n # m /\ whole[n] => Contiguous(m, store[n].rows)

RowsInv == RowsArePast /\ NewPeer /\ SeedHolds /\ WholeStandby /\ StoreHolds

LEMMA RowsOfDatabases ==
  ASSUME StatisticsTypeOK, NEW n \in Nodes
  PROVE  /\ recorder[n] \in Databases /\ store[n] \in Databases /\ seed[n] \in Databases
         /\ recorder[n].rows \in SUBSET Hours /\ store[n].rows \in SUBSET Hours
         /\ seed[n].rows \in SUBSET Hours /\ window.rows \in SUBSET Hours
<1>1. recorder[n] \in Databases /\ store[n] \in Databases /\ seed[n] \in Databases
  BY DEF StatisticsTypeOK
<1>2. window.rows \in SUBSET Hours
  BY WindowFields DEF StatisticsTypeOK
<1> QED
  BY <1>1, <1>2, DatabaseFields

\* What m gets in a new hour is newer than rows that are past.
LEMMA NewHourFits ==
  ASSUME StatisticsTypeOK, now < MaxHours, NEW rows \in SUBSET Hours, rows \subseteq 1..now
  PROVE  ~(now + 1 <= Newest(rows))
<1>1. Newest(rows) \in rows \cup {0}
  BY NewestIsGreatest
<1>2. now \in Nat
  BY StatisticsAssumption DEF StatisticsTypeOK
<1>3. Newest(rows) \in Nat /\ (Newest(rows) = 0 \/ Newest(rows) \in 1..now)
  BY <1>1, <1>2, NewestIsGreatest, Zenon
<1> QED
  BY <1>2, <1>3

LEMMA RowsInitially == StatisticsInit => RowsInv
<1> SUFFICES ASSUME StatisticsInit PROVE RowsInv
  OBVIOUS
<1>1. /\ window.rows = {}
      /\ \A n \in Nodes : /\ recorder[n].rows = {} /\ store[n].rows = {} /\ seed[n].rows = {}
                          /\ ~seed[n].there /\ ~whole[n]
  BY DEF StatisticsInit, NoDatabase, NoWindow
<1> QED
  BY <1>1
  DEF RowsInv, RowsArePast, NewPeer, Fits, SeedHolds, WholeStandby, StoreHolds, New

\* A step that leaves the rows, and at most ends a term.
LEMMA RowsUnchanged ==
  ASSUME RowsInv, \A n \in Nodes : recorder'[n].rows = recorder[n].rows,
         UNCHANGED <<now, window, store, seed, whole>>, leader' \in {leader, NoNode}
  PROVE  RowsInv'
<1>1. RowsArePast'
  BY DEF RowsInv, RowsArePast
<1>2. NewPeer'
  BY DEF RowsInv, NewPeer, Fits, New
<1>3. SeedHolds'
  BY DEF RowsInv, SeedHolds, Contiguous
<1>4. WholeStandby'
  BY StatisticsAssumption DEF RowsInv, WholeStandby, New
<1>5. StoreHolds'
  BY DEF RowsInv, StoreHolds, Contiguous
<1> QED
  BY <1>1, <1>2, <1>3, <1>4, <1>5 DEF RowsInv

\* The hour's row is newer than any that was published, seeded or merged.
LEMMA RowsAfterAnHour ==
  ASSUME StatisticsTypeOK, OneRuns, RowsInv, HourPasses
  PROVE  RowsInv'
<1>1. /\ now < MaxHours /\ now' = now + 1 /\ now \in Nat
      /\ UNCHANGED <<leader, window, store, seed, whole>>
  BY StatisticsAssumption DEF HourPasses, StatisticsTypeOK, clusterVars, publishVars
<1>2. ASSUME NEW m \in Nodes
      PROVE  /\ recorder[m].rows \subseteq recorder'[m].rows
             /\ \A h \in recorder'[m].rows : h \in recorder[m].rows \/ h = now + 1
             /\ leader # m => recorder'[m].rows = recorder[m].rows
  <2>1. CASE ha[m]
    <3>1. recorder'[m] = WithRows(recorder[m], {now'}) /\ leader = m
      BY <2>1 DEF HourPasses, OneRuns
    <3> QED
      BY <1>1, <3>1 DEF WithRows
  <2>2. CASE ~ha[m]
    BY <2>2 DEF HourPasses, StatisticsTypeOK
  <2> QED
    BY <2>1, <2>2
<1>3. /\ ~(now + 1 <= Newest(window.rows))
      /\ \A n \in Nodes : /\ ~(now + 1 <= Newest(store[n].rows))
                          /\ ~(now + 1 <= Newest(seed[n].rows))
  <2>1. \A n \in Nodes : /\ store[n].rows \in SUBSET Hours /\ seed[n].rows \in SUBSET Hours
                         /\ store[n].rows \subseteq 1..now /\ seed[n].rows \subseteq 1..now
    BY RowsOfDatabases DEF RowsInv, RowsArePast
  <2>2. window.rows \in SUBSET Hours /\ window.rows \subseteq 1..now
    BY WindowFields DEF RowsInv, RowsArePast, StatisticsTypeOK
  <2> QED
    BY <1>1, <2>1, <2>2, NewHourFits
<1>4. RowsArePast'
  BY <1>1, <1>2 DEF RowsInv, RowsArePast
<1>5. NewPeer'
  <2> SUFFICES ASSUME NEW n \in Nodes, NEW m \in Nodes, n # m, New(n)'
               PROVE  /\ window'.rows \subseteq recorder'[m].rows
                      /\ store'[m].rows \subseteq recorder'[m].rows
                      /\ seed'[m].rows = {}
                      /\ Fits(m)'
    BY DEF NewPeer
  <2>1. New(n)
    BY <1>2 DEF New
  <2>2. /\ window.rows \subseteq recorder[m].rows /\ store[m].rows \subseteq recorder[m].rows
        /\ seed[m].rows = {} /\ Fits(m)
    BY <2>1 DEF RowsInv, NewPeer
  <2>3. Fits(m)'
    BY <1>1, <1>2, <1>3, <2>2 DEF Fits
  <2> QED
    BY <1>1, <1>2, <2>2, <2>3
<1>6. SeedHolds'
  BY <1>1, <1>2, <1>3 DEF RowsInv, SeedHolds, Contiguous
<1>7. WholeStandby'
  BY <1>1, <1>2 DEF RowsInv, WholeStandby, New
<1>8. StoreHolds'
  BY <1>1, <1>2, <1>3 DEF RowsInv, StoreHolds, Contiguous
<1> QED
  BY <1>4, <1>5, <1>6, <1>7, <1>8 DEF RowsInv

\* A window has all that its node recorded since the floor.
LEMMA RowsPublished ==
  ASSUME TwoNodes, StatisticsTypeOK, RowsInv, NEW p \in Nodes, Publishes(p)
  PROVE  RowsInv'
<1>1. /\ UNCHANGED <<now, leader, recorder, store, seed, whole>>
      /\ window' = ExportOf(p)
  BY DEF Publishes, clusterVars, diskVars
<1>2. /\ window'.rows = {h \in recorder[p].rows : h > window'.from}
      /\ window'.from = Floor
  BY <1>1 DEF ExportOf
<1>3. RowsArePast'
  BY <1>1, <1>2 DEF RowsInv, RowsArePast
<1>4. NewPeer'
  <2> SUFFICES ASSUME NEW n \in Nodes, NEW m \in Nodes, n # m, New(n)
               PROVE  window'.rows \subseteq recorder[m].rows /\ Fits(m)'
    BY <1>1 DEF RowsInv, NewPeer, New
  <2>1. CASE p = m
    BY <1>1, <1>2, <2>1 DEF Fits
  <2>2. CASE p = n
    <3>1. window'.rows = {} /\ {} \in SUBSET Hours
      BY <1>2, <2>2 DEF New
    <3>2. Newest(window'.rows) = 0
      BY <3>1, NewestIsGreatest
    <3>3. recorder[m].rows \in SUBSET Hours
      BY RowsOfDatabases
    <3>4. \A h \in recorder[m].rows : ~(h <= 0)
      BY <3>3 DEF Hours
    <3> QED
      BY <1>1, <3>1, <3>2, <3>4 DEF Fits
  <2> QED
    BY <2>1, <2>2 DEF TwoNodes
<1>5. SeedHolds'
  BY <1>1 DEF RowsInv, SeedHolds, Contiguous
<1>6. WholeStandby'
  BY <1>1 DEF RowsInv, WholeStandby, New
<1>7. StoreHolds'
  BY <1>1 DEF RowsInv, StoreHolds, Contiguous
<1> QED
  BY <1>3, <1>4, <1>5, <1>6, <1>7 DEF RowsInv

\* A seed has all that its leader has.
LEMMA RowsSeeded ==
  ASSUME TwoNodes, Calm, StatisticsTypeOK, RowsInv, NEW p \in Nodes, SeedCopied(p)
  PROVE  RowsInv'
<1>1. /\ leader \in Nodes \ {p} /\ recorder[p].rows = {}
      /\ UNCHANGED <<now, leader, window, recorder, store, whole>>
      /\ seed' = [seed EXCEPT ![p] = recorder[leader]]
  BY DEF SeedCopied, Calm, StatisticsTypeOK, clusterVars, publishVars
<1>2. /\ seed'[p] = recorder[leader]
      /\ \A n \in Nodes : n # p => seed'[n] = seed[n]
  BY <1>1 DEF StatisticsTypeOK
<1>3. \A n \in Nodes : n # p => n = leader
  BY <1>1 DEF TwoNodes
<1>4. RowsArePast'
  BY <1>1, <1>2 DEF RowsInv, RowsArePast
<1>5. NewPeer'
  <2> SUFFICES ASSUME NEW n \in Nodes, NEW m \in Nodes, n # m, New(n)
               PROVE  seed'[m].rows = {}
    BY <1>1 DEF RowsInv, NewPeer, New, Fits
  <2>1. CASE m = p
    BY <1>2, <1>3, <2>1 DEF New
  <2>2. CASE m # p
    BY <1>2, <2>2 DEF RowsInv, NewPeer
  <2> QED
    BY <2>1, <2>2
<1>6. SeedHolds'
  <2> SUFFICES ASSUME NEW n \in Nodes, NEW m \in Nodes, n # m, seed'[n].there
               PROVE  Contiguous(m, seed'[n].rows)
    BY <1>1 DEF SeedHolds, Contiguous
  <2>1. CASE n = p
    BY <1>2, <1>3, <2>1 DEF Contiguous
  <2>2. CASE n # p
    BY <1>2, <2>2 DEF RowsInv, SeedHolds
  <2> QED
    BY <2>1, <2>2
<1>7. WholeStandby'
  BY <1>1 DEF RowsInv, WholeStandby, New
<1>8. StoreHolds'
  BY <1>1 DEF RowsInv, StoreHolds, Contiguous
<1> QED
  BY <1>4, <1>5, <1>6, <1>7, <1>8 DEF RowsInv

\* While its peer is new a promotion installs a store that has the rows of the recorder.
LEMMA RowsPromoted ==
  ASSUME Calm, HistoryInv, RowsInv, NEW p \in Nodes, Promotes(p)
  PROVE  RowsInv'
<1>0. StatisticsTypeOK /\ StoreAhead /\ SeedOfTheNew
  BY DEF HistoryInv, TypeInv
<1>1. /\ UNCHANGED <<now, window, seed>> /\ ~seed[p].there
      /\ \A n \in Nodes : ~whole'[n]
  BY DEF Promotes, Forgets, Calm
<1>2. /\ \A n \in Nodes : n # p => recorder'[n] = recorder[n] /\ store'[n] = store[n]
      /\ recorder'[p].rows \in {recorder[p].rows, store[p].rows}
      /\ recorder[p].rows \subseteq recorder'[p].rows
      /\ store'[p] \in {store[p], NoDatabase}
  <2>1. CASE store[p].there /\ Starts(p, store[p]) /\ store' = [store EXCEPT ![p] = NoDatabase]
    BY <1>0, <2>1 DEF Starts, Opened, StatisticsTypeOK, StoreAhead
  <2>2. CASE ~store[p].there /\ Starts(p, recorder[p]) /\ UNCHANGED store
    BY <1>0, <2>2 DEF Starts, Opened, StatisticsTypeOK
  <2> QED
    BY <2>1, <2>2, PromotionInstalls
<1>3. ASSUME NEW n \in Nodes, NEW m \in Nodes, n # m, New(n)
      PROVE  recorder'[m].rows = recorder[m].rows
  BY <1>2, <1>3 DEF RowsInv, NewPeer
<1>4. NoDatabase.rows = {}
  BY DEF NoDatabase
<1>5. RowsArePast'
  BY <1>1, <1>2, <1>4 DEF RowsInv, RowsArePast
<1>6. NewPeer'
  <2> SUFFICES ASSUME NEW n \in Nodes, NEW m \in Nodes, n # m, New(n)'
               PROVE  /\ window'.rows \subseteq recorder'[m].rows
                      /\ store'[m].rows \subseteq recorder'[m].rows
                      /\ seed'[m].rows = {}
                      /\ Fits(m)'
    BY DEF NewPeer
  <2>1. New(n)
    BY <1>2 DEF New
  <2>2. /\ window.rows \subseteq recorder[m].rows /\ store[m].rows \subseteq recorder[m].rows
        /\ seed[m].rows = {} /\ Fits(m)
    BY <2>1 DEF RowsInv, NewPeer
  <2>3. recorder'[m].rows = recorder[m].rows
    BY <1>3, <2>1
  <2>4. Fits(m)'
    BY <1>1, <2>2, <2>3 DEF Fits
  <2> QED
    BY <1>1, <1>2, <1>4, <2>2, <2>3, <2>4
<1>7. SeedHolds'
  <2> SUFFICES ASSUME NEW n \in Nodes, NEW m \in Nodes, n # m, seed[n].there
               PROVE  Contiguous(m, seed[n].rows)'
    BY <1>1 DEF SeedHolds
  <2>1. New(n)
    BY <1>0 DEF SeedOfTheNew, New
  <2> QED
    BY <1>1, <1>3, <2>1 DEF RowsInv, SeedHolds, Contiguous
<1>8. WholeStandby' /\ StoreHolds'
  BY <1>1 DEF WholeStandby, StoreHolds
<1> QED
  BY <1>5, <1>6, <1>7, <1>8 DEF RowsInv

\* What a pull leaves has what its base had, and the window fits onto it or is a gap.
LEMMA RowsPulled ==
  ASSUME HistoryInv, RowsInv, NEW p \in Nodes, PullApplies(p)
  PROVE  RowsInv'
<1> DEFINE base == Base(p)
           found == Finds(p, base, window)
           merged == IF found \in {"ok", "gap"}
                     THEN WithRows(base, window.rows) ELSE base
           fresh == seed[p].there
<1>0. StatisticsTypeOK /\ SeedOfTheNew /\ DiskTypes
  BY Types DEF HistoryInv, TypeInv
<1>1. /\ UNCHANGED <<now, leader, window, recorder>> /\ leader # p
      /\ store' = [store EXCEPT ![p] = merged]
      /\ seed' = [seed EXCEPT ![p] = NoDatabase]
  BY DEF PullApplies, Pulling, clusterVars, publishVars
<1>2. whole' = [whole EXCEPT ![p] = (IF fresh THEN base.rows # {} ELSE @) /\ found # "gap"]
  BY DEF PullApplies
<1>3. /\ base \in Databases /\ base.rows \in SUBSET Hours /\ window.rows \in SUBSET Hours
      /\ base.rows \subseteq merged.rows /\ merged.rows \subseteq base.rows \cup window.rows
  <2>1. base \in Databases /\ window.rows \in SUBSET Hours
    BY <1>0, BaseType, WindowFields DEF StatisticsTypeOK
  <2> QED
    BY <2>1, DatabaseFields DEF WithRows
<1>4. /\ \A n \in Nodes \ {p} :
            store'[n] = store[n] /\ seed'[n] = seed[n] /\ whole'[n] = whole[n]
      /\ store'[p] = merged /\ seed'[p] = NoDatabase
      /\ whole'[p] = ((IF fresh THEN base.rows # {} ELSE whole[p]) /\ found # "gap")
  <2> HIDE DEF merged, found, base, fresh
  <2> QED
    BY <1>0, <1>1, <1>2 DEF DiskTypes
<1>5. base \in {seed[p], recorder[p], store[p]} /\ (fresh => base = seed[p])
  BY DEF Base
<1>6. NoDatabase.rows = {} /\ ~NoDatabase.there
  BY DEF NoDatabase
\* A store that will be claimed to be whole is made of a seed, or of one that was.
<1>7. ASSUME whole'[p]
      PROVE  /\ New(p) /\ base.there /\ base.rows # {} /\ found # "gap"
             /\ \A m \in Nodes : m # p => Contiguous(m, base.rows)
  <2>1. CASE fresh
    BY <1>0, <1>4, <1>5, <1>7, <2>1 DEF RowsInv, SeedHolds, SeedOfTheNew, New
  <2>2. CASE ~fresh
    <3>1. whole[p] /\ found # "gap"
      BY <1>4, <1>7, <2>2
    <3>2. New(p) /\ store[p].there /\ store[p].rows # {}
      BY <3>1 DEF RowsInv, WholeStandby
    <3>3. base = store[p]
      BY <2>2, <3>2 DEF Base, Rebuilds
    <3> QED
      BY <3>1, <3>2, <3>3 DEF RowsInv, StoreHolds
  <2> QED
    BY <2>1, <2>2
<1>8. RowsArePast'
  <2>1. merged.rows \subseteq 1..now
    BY <1>3, <1>5 DEF RowsInv, RowsArePast
  <2> HIDE DEF merged
  <2> QED
    BY <1>1, <1>4, <1>6, <2>1 DEF RowsInv, RowsArePast
<1>9. NewPeer'
  <2> SUFFICES ASSUME NEW n \in Nodes, NEW m \in Nodes, n # m, New(n)
               PROVE  store'[m].rows \subseteq recorder[m].rows /\ seed'[m].rows = {}
    BY <1>1 DEF RowsInv, NewPeer, New, Fits
  <2>1. /\ window.rows \subseteq recorder[m].rows /\ store[m].rows \subseteq recorder[m].rows
        /\ seed[m].rows = {}
    BY DEF RowsInv, NewPeer
  <2>2. CASE m = p
    <3>1. base.rows \subseteq recorder[m].rows
      BY <1>5, <2>1, <2>2
    <3>2. merged.rows \subseteq recorder[m].rows
      BY <1>3, <2>1, <3>1
    <3> HIDE DEF merged
    <3> QED
      BY <1>4, <1>6, <2>2, <3>2
  <2>3. CASE m # p
    BY <1>4, <2>1, <2>3
  <2> QED
    BY <2>2, <2>3
<1>10. SeedHolds'
  BY <1>1, <1>4, <1>6 DEF RowsInv, SeedHolds, Contiguous
<1>11. WholeStandby'
  <2> SUFFICES ASSUME NEW n \in Nodes, whole'[n]
               PROVE  New(n) /\ leader # n /\ store'[n].there /\ store'[n].rows # {}
    BY <1>1 DEF WholeStandby, New
  <2>1. CASE n = p
    <3>1. merged.there
      BY <1>7, <2>1 DEF WithRows
    <3>2. merged.rows # {}
      BY <1>3, <1>7, <2>1
    <3> HIDE DEF merged
    <3> QED
      BY <1>1, <1>4, <1>7, <2>1, <3>1, <3>2
  <2>2. CASE n # p
    BY <1>4, <2>2 DEF RowsInv, WholeStandby
  <2> QED
    BY <2>1, <2>2
<1>12. StoreHolds'
  <2> SUFFICES ASSUME NEW n \in Nodes, NEW m \in Nodes, n # m, whole'[n]
               PROVE  Contiguous(m, store'[n].rows)
    BY <1>1 DEF StoreHolds, Contiguous
  <2>1. CASE n # p
    BY <1>4, <2>1 DEF RowsInv, StoreHolds
  <2>2. CASE n = p
    <3>1. New(p) /\ base.there /\ base.rows # {} /\ found # "gap" /\ Contiguous(m, base.rows)
      BY <1>7, <2>2
    <3>2. Fits(m)
      BY <2>2, <3>1 DEF RowsInv, NewPeer
    <3>3. CASE merged = base
      <4>1. Contiguous(m, merged.rows)
        BY <3>1, <3>3
      <4> HIDE DEF merged
      <4> QED
        BY <1>4, <2>2, <4>1
    <3>4. CASE merged # base
      <4>1. merged.rows = base.rows \cup window.rows /\ found = "ok"
        BY <3>1, <3>4 DEF WithRows
      <4>2. ~IsGap(Newest(base.rows), window.from)
        BY <4>1 DEF Finds
      <4>3. Newest(base.rows) \in Nat /\ Newest(base.rows) > 0
        <5>1. PICK k \in base.rows : TRUE
          BY <3>1
        <5>2. k \in Nat /\ k > 0
          BY <1>3, <5>1, StatisticsAssumption DEF Hours
        <5>3. k <= Newest(base.rows) /\ Newest(base.rows) \in Nat
          BY <1>3, <5>1, NewestIsGreatest
        <5> QED
          BY <5>2, <5>3
      <4>4. window.from \in Nat
        <5>1. CASE window = NoWindow
          BY <5>1 DEF NoWindow
        <5>2. CASE window # NoWindow
          <6>1. window.from \in 0..MaxHours
            BY <1>0, <5>2 DEF StatisticsTypeOK, Windows
          <6> QED
            BY <6>1, StatisticsAssumption
        <5> QED
          BY <5>1, <5>2
      <4>5. window.from <= Newest(base.rows)
        BY <4>2, <4>3, <4>4 DEF IsGap
      <4>6. ASSUME NEW h \in recorder[m].rows, h <= Newest(merged.rows)
            PROVE  h \in merged.rows
        <5>1. h \in Nat
          BY <1>0, RowsOfDatabases, StatisticsAssumption DEF Hours
        <5>2. Newest(window.rows) \in Nat /\ Newest(merged.rows) \in Nat
          BY <1>3, <4>1, NewestIsGreatest
        <5>3. CASE h <= Newest(base.rows)
          BY <3>1, <4>1, <5>3 DEF Contiguous
        <5>4. CASE ~(h <= Newest(base.rows))
          <6>1. ~(Newest(merged.rows) <= Newest(base.rows))
            BY <4>3, <4>6, <5>1, <5>2, <5>4
          <6>2. Newest(merged.rows) <= Newest(window.rows)
            BY <1>3, <4>1, <6>1, NewestOfUnion
          <6>3. h <= Newest(window.rows)
            BY <4>6, <5>1, <5>2, <6>2
          <6>4. window.from < h
            BY <4>3, <4>4, <4>5, <5>1, <5>4
          <6> QED
            BY <3>2, <4>1, <6>3, <6>4 DEF Fits
        <5> QED
          BY <5>3, <5>4
      <4>7. Contiguous(m, merged.rows)
        BY <4>6 DEF Contiguous
      <4> HIDE DEF merged
      <4> QED
        BY <1>4, <2>2, <4>7
    <3> QED
      BY <3>3, <3>4
  <2> QED
    BY <2>1, <2>2
<1> QED
  BY <1>8, <1>9, <1>10, <1>11, <1>12 DEF RowsInv

LEMMA RowsStep ==
  ASSUME TwoNodes, Calm, HistoryInv, RowsInv, [StatisticsNext]_statisticsVars
  PROVE  RowsInv'
<1>0. StatisticsTypeOK /\ OneRuns
  BY DEF HistoryInv, TypeInv
<1>1. CASE HourPasses
  BY <1>0, <1>1, RowsAfterAnHour
<1>2. CASE StatusExpires \/ UNCHANGED statisticsVars
  BY <1>2, RowsUnchanged
  DEF StatusExpires, statisticsVars, clusterVars, publishVars, diskVars
<1>3. ASSUME NEW n \in Nodes, PullReports(n) \/ Errors(n)
      PROVE  RowsInv'
  BY <1>3, RowsUnchanged
  DEF PullReports, Errors, PublishFails, PullRefuses, PullDies, clusterVars, publishVars,
      diskVars
<1>4. ASSUME NEW n \in Nodes, Demotes(n) \/ GoesDown(n)
      PROVE  RowsInv'
  BY <1>4, RowsUnchanged DEF Demotes, GoesDown, Forgets
<1>5. ASSUME NEW n \in Nodes, ComesUp(n) \/ Upgrades(n)
      PROVE  RowsInv'
  <2>1. UNCHANGED <<now, window, store, seed, whole, leader>>
    BY <1>5 DEF ComesUp, Upgrades, publishVars
  <2>2. recorder' = recorder \/ recorder' = [recorder EXCEPT ![n] = Opened(n, recorder[n])]
    BY <1>5 DEF ComesUp, Upgrades, Starts
  <2>3. Opened(n, recorder[n]).rows = recorder[n].rows
    BY DEF Opened
  <2>4. \A m \in Nodes : recorder'[m].rows = recorder[m].rows
    BY <1>0, <2>2, <2>3 DEF StatisticsTypeOK
  <2> QED
    BY <2>1, <2>4, RowsUnchanged
<1>6. ASSUME NEW n \in Nodes, Publishes(n)
      PROVE  RowsInv'
  BY <1>0, <1>6, RowsPublished
<1>7. ASSUME NEW n \in Nodes, PullApplies(n)
      PROVE  RowsInv'
  BY <1>7, RowsPulled
<1>8. ASSUME NEW n \in Nodes, Promotes(n)
      PROVE  RowsInv'
  BY <1>8, RowsPromoted
<1>9. ASSUME NEW n \in Nodes, SeedCopied(n)
      PROVE  RowsInv'
  BY <1>0, <1>9, RowsSeeded
<1> QED
  BY <1>1, <1>2, <1>3, <1>4, <1>5, <1>6, <1>7, <1>8, <1>9
  DEF StatisticsNext, PullSteps, NodeSteps

\* In a calm pair, a store seeded with rows that has reported no gap has all that the leader
\* recorded up to the store's own newest row, for any window, however late the pulls come
\* and whichever pass of the publisher they see: what the window leaves out is said.
THEOREM StoresAreContiguous ==
  ASSUME TwoNodes, Calm PROVE StatisticsSpec => []StoreIsContiguous
<1>1. StatisticsInit => HistoryInv /\ RowsInv
  BY HistoryInitially, RowsInitially
<1>2. HistoryInv /\ RowsInv /\ [StatisticsNext]_statisticsVars => (HistoryInv /\ RowsInv)'
  BY HistoryKept, RowsStep
<1>3. HistoryInv /\ RowsInv => StoreIsContiguous
  BY DEF RowsInv, WholeStandby, StoreHolds, Contiguous, StoreIsContiguous,
         HistoryInv, TypeInv, StatisticsTypeOK
<1> QED
  BY <1>1, <1>2, <1>3, PTL DEF StatisticsSpec
=============================================================================
