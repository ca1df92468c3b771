------------------------- MODULE SnapshotSyncProofs -------------------------
(***************************************************************************)
(* What holds of the shared snapshot for every set of nodes and entities,  *)
(* any number of changes and any number of flushes in flight.              *)
(***************************************************************************)
EXTENDS SnapshotSync, TLAPS

\* No flush carries a revision its mirror has not reached.
FlightsFollow == \A n \in Nodes, s \in Slots : flight[n][s].rev <= rev[n]

\* The revisions die with the process that counts them.
RevisionsDie == \A n \in Nodes : ~Up(n) => rev[n] = 0

SnapshotInv == SnapshotTypeOK /\ FlightsFollow /\ RevisionsDie

\* Shapes the provers need again and again.
LEMMA Shapes ==
    /\ 0 \in Versions
    /\ [e \in Entities |-> 0] \in Maps
    /\ NoEntries \in Entries
    /\ NoFlush \in Flushes
    /\ NoFlush.rev = 0
<1>1. 0 \in Versions
  BY SnapshotAssumption DEF Versions
<1> QED
  BY <1>1 DEF Maps, NoEntries, Entries, NoFlush, Flushes

\* A flush takes nothing but a slot of its node, and what it carries is typed.
LEMMA CapturesTypes ==
    ASSUME NEW n \in Nodes, NEW s \in Slots, SnapshotInv, Captures(n, s)
    PROVE  /\ flight' \in [Nodes -> [Slots -> Flushes]]
           /\ \A m \in Nodes, t \in Slots : flight'[m][t].rev <= rev[m]
<1> DEFINE f == [rev |-> rev[n], map |-> state[n], written |-> FALSE]
<1>1. f \in Flushes
  BY DEF SnapshotInv, SnapshotTypeOK, Flushes
<1>2. flight' = [flight EXCEPT ![n][s] = f]
  BY DEF Captures
<1>3. flight \in [Nodes -> [Slots -> Flushes]]
  BY DEF SnapshotInv, SnapshotTypeOK
<1>4. rev \in [Nodes -> Nat]
  BY DEF SnapshotInv, SnapshotTypeOK
<1> HIDE DEF f
<1>5. flight' \in [Nodes -> [Slots -> Flushes]]
  BY <1>1, <1>2, <1>3
<1>6. ASSUME NEW m \in Nodes, NEW t \in Slots
      PROVE  flight'[m][t].rev <= rev[m]
  <2>1. flight'[m][t] = IF m = n /\ t = s THEN f ELSE flight[m][t]
    BY <1>2, <1>3
  <2>2. f.rev = rev[n]
    BY DEF f
  <2> QED
    BY <2>1, <2>2, <1>4 DEF SnapshotInv, FlightsFollow
<1> QED
  BY <1>5, <1>6

\* A process that ended leaves a fresh node.
LEMMA EndsTypes ==
    ASSUME NEW n \in Nodes, NEW left \in Maps, SnapshotInv, Ends(n, left),
           leader' \in Nodes \cup {NoNode}
    PROVE  SnapshotInv'
<1>1. SnapshotTypeOK'
  BY Shapes DEF SnapshotInv, SnapshotTypeOK, Phases, Ends
<1>2. FlightsFollow'
  BY Shapes DEF SnapshotInv, SnapshotTypeOK, FlightsFollow, Ends
<1>3. RevisionsDie'
  BY DEF SnapshotInv, SnapshotTypeOK, RevisionsDie, Up, Ends
<1> QED
  BY <1>1, <1>2, <1>3 DEF SnapshotInv

\* The snapshot's steps, one by one, keep the invariant.
LEMMA FlushKeepsInv ==
    ASSUME NEW n \in Nodes, SnapshotInv, FlushSteps(n)
    PROVE  SnapshotInv'
<1> PICK s \in Slots :
        \/ ScheduledFlush(n, s) \/ ServiceFlush(n, s) \/ SnapshotWritten(n, s)
        \/ FlushReturns(n, s) \/ FlushFails(n, s)
  BY DEF FlushSteps
<1>1. CASE ScheduledFlush(n, s)
  BY <1>1, CapturesTypes
     DEF ScheduledFlush, Leads, Captures, SnapshotInv, SnapshotTypeOK, FlightsFollow,
         RevisionsDie, Up, nodeVars
<1>2. CASE ServiceFlush(n, s)
  BY <1>2, CapturesTypes
     DEF ServiceFlush, Leads, Captures, SnapshotInv, SnapshotTypeOK, FlightsFollow,
         RevisionsDie, Up, nodeVars
<1>3. CASE SnapshotWritten(n, s)
  <2>1. flight[n][s] \in Flushes
    BY DEF SnapshotInv, SnapshotTypeOK
  <2>2. store' \in Entries
    BY <1>3, <2>1 DEF SnapshotWritten, Entries, Flushes, Maps
  <2>3. flight' \in [Nodes -> [Slots -> Flushes]]
    BY <1>3, <2>1 DEF SnapshotWritten, SnapshotInv, SnapshotTypeOK, Flushes
  <2>4. \A m \in Nodes, t \in Slots : flight'[m][t].rev = flight[m][t].rev
    BY <1>3, <2>1 DEF SnapshotWritten, SnapshotInv, SnapshotTypeOK, Flushes
  <2> QED
    BY <1>3, <2>2, <2>3, <2>4
       DEF SnapshotWritten, SnapshotInv, SnapshotTypeOK, FlightsFollow,
         RevisionsDie, Up, nodeVars
<1>4. ASSUME flight' = [flight EXCEPT ![n][s] = NoFlush], rev' = rev
      PROVE  /\ flight' \in [Nodes -> [Slots -> Flushes]]
             /\ FlightsFollow'
  <2>1. flight' \in [Nodes -> [Slots -> Flushes]]
    BY <1>4, Shapes DEF SnapshotInv, SnapshotTypeOK
  <2>2. ASSUME NEW m \in Nodes, NEW t \in Slots
        PROVE  flight'[m][t].rev <= rev'[m]
    <3>1. flight'[m][t] = IF m = n /\ t = s THEN NoFlush ELSE flight[m][t]
      BY <1>4 DEF SnapshotInv, SnapshotTypeOK
    <3>2. rev[m] \in Nat
      BY DEF SnapshotInv, SnapshotTypeOK
    <3> QED
      BY <1>4, <3>1, <3>2, Shapes DEF SnapshotInv, FlightsFollow
  <2> QED
    BY <2>1, <2>2 DEF FlightsFollow
<1>5. CASE FlushReturns(n, s)
  <2>1. flight[n][s] \in Flushes
    BY DEF SnapshotInv, SnapshotTypeOK
  <2>2. owed' \in Maps
    BY <1>5, <2>1 DEF FlushReturns, SnapshotInv, SnapshotTypeOK, Flushes
  <2>3. /\ flushed' \in [Nodes -> Nat]
        /\ \A m \in Nodes : flushed'[m] <= rev[m]
    BY <1>5, <2>1 DEF FlushReturns, SnapshotInv, SnapshotTypeOK, FlightsFollow, Flushes
  <2> QED
    BY <1>4, <1>5, <2>2, <2>3 DEF FlushReturns, SnapshotInv, SnapshotTypeOK,
         RevisionsDie, Up, nodeVars
<1>6. CASE FlushFails(n, s)
  BY <1>4, <1>6 DEF FlushFails, SnapshotInv, SnapshotTypeOK,
         RevisionsDie, Up, nodeVars
<1> QED
  BY <1>1, <1>2, <1>3, <1>5, <1>6

LEMMA LifeKeepsInv ==
    ASSUME NEW n \in Nodes, SnapshotInv, LifeSteps(n)
    PROVE  SnapshotInv'
<1> USE Shapes DEF SnapshotInv, SnapshotTypeOK, Phases, RevisionsDie, Up
<1>1. ASSUME NEW e \in Entities, StateChanges(n, e)
      PROVE  SnapshotInv'
  <2>1. changes + 1 \in Versions
    BY <1>1, SnapshotAssumption DEF StateChanges, Versions
  <2>2. changes' \in Versions /\ state' \in [Nodes -> Maps]
    BY <1>1, <2>1 DEF StateChanges, Maps
  <2>3. rev' \in [Nodes -> Nat] /\ \A m \in Nodes : rev[m] <= rev'[m]
    BY <1>1 DEF StateChanges
  <2>4. \A m \in Nodes : flushed'[m] <= rev'[m]
    BY <1>1, <2>3 DEF StateChanges
  <2>5. FlightsFollow'
    BY <1>1, <2>3 DEF StateChanges, FlightsFollow, Flushes
  <2> QED
    BY <1>1, <2>2, <2>3, <2>4, <2>5 DEF StateChanges
<1>2. CASE StatesDumped(n)
  BY <1>2 DEF StatesDumped, mirrorVars, FlightsFollow
<1>3. CASE RestoreReads(n)
  BY <1>3 DEF RestoreReads, Readings, mirrorVars, FlightsFollow
<1>4. CASE RestoreApplies(n)
  <2> DEFINE theirs == {e \in Entities : reading[n][e].by \notin {n, NoNode}}
             restored == [e \in Entities |->
                            IF e \in theirs THEN reading[n][e].v ELSE state[n][e]]
  <2>1. restored \in Maps
    <3>1. reading[n] \in Entries /\ state[n] \in Maps
      OBVIOUS
    <3> QED
      BY <3>1 DEF Entries, Maps
  <2>2. /\ state' = [state EXCEPT ![n] = restored]
        /\ rev' = [rev EXCEPT ![n] = IF restored = state[n] THEN @ ELSE @ + 1]
    BY <1>4 DEF RestoreApplies
  <2> HIDE DEF restored
  <2>3. state' \in [Nodes -> Maps]
    BY <2>1, <2>2
  <2>4. rev' \in [Nodes -> Nat] /\ \A m \in Nodes : rev[m] <= rev'[m]
    BY <2>2
  <2>5. FlightsFollow'
    BY <1>4, <2>4 DEF RestoreApplies, FlightsFollow, Flushes
  <2>6. \A m \in Nodes : flushed'[m] <= rev'[m]
    BY <1>4, <2>4 DEF RestoreApplies
  <2> QED
    BY <1>4, <2>3, <2>4, <2>5, <2>6 DEF RestoreApplies
<1>5. CASE GateOpensAnyway(n)
  BY <1>5 DEF GateOpensAnyway, mirrorVars, FlightsFollow
<1>6. CASE StopBegins(n)
  <2>1. CASE \E s \in Slots : Captures(n, s)
    BY <1>6, <2>1, CapturesTypes DEF StopBegins, Captures, Leads, mirrorVars, FlightsFollow
  <2>2. CASE UNCHANGED mirrorVars
    BY <1>6, <2>2 DEF StopBegins, Leads, mirrorVars, FlightsFollow
  <2> QED
    BY <1>6, <2>1, <2>2 DEF StopBegins
<1>7. CASE StopEnds(n)
  BY <1>7, EndsTypes DEF StopEnds, HandsBack
<1>8. CASE Crashes(n)
  BY <1>8, EndsTypes DEF Crashes
<1>9. CASE Starts(n)
  <2>1. owed' \in Maps
    BY <1>9 DEF Starts, Maps
  <2>2. rev' \in [Nodes -> Nat] /\ \A m \in Nodes : rev[m] <= rev'[m]
    BY <1>9 DEF Starts
  <2>3. \A m \in Nodes : flushed'[m] <= rev'[m]
    BY <1>9, <2>2 DEF Starts
  <2>4. FlightsFollow'
    BY <1>9, <2>2 DEF Starts, FlightsFollow, Flushes
  <2>5. RevisionsDie'
    BY <1>9 DEF Starts
  <2> QED
    BY <1>9, <2>1, <2>2, <2>3, <2>4, <2>5 DEF Starts
<1>10. CASE Unloads(n)
  <2>1. CASE \E s \in Slots : Captures(n, s)
    BY <1>10, <2>1, CapturesTypes DEF Unloads, Captures, FlightsFollow
  <2>2. CASE UNCHANGED mirrorVars
    BY <1>10, <2>2 DEF Unloads, mirrorVars, FlightsFollow
  <2> QED
    BY <1>10, <2>1, <2>2 DEF Unloads
<1>11. CASE Reloaded(n)
  <2>1. \A s \in Slots : flight'[n][s].rev <= rev'[n]
    BY <1>11 DEF Reloaded, Quiet, Free
  <2>2. FlightsFollow'
    BY <1>11, <2>1 DEF Reloaded, FlightsFollow
  <2> QED
    BY <1>11, <2>2 DEF Reloaded, HandsBack
<1> QED
  BY <1>1, <1>2, <1>3, <1>4, <1>5, <1>6, <1>7, <1>8, <1>9, <1>10, <1>11 DEF LifeSteps

\* The invariant is inductive, whatever the disturbances.
LEMMA InvHolds == SnapshotSpec => []SnapshotInv
<1>1. SnapshotInit => SnapshotInv
  BY Shapes
     DEF SnapshotInit, SnapshotInv, SnapshotTypeOK, Phases, FlightsFollow, RevisionsDie, Up
<1>2. SnapshotInv /\ [SnapshotNext]_snapshotVars => SnapshotInv'
  <2> SUFFICES ASSUME SnapshotInv, [SnapshotNext]_snapshotVars
               PROVE  SnapshotInv'
    OBVIOUS
  <2>1. CASE LeaseMoves
    BY <2>1 DEF LeaseMoves, SnapshotInv, SnapshotTypeOK, FlightsFollow, RevisionsDie, Up,
                nodeVars, mirrorVars
  <2>2. CASE UNCHANGED snapshotVars
    BY <2>2 DEF SnapshotInv, SnapshotTypeOK, FlightsFollow, RevisionsDie, Up,
                snapshotVars, nodeVars, mirrorVars
  <2> QED
    BY <2>1, <2>2, FlushKeepsInv, LifeKeepsInv DEF SnapshotNext
<1> QED
  BY <1>1, <1>2, PTL DEF SnapshotSpec
(* Every state of the snapshot's exchange is well typed; above all, a mirror   *)
(* never claims a revision written that it has not reached (async_flush marks  *)
(* "only the revision we actually wrote").                                     *)
THEOREM SnapshotTypeCorrect == SnapshotSpec => []SnapshotTypeOK
<1>1. SnapshotInv => SnapshotTypeOK
  BY DEF SnapshotInv
<1> QED
  BY <1>1, InvHolds, PTL
==============================================================================
