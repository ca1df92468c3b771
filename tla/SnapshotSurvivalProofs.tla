----------------------- MODULE SnapshotSurvivalProofs -----------------------
(***************************************************************************)
(* What the snapshot keeps, for every set of nodes and entities and any    *)
(* number of changes: a mirror that reads clean is written, and what a     *)
(* flush was told it published is not replaced by anything older.  Both    *)
(* need that a node has one flush on its way at a time, which nothing in   *)
(* the code sees to: two that overlap may land in either order.            *)
(***************************************************************************)
EXTENDS SnapshotSyncProofs

OneFlush == \A s, t \in Slots : s = t

------------------------------------------------------------------------------
(* A clean mirror is written. *)

\* A flush on its way is newer than what is marked clean, and if the mirror has not moved
\* on since the capture, it carries what the mirror shows.
FlightIsAhead(n) ==
    \A s \in Slots :
        ~Free(n, s) => /\ flushed[n] < flight[n][s].rev
                       /\ flight[n][s].rev = rev[n] => flight[n][s].map = state[n]

\* What the server has of a node is what the node's flush carried, once that was written.
WrittenIsThere(n) ==
    \A s \in Slots :
        flight[n][s].written =>
            \A e \in Entities : store[e].by = n => store[e].v = flight[n][s].map[e]

\* ... or what a clean mirror shows.
CleanIsThere(n) ==
    Up(n) /\ ~Dirty(n) =>
        \A e \in Entities : store[e].by = n => store[e].v = state[n][e]

Accounted(n) == FlightIsAhead(n) /\ WrittenIsThere(n) /\ CleanIsThere(n)

MirrorInv == SnapshotInv /\ \A n \in Nodes : Accounted(n)

LEMMA NothingIsWritten == NoFlush.written = FALSE
BY DEF NoFlush

\* The types of a node's part.
LEMMA NodeShapes ==
    ASSUME SnapshotInv, NEW n \in Nodes
    PROVE  /\ rev[n] \in Nat /\ flushed[n] \in Nat /\ flushed[n] <= rev[n]
           /\ state[n] \in Maps /\ disk[n] \in Maps /\ reading[n] \in Entries
           /\ \A s \in Slots : flight[n][s] \in Flushes /\ flight[n][s].rev <= rev[n]
           /\ ~Up(n) => rev[n] = 0 /\ flushed[n] = 0
BY DEF SnapshotInv, SnapshotTypeOK, FlightsFollow, RevisionsDie

\* A node's account is not touched by what leaves its mirror alone and writes nothing in
\* its name.
LEMMA AccountStays ==
    ASSUME NEW n \in Nodes, Accounted(n),
           rev'[n] = rev[n], flushed'[n] = flushed[n], state'[n] = state[n],
           flight'[n] = flight[n],
           Up(n)' => Up(n),
           \A e \in Entities : store'[e] = store[e] \/ store'[e].by # n
    PROVE  Accounted(n)'
<1>1. FlightIsAhead(n)'
  BY DEF Accounted, FlightIsAhead, Free
<1>2. WrittenIsThere(n)'
  BY DEF Accounted, WrittenIsThere
<1>3. CleanIsThere(n)'
  BY DEF Accounted, CleanIsThere, Dirty
<1> QED
  BY <1>1, <1>2, <1>3 DEF Accounted

\* What a node does leaves the others' mirrors alone, and it writes in its own name.
LEMMA OthersStay ==
    ASSUME SnapshotInv, NEW m \in Nodes, FlushSteps(m) \/ LifeSteps(m), NEW n \in Nodes \ {m}
    PROVE  /\ rev'[n] = rev[n] /\ flushed'[n] = flushed[n] /\ state'[n] = state[n]
           /\ flight'[n] = flight[n] /\ phase'[n] = phase[n] /\ gate'[n] = gate[n]
           /\ disk'[n] = disk[n] /\ reading'[n] = reading[n]
           /\ \A e \in Entities : store'[e] = store[e] \/ store'[e].by = m
<1> USE DEF SnapshotInv, SnapshotTypeOK
<1>1. ASSUME NEW s \in Slots, ScheduledFlush(m, s) \/ ServiceFlush(m, s)
      PROVE  /\ UNCHANGED <<rev, flushed, state, phase, gate, disk, reading, store>>
             /\ flight'[n] = flight[n]
  BY <1>1 DEF ScheduledFlush, ServiceFlush, Captures, nodeVars
<1>2. ASSUME NEW s \in Slots, SnapshotWritten(m, s)
      PROVE  /\ UNCHANGED <<rev, flushed, state, phase, gate, disk, reading>>
             /\ flight'[n] = flight[n]
             /\ \A e \in Entities : store'[e].by = m
  BY <1>2 DEF SnapshotWritten, nodeVars
<1>3. ASSUME NEW s \in Slots, FlushReturns(m, s) \/ FlushFails(m, s)
      PROVE  /\ UNCHANGED <<rev, state, phase, gate, disk, reading, store>>
             /\ flight'[n] = flight[n] /\ flushed'[n] = flushed[n]
  BY <1>3 DEF FlushReturns, FlushFails, nodeVars
<1>4. CASE \E e \in Entities : StateChanges(m, e)
  BY <1>4 DEF StateChanges
<1>5. CASE StatesDumped(m) \/ Starts(m) \/ RestoreReads(m) \/ GateOpensAnyway(m) \/ Reloaded(m)
  BY <1>5 DEF StatesDumped, Starts, RestoreReads, GateOpensAnyway, Reloaded, mirrorVars
<1>6. CASE RestoreApplies(m)
  BY <1>6 DEF RestoreApplies
<1>7. CASE Unloads(m) \/ StopBegins(m)
  BY <1>7 DEF Unloads, StopBegins, Captures, mirrorVars
<1>8. CASE StopEnds(m) \/ Crashes(m)
  BY <1>8 DEF StopEnds, Crashes, Ends
<1> QED
  BY <1>1, <1>2, <1>3, <1>4, <1>5, <1>6, <1>7, <1>8 DEF FlushSteps, LifeSteps

\* A capture is of what the mirror shows, and of a mirror that is not clean.
LEMMA CaptureAccounts ==
    ASSUME OneFlush, SnapshotInv, NEW n \in Nodes, Accounted(n),
           NEW s \in Slots, Captures(n, s), UNCHANGED <<state, store>>
    PROVE  Accounted(n)'
<1> DEFINE f == [rev |-> rev[n], map |-> state[n], written |-> FALSE]
<1>1. \A t \in Slots : flight'[n][t] = f
  BY DEF OneFlush, Captures, SnapshotInv, SnapshotTypeOK
<1>2. UNCHANGED <<rev, flushed>> /\ Dirty(n)
  BY DEF Captures
<1>3. flushed[n] < rev[n]
  BY <1>2, NodeShapes DEF Dirty
<1>4. f.rev = rev[n] /\ f.map = state[n] /\ f.written = FALSE
  OBVIOUS
<1> HIDE DEF f
<1>5. FlightIsAhead(n)'
  BY <1>1, <1>2, <1>3, <1>4 DEF FlightIsAhead
<1>6. WrittenIsThere(n)'
  BY <1>1, <1>4 DEF WrittenIsThere
<1>7. CleanIsThere(n)'
  BY <1>2 DEF CleanIsThere, Dirty
<1> QED
  BY <1>5, <1>6, <1>7 DEF Accounted

\* A mirror that starts over owes everything.
LEMMA AfreshAccounts ==
    ASSUME SnapshotInv, NEW n \in Nodes, Quiet(n)', rev'[n] # flushed'[n] \/ ~Up(n)'
    PROVE  Accounted(n)'
<1>1. \A s \in Slots : flight'[n][s] = NoFlush
  BY DEF Quiet, Free
<1> QED
  BY <1>1, NothingIsWritten
     DEF Accounted, FlightIsAhead, WrittenIsThere, CleanIsThere, Dirty, Free

\* A step of a node's flushes keeps its account.
LEMMA FlushAccounts ==
    ASSUME OneFlush, SnapshotInv, NEW n \in Nodes, Accounted(n), FlushSteps(n)
    PROVE  Accounted(n)'
<1> PICK s \in Slots :
        \/ ScheduledFlush(n, s) \/ ServiceFlush(n, s) \/ SnapshotWritten(n, s)
        \/ FlushReturns(n, s) \/ FlushFails(n, s)
  BY DEF FlushSteps
<1>0. \A t \in Slots : t = s
  BY DEF OneFlush
<1>1. CASE ScheduledFlush(n, s) \/ ServiceFlush(n, s)
  BY <1>1, CaptureAccounts DEF ScheduledFlush, ServiceFlush, nodeVars
<1>2. CASE SnapshotWritten(n, s)
  <2>1. /\ flight'[n][s].rev = flight[n][s].rev
        /\ flight'[n][s].map = flight[n][s].map
    BY <1>2 DEF SnapshotWritten, SnapshotInv, SnapshotTypeOK, Flushes
  <2>2. \A e \in Entities : store'[e].v = flight[n][s].map[e]
    BY <1>2 DEF SnapshotWritten
  <2>3. ~Free(n, s) /\ UNCHANGED <<rev, flushed, state>>
    BY <1>2 DEF SnapshotWritten, nodeVars
  <2>4. rev[n] # flushed[n]
    BY <2>3, NodeShapes DEF Accounted, FlightIsAhead, Flushes
  <2>5. FlightIsAhead(n)'
    BY <1>0, <2>1, <2>3 DEF Accounted, FlightIsAhead
  <2>6. WrittenIsThere(n)'
    BY <1>0, <2>1, <2>2 DEF WrittenIsThere
  <2>7. CleanIsThere(n)'
    BY <2>3, <2>4 DEF CleanIsThere, Dirty
  <2> QED
    BY <2>5, <2>6, <2>7 DEF Accounted
<1>3. CASE FlushReturns(n, s)
  <2>1. ~Free(n, s)
    BY <1>3 DEF FlushReturns, Free, NoFlush
  <2>2. \A t \in Slots : flight'[n][t] = NoFlush
    BY <1>0, <1>3 DEF FlushReturns, SnapshotInv, SnapshotTypeOK
  <2>3. flushed'[n] = flight[n][s].rev /\ UNCHANGED <<rev, state, store, phase>>
    BY <1>3 DEF FlushReturns, SnapshotInv, SnapshotTypeOK, nodeVars
  <2>4. flight[n][s].rev = rev[n] =>
          \A e \in Entities : store[e].by = n => store[e].v = state[n][e]
    BY <1>3, <2>1 DEF FlushReturns, Accounted, FlightIsAhead, WrittenIsThere
  <2>5. CleanIsThere(n)'
    BY <2>3, <2>4 DEF CleanIsThere, Dirty
  <2> QED
    BY <2>2, <2>5, NothingIsWritten DEF Accounted, FlightIsAhead, WrittenIsThere, Free
<1>4. CASE FlushFails(n, s)
  <2>1. \A t \in Slots : flight'[n][t] = NoFlush
    BY <1>0, <1>4 DEF FlushFails, SnapshotInv, SnapshotTypeOK
  <2>2. rev[n] # flushed[n]
    BY <1>4, NodeShapes DEF FlushFails, Accounted, FlightIsAhead, Flushes
  <2>3. rev'[n] # flushed'[n]
    BY <1>4, <2>2 DEF FlushFails
  <2> QED
    BY <2>1, <2>3, AfreshAccounts DEF Quiet, Free
<1> QED
  BY <1>1, <1>2, <1>3, <1>4

\* So does a step of its Home Assistant: a state that changes makes the mirror dirty.
LEMMA LifeAccounts ==
    ASSUME OneFlush, SnapshotInv, NEW n \in Nodes, Accounted(n), LifeSteps(n)
    PROVE  Accounted(n)'
<1>1. ASSUME rev'[n] = rev[n] + 1, UNCHANGED <<flushed, flight, store>>
      PROVE  Accounted(n)'
  <2>1. \A s \in Slots : flight[n][s].rev < rev'[n]
    BY <1>1, NodeShapes DEF Flushes
  <2>2. flushed'[n] < rev'[n]
    BY <1>1, NodeShapes
  <2>3. FlightIsAhead(n)'
    BY <1>1, <2>1, NodeShapes DEF Accounted, FlightIsAhead, Free, Flushes
  <2>4. WrittenIsThere(n)'
    BY <1>1 DEF Accounted, WrittenIsThere
  <2>5. CleanIsThere(n)'
    BY <1>1, <2>2, NodeShapes DEF CleanIsThere, Dirty
  <2> QED
    BY <2>3, <2>4, <2>5 DEF Accounted
<1>2. CASE \E e \in Entities : StateChanges(n, e)
  BY <1>1, <1>2 DEF StateChanges, SnapshotInv, SnapshotTypeOK
<1>3. CASE StatesDumped(n) \/ RestoreReads(n) \/ GateOpensAnyway(n)
  <2>1. UNCHANGED <<state, rev, flushed, flight, store>> /\ (Up(n)' => Up(n))
    BY <1>3 DEF StatesDumped, RestoreReads, GateOpensAnyway, mirrorVars, Up
  <2> QED
    BY <2>1, AccountStays
<1>4. CASE Starts(n)
  <2>1. flushed[n] = 0 /\ rev[n] = 0 /\ rev'[n] = 1
    BY <1>4, NodeShapes DEF Starts, SnapshotInv, SnapshotTypeOK
  <2>2. Quiet(n)
    BY <2>1, NodeShapes DEF Accounted, FlightIsAhead, Quiet, Flushes
  <2>3. Quiet(n)' /\ rev'[n] # flushed'[n]
    BY <1>4, <2>1, <2>2 DEF Starts, Quiet, Free
  <2> QED
    BY <2>3, AfreshAccounts
<1>5. CASE RestoreApplies(n)
  <2>1. /\ UNCHANGED <<flushed, flight, store>> /\ Up(n)
        /\ \/ rev'[n] = rev[n] + 1
           \/ rev'[n] = rev[n] /\ state'[n] = state[n]
    BY <1>5 DEF RestoreApplies, SnapshotInv, SnapshotTypeOK, Up
  <2>2. CASE rev'[n] = rev[n] + 1
    BY <1>1, <2>1, <2>2
  <2>3. CASE rev'[n] = rev[n] /\ state'[n] = state[n]
    BY <2>1, <2>3, AccountStays
  <2> QED
    BY <2>1, <2>2, <2>3
<1>6. CASE Unloads(n) \/ StopBegins(n)
  <2>1. UNCHANGED <<state, store>> /\ Up(n)
    BY <1>6 DEF Unloads, StopBegins, Stoppable, Up
  <2>2. CASE \E s \in Slots : Captures(n, s)
    BY <2>1, <2>2, CaptureAccounts
  <2>3. CASE UNCHANGED mirrorVars
    BY <2>1, <2>3, AccountStays DEF mirrorVars
  <2> QED
    BY <1>6, <2>2, <2>3 DEF Unloads, StopBegins
<1>7. CASE Reloaded(n)
  <2>1. Quiet(n)' /\ rev'[n] = 1 /\ flushed'[n] = 0
    BY <1>7 DEF Reloaded, Quiet, Free, SnapshotInv, SnapshotTypeOK
  <2> QED
    BY <2>1, AfreshAccounts
<1>8. CASE StopEnds(n) \/ Crashes(n)
  <2>1. Quiet(n)' /\ ~Up(n)'
    BY <1>8 DEF StopEnds, Crashes, Ends, Quiet, Free, Up, SnapshotInv, SnapshotTypeOK
  <2> QED
    BY <2>1, AfreshAccounts
<1> QED
  BY <1>2, <1>3, <1>4, <1>5, <1>6, <1>7, <1>8 DEF LifeSteps

LEMMA MirrorStep ==
    ASSUME OneFlush, MirrorInv, SnapshotNext
    PROVE  \A n \in Nodes : Accounted(n)'
<1> SUFFICES ASSUME NEW n \in Nodes PROVE Accounted(n)'
  OBVIOUS
<1>1. SnapshotInv /\ Accounted(n)
  BY DEF MirrorInv
<1>2. CASE LeaseMoves
  BY <1>1, <1>2, AccountStays DEF LeaseMoves, nodeVars, mirrorVars, Up
<1>3. CASE FlushSteps(n) \/ LifeSteps(n)
  BY <1>1, <1>3, FlushAccounts, LifeAccounts
<1>4. ASSUME NEW m \in Nodes \ {n}, FlushSteps(m) \/ LifeSteps(m)
      PROVE  Accounted(n)'
  BY <1>1, <1>4, OthersStay, AccountStays DEF Up
<1> QED
  BY <1>2, <1>3, <1>4 DEF SnapshotNext

LEMMA MirrorHolds == OneFlush => (SnapshotSpec => []MirrorInv)
<1> SUFFICES ASSUME OneFlush PROVE SnapshotSpec => []MirrorInv
  OBVIOUS
<1>1. SnapshotInit => \A n \in Nodes : Accounted(n)
  <2> SUFFICES ASSUME SnapshotInit, NEW n \in Nodes PROVE Accounted(n)
    OBVIOUS
  <2>1. ~Up(n) /\ \A s \in Slots : flight[n][s] = NoFlush
    BY DEF SnapshotInit, Up
  <2> QED
    BY <2>1, NothingIsWritten DEF Accounted, FlightIsAhead, WrittenIsThere, CleanIsThere, Free
<1>2. SnapshotInv /\ (\A n \in Nodes : Accounted(n)) /\ [SnapshotNext]_snapshotVars
        => (\A n \in Nodes : Accounted(n))'
  <2> SUFFICES ASSUME SnapshotInv, \A n \in Nodes : Accounted(n), [SnapshotNext]_snapshotVars,
                      NEW n \in Nodes
               PROVE  Accounted(n)'
    OBVIOUS
  <2>1. CASE SnapshotNext
    BY <2>1, MirrorStep DEF MirrorInv
  <2>2. CASE UNCHANGED snapshotVars
    BY <2>2, AccountStays DEF snapshotVars, nodeVars, mirrorVars, Up
  <2> QED
    BY <2>1, <2>2
<1> QED
  BY <1>1, <1>2, InvHolds, PTL DEF SnapshotSpec, MirrorInv

(* A mirror that reads clean is written, whatever else goes wrong: stops and    *)
(* flushes before the restore, restores that cannot read, crashes and failed    *)
(* writes (AR-0011: a failed write leaves "the revision dirty").                *)
THEOREM CleanIsWritten ==
    ASSUME OneFlush
    PROVE  SnapshotSpec => []CleanMeansWritten
<1>1. MirrorInv => CleanMeansWritten
  BY DEF MirrorInv, Accounted, CleanIsThere, CleanMeansWritten, Up
<1> QED
  BY <1>1, MirrorHolds, PTL

------------------------------------------------------------------------------
(* One node at a time is past the reading of its restore. *)

\* Nothing but outages and crashes, and Home Assistant starts on the leader only.
OnlyOutages == Cold /\ Disturbances = {}

Past == {"running", "unloading", "stopping"}

\* A node that may write: it has read the snapshot, or has given it up.
Active(n) == phase[n] \in Past \cup {"restoring"} \/ gate[n] # "shut"

GateFits(n) ==
    /\ ~Up(n) => gate[n] = "shut"
    /\ phase[n] \in Past => gate[n] # "shut"
    /\ gate[n] = "open" => phase[n] \in Past
    /\ gate[n] = "shut" => Quiet(n)

OneActive == \A m, n \in Nodes : Active(m) /\ Active(n) => m = n

TurnInv == SnapshotInv /\ OneActive /\ \A n \in Nodes : GateFits(n)

\* What OnlyOutages leaves of the choices.
LEMMA OnlyOutagesLeaves ==
    ASSUME OnlyOutages
    PROVE  /\ Callable = {"running"} /\ Stoppable = {"running"} /\ Readings = {store}
           /\ \A n \in Nodes : BootIsLast(n) => \A m \in Nodes \ {n} : ~Up(m)
BY DEF OnlyOutages, Callable, Stoppable, Readings, BootIsLast

\* A capture comes from behind an open gate.
LEMMA CapturesFromPast ==
    ASSUME OnlyOutages, SnapshotInv, NEW n \in Nodes, GateFits(n), NEW s \in Slots,
           \/ ScheduledFlush(n, s) \/ ServiceFlush(n, s)
           \/ Unloads(n) \/ StopBegins(n)
    PROVE  gate[n] # "shut" /\ gate' = gate
BY OnlyOutagesLeaves
   DEF ScheduledFlush, ServiceFlush, Unloads, StopBegins, GateFits, Past, nodeVars

\* The node whose step it is keeps its gate in order, and becomes active alone.
LEMMA OwnTurn ==
    ASSUME OnlyOutages, SnapshotInv, NEW n \in Nodes, GateFits(n), FlushSteps(n) \/ LifeSteps(n)
    PROVE  /\ GateFits(n)'
           /\ Active(n)' => Active(n) \/ \A m \in Nodes \ {n} : ~Up(m)
<1> USE DEF GateFits, Active, Past, Up
<1>0. phase \in [Nodes -> Phases] /\ gate \in [Nodes -> {"shut", "open", "forced"}]
  BY DEF SnapshotInv, SnapshotTypeOK
<1>1. ASSUME NEW s \in Slots, ScheduledFlush(n, s) \/ ServiceFlush(n, s)
      PROVE  gate[n] # "shut" /\ UNCHANGED <<phase, gate>>
  BY <1>1, CapturesFromPast DEF ScheduledFlush, ServiceFlush, nodeVars
<1>2. ASSUME NEW s \in Slots, SnapshotWritten(n, s) \/ FlushReturns(n, s) \/ FlushFails(n, s)
      PROVE  gate[n] # "shut" /\ UNCHANGED <<phase, gate>>
  BY <1>2, NothingIsWritten
     DEF SnapshotWritten, FlushReturns, FlushFails, Quiet, Free, nodeVars
<1>3. CASE (\E e \in Entities : StateChanges(n, e)) \/ StatesDumped(n)
  BY <1>3 DEF StateChanges, StatesDumped, Quiet, Free, mirrorVars
<1>4. CASE Starts(n)
  BY <1>0, <1>4 DEF Starts, Quiet, Free
<1>5. CASE RestoreReads(n)
  BY <1>0, <1>5, OnlyOutagesLeaves DEF RestoreReads, Quiet, Free, mirrorVars
<1>6. CASE RestoreApplies(n)
  BY <1>0, <1>6 DEF RestoreApplies
<1>7. CASE GateOpensAnyway(n)
  BY <1>0, <1>7, OnlyOutagesLeaves DEF GateOpensAnyway
<1>8. CASE Unloads(n) \/ StopBegins(n)
  BY <1>0, <1>8, OnlyOutagesLeaves DEF Unloads, StopBegins
<1>9. CASE Reloaded(n)
  BY <1>0, <1>9 DEF Reloaded
<1>10. CASE StopEnds(n) \/ Crashes(n)
  BY <1>0, <1>10 DEF StopEnds, Crashes, Ends, Quiet, Free, SnapshotInv, SnapshotTypeOK
<1> QED
  BY <1>1, <1>2, <1>3, <1>4, <1>5, <1>6, <1>7, <1>8, <1>9, <1>10 DEF FlushSteps, LifeSteps

LEMMA TurnStep ==
    ASSUME OnlyOutages, TurnInv, [SnapshotNext]_snapshotVars
    PROVE  OneActive' /\ \A n \in Nodes : GateFits(n)'
<1> USE DEF TurnInv
<1>1. CASE LeaseMoves \/ UNCHANGED snapshotVars
  BY <1>1 DEF LeaseMoves, snapshotVars, nodeVars, mirrorVars, OneActive, Active, GateFits, Up,
              Quiet, Free
<1>2. ASSUME NEW n \in Nodes, FlushSteps(n) \/ LifeSteps(n)
      PROVE  OneActive' /\ \A m \in Nodes : GateFits(m)'
  <2>1. GateFits(n)' /\ (Active(n)' => Active(n) \/ \A m \in Nodes \ {n} : ~Up(m))
    BY <1>2, OwnTurn
  <2>2. ASSUME NEW m \in Nodes \ {n}
        PROVE  GateFits(m)' /\ (Active(m)' <=> Active(m))
    BY <1>2, <2>2, OthersStay DEF GateFits, Active, Up, Quiet, Free
  <2>3. ASSUME NEW m \in Nodes, ~Up(m)
        PROVE  ~Active(m)
    BY <2>3 DEF GateFits, Active, Up, Past
  <2>4. OneActive'
    BY <2>1, <2>2, <2>3 DEF OneActive
  <2> QED
    BY <2>1, <2>2, <2>4
<1> QED
  BY <1>1, <1>2 DEF SnapshotNext

------------------------------------------------------------------------------
(* No version is ahead of the changes there have been. *)

NodeInPast(n) ==
    \A e \in Entities :
        /\ state[n][e] <= changes /\ disk[n][e] <= changes /\ reading[n][e].v <= changes
        /\ \A s \in Slots : flight[n][s].map[e] <= changes

StoreInPast == \A e \in Entities : store[e].v <= changes /\ owed[e] <= changes

InPast == StoreInPast /\ \A n \in Nodes : NodeInPast(n)

LEMMA Numbers ==
    ASSUME SnapshotInv
    PROVE  /\ changes \in Nat
           /\ \A e \in Entities : owed[e] \in Nat /\ store[e].v \in Nat
           /\ \A n \in Nodes, e \in Entities :
                /\ state[n][e] \in Nat /\ disk[n][e] \in Nat /\ reading[n][e].v \in Nat
                /\ \A s \in Slots : flight[n][s].map[e] \in Nat
<1>1. Versions \subseteq Nat
  BY SnapshotAssumption DEF Versions
<1>2. /\ changes \in Versions /\ owed \in Maps /\ store \in Entries
      /\ \A n \in Nodes : state[n] \in Maps /\ disk[n] \in Maps /\ reading[n] \in Entries
      /\ \A n \in Nodes, s \in Slots : flight[n][s].map \in Maps
  BY DEF SnapshotInv, SnapshotTypeOK, Flushes
<1>3. /\ \A m \in Maps, e \in Entities : m[e] \in Versions
      /\ \A m \in Entries, e \in Entities : m[e].v \in Versions
  BY DEF Maps, Entries
<1> QED
  BY <1>1, <1>2, <1>3

LEMMA ZeroInPast ==
    ASSUME SnapshotInv, NEW e \in Entities
    PROVE  0 <= changes /\ NoEntries[e].v <= changes /\ NoFlush.map[e] <= changes
BY Numbers DEF NoEntries, NoFlush

\* A node's flushes and life take versions from where they are; a change makes the next.
LEMMA PastStep ==
    ASSUME SnapshotInv, InPast, [SnapshotNext]_snapshotVars
    PROVE  InPast'
<1> USE DEF SnapshotInv, SnapshotTypeOK
<1>1. CASE LeaseMoves \/ UNCHANGED snapshotVars
  BY <1>1 DEF LeaseMoves, snapshotVars, nodeVars, mirrorVars, InPast, StoreInPast, NodeInPast
<1>2. ASSUME NEW n \in Nodes, FlushSteps(n) \/ LifeSteps(n), changes' = changes,
             NodeInPast(n)', StoreInPast'
      PROVE  InPast'
  <2>1. ASSUME NEW m \in Nodes \ {n}
        PROVE  NodeInPast(m)'
    BY <1>2, <2>1, OthersStay DEF InPast, NodeInPast
  <2> QED
    BY <1>2, <2>1 DEF InPast
<1>3. ASSUME NEW n \in Nodes, FlushSteps(n)
      PROVE  InPast'
  <2> PICK s \in Slots :
          \/ ScheduledFlush(n, s) \/ ServiceFlush(n, s) \/ SnapshotWritten(n, s)
          \/ FlushReturns(n, s) \/ FlushFails(n, s)
    BY <1>3 DEF FlushSteps
  <2>1. CASE ScheduledFlush(n, s) \/ ServiceFlush(n, s)
    <3>1. \A t \in Slots : flight'[n][t].map \in {flight[n][t].map, state[n]}
      BY <2>1 DEF ScheduledFlush, ServiceFlush, Captures
    <3> QED
      BY <1>2, <1>3, <2>1, <3>1
         DEF ScheduledFlush, ServiceFlush, nodeVars, InPast, NodeInPast, StoreInPast
  <2>2. CASE SnapshotWritten(n, s)
    <3>1. \A t \in Slots : flight'[n][t].map = flight[n][t].map
      BY <2>2 DEF SnapshotWritten, Flushes
    <3>2. \A e \in Entities : store'[e].v = flight[n][s].map[e]
      BY <2>2 DEF SnapshotWritten
    <3> QED
      BY <1>2, <1>3, <2>2, <3>1, <3>2
         DEF SnapshotWritten, nodeVars, InPast, NodeInPast, StoreInPast
  <2>3. CASE FlushReturns(n, s) \/ FlushFails(n, s)
    <3>1. \A t \in Slots : flight'[n][t] \in {flight[n][t], NoFlush}
      BY <2>3 DEF FlushReturns, FlushFails
    <3>2. owed' \in {owed, flight[n][s].map}
      BY <2>3 DEF FlushReturns, FlushFails
    <3>3. UNCHANGED <<changes, state, disk, reading, store>>
      BY <2>3 DEF FlushReturns, FlushFails, nodeVars
    <3>4. NodeInPast(n) /\ StoreInPast
      BY DEF InPast
    <3>5. NodeInPast(n)'
      BY <3>1, <3>3, <3>4, ZeroInPast DEF NodeInPast
    <3>6. StoreInPast'
      BY <3>2, <3>3, <3>4 DEF NodeInPast, StoreInPast
    <3> QED
      BY <1>2, <1>3, <3>3, <3>5, <3>6
  <2> QED
    BY <2>1, <2>2, <2>3
<1>4. ASSUME NEW n \in Nodes, NEW e \in Entities, StateChanges(n, e)
      PROVE  InPast'
  <2>1. changes' = changes + 1 /\ UNCHANGED <<disk, reading, flight, store, owed>>
    BY <1>4 DEF StateChanges
  <2>2. \A m \in Nodes, d \in Entities : state'[m][d] \in {state[m][d], changes + 1}
    BY <1>4 DEF StateChanges, Maps
  <2>3. \A x \in Nat : x <= changes => x <= changes + 1
    BY Numbers
  <2>4. StoreInPast'
    BY <2>1, <2>3, Numbers DEF InPast, StoreInPast
  <2>5. ASSUME NEW m \in Nodes
        PROVE  NodeInPast(m)'
    <3>1. NodeInPast(m) /\ changes \in Nat
      BY Numbers DEF InPast
    <3>2. ASSUME NEW d \in Entities
          PROVE  state'[m][d] <= changes + 1
      <4>1. state[m][d] <= changes + 1
        BY <2>3, <3>1, Numbers DEF NodeInPast
      <4>2. changes + 1 <= changes + 1
        BY <3>1
      <4> QED
        BY <2>2, <4>1, <4>2
    <3>3. ASSUME NEW d \in Entities
          PROVE  /\ disk[m][d] <= changes + 1 /\ reading[m][d].v <= changes + 1
                 /\ \A s \in Slots : flight[m][s].map[d] <= changes + 1
      BY <2>3, <3>1, Numbers DEF NodeInPast
    <3> QED
      BY <2>1, <3>2, <3>3 DEF NodeInPast
  <2> QED
    BY <2>4, <2>5 DEF InPast
<1>5. ASSUME NEW n \in Nodes,
             StatesDumped(n) \/ Starts(n) \/ RestoreReads(n) \/ GateOpensAnyway(n)
      PROVE  InPast'
  <2>1. UNCHANGED <<changes, state, flight, store>>
    BY <1>5 DEF StatesDumped, Starts, RestoreReads, GateOpensAnyway, mirrorVars
  <2>2. disk'[n] \in {disk[n], state[n]} /\ reading'[n] \in {reading[n], store, NoEntries}
    BY <1>5 DEF StatesDumped, Starts, RestoreReads, GateOpensAnyway, Readings
  <2>3. \A e \in Entities : owed'[e] \in {owed[e], 0}
    BY <1>5 DEF StatesDumped, Starts, RestoreReads, GateOpensAnyway
  <2> QED
    BY <1>2, <1>5, <2>1, <2>2, <2>3, ZeroInPast
       DEF LifeSteps, InPast, NodeInPast, StoreInPast
<1>6. ASSUME NEW n \in Nodes, RestoreApplies(n)
      PROVE  InPast'
  <2>1. UNCHANGED <<changes, disk, flight, store, owed>> /\ reading'[n] = NoEntries
    BY <1>6 DEF RestoreApplies
  <2>2. \A e \in Entities : state'[n][e] \in {state[n][e], reading[n][e].v}
    BY <1>6 DEF RestoreApplies
  <2> QED
    BY <1>2, <1>6, <2>1, <2>2, ZeroInPast DEF LifeSteps, InPast, NodeInPast, StoreInPast
<1>7. ASSUME NEW n \in Nodes, Unloads(n) \/ StopBegins(n)
      PROVE  InPast'
  <2>1. UNCHANGED <<changes, state, disk, reading, store, owed>>
    BY <1>7 DEF Unloads, StopBegins
  <2>2. \A t \in Slots : flight'[n][t].map \in {flight[n][t].map, state[n]}
    BY <1>7 DEF Unloads, StopBegins, Captures, mirrorVars
  <2> QED
    BY <1>2, <1>7, <2>1, <2>2 DEF LifeSteps, InPast, NodeInPast, StoreInPast
<1>8. ASSUME NEW n \in Nodes, Reloaded(n)
      PROVE  InPast'
  BY <1>2, <1>8 DEF LifeSteps, Reloaded, InPast, NodeInPast, StoreInPast
<1>9. ASSUME NEW n \in Nodes, StopEnds(n) \/ Crashes(n)
      PROVE  InPast'
  <2>1. /\ UNCHANGED <<changes, store, owed>>
        /\ state'[n] \in {state[n], disk[n]} /\ disk'[n] \in {state[n], disk[n]}
        /\ reading'[n] = NoEntries
        /\ \A s \in Slots : flight'[n][s] = NoFlush
    BY <1>9 DEF StopEnds, Crashes, Ends
  <2> QED
    BY <1>2, <1>9, <2>1, ZeroInPast DEF LifeSteps, InPast, NodeInPast, StoreInPast
<1> QED
  BY <1>1, <1>3, <1>4, <1>5, <1>6, <1>7, <1>8, <1>9 DEF SnapshotNext, LifeSteps

------------------------------------------------------------------------------
(* Who has what is owed. *)

\* What a node has written is the whole snapshot until its answer is in: nobody else writes.
WrittenIsTheStore(n) ==
    \A s \in Slots :
        flight[n][s].written =>
            \A e \in Entities : store[e].by = n /\ store[e].v = flight[n][s].map[e]

\* What a restore has read is still there when it is applied.
RestoresTheStore(n) == phase[n] = "restoring" /\ gate[n] = "shut" => reading[n] = store

\* What a starting node wrote itself, and will skip, is owed no more.
OwnIsNotOwed(n) ==
    phase[n] \in {"starting", "restoring"} /\ gate[n] = "shut" =>
        \A e \in Entities : store[e].by = n => owed[e] = 0

ForcedOwesNothing(n) == gate[n] = "forced" => \A e \in Entities : owed[e] = 0

\* A restored node shows what is owed, and so does the flush it has on its way.
CarriesOwed(n) ==
    gate[n] = "open" =>
        \A e \in Entities :
            /\ owed[e] <= state[n][e]
            /\ \A s \in Slots : ~Free(n, s) =>
                  owed[e] <= flight[n][s].map[e] /\ flight[n][s].map[e] <= state[n][e]

Keeps(n) ==
    /\ WrittenIsTheStore(n) /\ RestoresTheStore(n) /\ OwnIsNotOwed(n)
    /\ ForcedOwesNothing(n) /\ CarriesOwed(n)

\* An entry without an author was never written.
AuthorsKnown == \A e \in Entities : store[e].by = NoNode => store[e].v = 0

StoreKeeps == AuthorsKnown /\ PublishedStateSurvives

SurvivalInv == TurnInv /\ InPast /\ StoreKeeps /\ \A n \in Nodes : Keeps(n)

\* A node keeps what it has through a step that leaves it and the snapshot alone; that
\* something is owed no more is no matter.
LEMMA KeptAlone ==
    ASSUME SnapshotInv, NEW n \in Nodes, Keeps(n),
           state'[n] = state[n], phase'[n] = phase[n], gate'[n] = gate[n],
           reading'[n] = reading[n], flight'[n] = flight[n], store' = store,
           \A e \in Entities : owed'[e] \in {owed[e], 0}
    PROVE  Keeps(n)'
<1>1. /\ WrittenIsTheStore(n)' /\ RestoresTheStore(n)' /\ OwnIsNotOwed(n)'
      /\ ForcedOwesNothing(n)'
  BY DEF Keeps, WrittenIsTheStore, RestoresTheStore, OwnIsNotOwed, ForcedOwesNothing
<1>2. CarriesOwed(n)'
  BY Numbers DEF Keeps, CarriesOwed, Free
<1> QED
  BY <1>1, <1>2 DEF Keeps

\* A node that does not lead has nothing to keep but what it does not write.
LEMMA KeptAside ==
    ASSUME SnapshotInv, NEW n \in Nodes, GateFits(n), ~Active(n), Keeps(n),
           state'[n] = state[n], phase'[n] = phase[n], gate'[n] = gate[n],
           reading'[n] = reading[n], flight'[n] = flight[n],
           \A e \in Entities : \/ store'[e] = store[e] /\ owed'[e] = owed[e]
                               \/ store'[e].by # n
    PROVE  Keeps(n)'
<1>1. gate[n] = "shut" /\ phase[n] # "restoring" /\ Quiet(n)
  BY DEF GateFits, Active, Past
<1>2. WrittenIsTheStore(n)'
  BY <1>1, NothingIsWritten DEF WrittenIsTheStore, Quiet, Free
<1>3. OwnIsNotOwed(n)'
  BY DEF Keeps, OwnIsNotOwed
<1> QED
  BY <1>1, <1>2, <1>3 DEF Keeps, RestoresTheStore, ForcedOwesNothing, CarriesOwed

\* A capture takes what is owed along.
LEMMA KeptByCapture ==
    ASSUME OneFlush, SnapshotInv, NEW n \in Nodes, Keeps(n), gate[n] # "shut",
           NEW s \in Slots, Captures(n, s), UNCHANGED <<state, gate, store, owed>>
    PROVE  Keeps(n)'
<1> DEFINE f == [rev |-> rev[n], map |-> state[n], written |-> FALSE]
<1>1. \A t \in Slots : flight'[n][t] = f
  BY DEF OneFlush, Captures, SnapshotInv, SnapshotTypeOK
<1>2. f.map = state[n] /\ f.written = FALSE
  OBVIOUS
<1> HIDE DEF f
<1>3. WrittenIsTheStore(n)'
  BY <1>1, <1>2 DEF WrittenIsTheStore
<1>4. CarriesOwed(n)'
  BY <1>1, <1>2, Numbers DEF Keeps, CarriesOwed
<1> QED
  BY <1>3, <1>4 DEF Keeps, RestoresTheStore, OwnIsNotOwed, ForcedOwesNothing

LEMMA KeptByFlush ==
    ASSUME OneFlush, OnlyOutages, SurvivalInv, NEW n \in Nodes, FlushSteps(n)
    PROVE  Keeps(n)' /\ StoreKeeps'
<1> PICK s \in Slots :
        \/ ScheduledFlush(n, s) \/ ServiceFlush(n, s) \/ SnapshotWritten(n, s)
        \/ FlushReturns(n, s) \/ FlushFails(n, s)
  BY DEF FlushSteps
<1>0. /\ SnapshotInv /\ GateFits(n) /\ Keeps(n) /\ StoreKeeps
      /\ \A t \in Slots : t = s
  BY DEF SurvivalInv, TurnInv, OneFlush
<1>1. CASE ScheduledFlush(n, s) \/ ServiceFlush(n, s)
  <2>1. Captures(n, s) /\ UNCHANGED <<state, gate, store, owed>>
    BY <1>1 DEF ScheduledFlush, ServiceFlush, nodeVars
  <2>2. gate[n] # "shut"
    BY <1>0, <1>1, CapturesFromPast
  <2> QED
    BY <1>0, <2>1, <2>2, KeptByCapture DEF StoreKeeps, AuthorsKnown, PublishedStateSurvives
<1>2. CASE SnapshotWritten(n, s)
  <2>1. ~Free(n, s) /\ UNCHANGED <<state, phase, gate, reading, owed>>
    BY <1>2 DEF SnapshotWritten, nodeVars
  <2>2. gate[n] # "shut"
    BY <1>0, <2>1 DEF GateFits, Quiet
  <2>3. flight'[n][s].map = flight[n][s].map
    BY <1>0, <1>2 DEF SnapshotWritten, SnapshotInv, SnapshotTypeOK, Flushes
  <2>4. \A e \in Entities : store'[e].by = n /\ store'[e].v = flight[n][s].map[e]
    BY <1>2 DEF SnapshotWritten
  <2>5. WrittenIsTheStore(n)'
    BY <1>0, <2>3, <2>4 DEF WrittenIsTheStore
  <2>6. CarriesOwed(n)'
    BY <1>0, <2>1, <2>3 DEF Keeps, CarriesOwed
  <2>7. Keeps(n)'
    BY <1>0, <2>1, <2>2, <2>5, <2>6
       DEF Keeps, RestoresTheStore, OwnIsNotOwed, ForcedOwesNothing
  <2>8. ASSUME NEW e \in Entities
        PROVE  owed[e] <= flight[n][s].map[e]
    <3>1. CASE gate[n] = "open"
      BY <1>0, <2>1, <3>1 DEF Keeps, CarriesOwed
    <3>2. CASE gate[n] = "forced"
      BY <1>0, <3>2, Numbers DEF Keeps, ForcedOwesNothing
    <3> QED
      BY <1>0, <2>2, <3>1, <3>2 DEF SnapshotInv, SnapshotTypeOK
  <2>9. \A e \in Entities : store'[e].v >= owed'[e]
    <3>1. \A e \in Entities : flight[n][s].map[e] >= owed[e]
      BY <1>0, <2>8, Numbers
    <3> QED
      BY <2>1, <2>4, <3>1
  <2>10. StoreKeeps'
    BY <2>4, <2>9, SnapshotAssumption DEF StoreKeeps, AuthorsKnown, PublishedStateSurvives
  <2> QED
    BY <2>7, <2>10
<1>3. CASE FlushReturns(n, s)
  <2>1. \A t \in Slots : flight'[n][t] = NoFlush
    BY <1>0, <1>3 DEF FlushReturns, SnapshotInv, SnapshotTypeOK
  <2>2. ~Free(n, s) /\ flight[n][s].written /\ UNCHANGED <<state, phase, gate, reading, store>>
    BY <1>3, NothingIsWritten DEF FlushReturns, Free, nodeVars
  <2>3. gate[n] # "shut"
    BY <1>0, <2>2 DEF GateFits, Quiet
  <2>4. \A t \in Slots : Free(n, t)' /\ ~flight'[n][t].written
    BY <2>1, NothingIsWritten DEF Free
  <2>5. /\ gate[n] = "open" => owed' = flight[n][s].map
        /\ gate[n] # "open" => owed' = owed
    BY <1>3 DEF FlushReturns
  <2>6. CarriesOwed(n)'
    BY <1>0, <2>2, <2>4, <2>5 DEF Keeps, CarriesOwed
  <2>7. Keeps(n)'
    BY <1>0, <2>2, <2>3, <2>4, <2>5, <2>6
       DEF Keeps, WrittenIsTheStore, RestoresTheStore, OwnIsNotOwed, ForcedOwesNothing
  <2>8. \A e \in Entities : store[e].by = n /\ store[e].v = flight[n][s].map[e]
    BY <1>0, <2>2 DEF Keeps, WrittenIsTheStore
  <2>9. PublishedStateSurvives'
    <3>1. CASE gate[n] = "open"
      <4>1. \A e \in Entities : store[e].v = owed'[e] /\ store[e].v \in Nat
        BY <1>0, <2>5, <2>8, <3>1, Numbers
      <4> QED
        BY <2>2, <4>1 DEF PublishedStateSurvives
    <3>2. CASE gate[n] # "open"
      BY <1>0, <2>2, <2>5, <3>2 DEF StoreKeeps, PublishedStateSurvives
    <3> QED
      BY <3>1, <3>2
  <2> QED
    BY <1>0, <2>2, <2>7, <2>9 DEF StoreKeeps, AuthorsKnown
<1>4. CASE FlushFails(n, s)
  <2>1. \A t \in Slots : flight'[n][t] = NoFlush
    BY <1>0, <1>4 DEF FlushFails, SnapshotInv, SnapshotTypeOK
  <2>2. UNCHANGED <<state, phase, gate, reading, store, owed>>
    BY <1>4 DEF FlushFails, nodeVars
  <2>3. \A t \in Slots : Free(n, t)' /\ ~flight'[n][t].written
    BY <2>1, NothingIsWritten DEF Free
  <2> QED
    BY <1>0, <2>2, <2>3
       DEF Keeps, WrittenIsTheStore, RestoresTheStore, OwnIsNotOwed, ForcedOwesNothing,
           CarriesOwed, StoreKeeps, AuthorsKnown, PublishedStateSurvives
<1> QED
  BY <1>1, <1>2, <1>3, <1>4

\* The node whose life it is: a start and a restore are where what is owed comes over.
LEMMA KeptByLife ==
    ASSUME OneFlush, OnlyOutages, SurvivalInv, NEW n \in Nodes, LifeSteps(n)
    PROVE  Keeps(n)' /\ StoreKeeps'
<1>0. SnapshotInv /\ GateFits(n) /\ Keeps(n) /\ StoreKeeps /\ NodeInPast(n) /\ StoreInPast
  BY DEF SurvivalInv, TurnInv, InPast
<1>1. ASSUME store' = store, \A e \in Entities : owed'[e] \in {owed[e], 0}
      PROVE  StoreKeeps'
  BY <1>0, <1>1, Numbers DEF StoreKeeps, AuthorsKnown, PublishedStateSurvives
<1>2. ASSUME gate'[n] = "shut", phase'[n] \notin {"starting", "restoring"}, Quiet(n)'
      PROVE  Keeps(n)'
  BY <1>2, NothingIsWritten
     DEF Keeps, WrittenIsTheStore, RestoresTheStore, OwnIsNotOwed, ForcedOwesNothing,
         CarriesOwed, Quiet, Free
<1>3. ASSUME NEW e \in Entities, StateChanges(n, e)
      PROVE  Keeps(n)' /\ StoreKeeps'
  <2>1. UNCHANGED <<phase, gate, reading, flight, store, owed>>
    BY <1>3 DEF StateChanges
  <2>2. \A d \in Entities : state'[n][d] = IF d = e THEN changes + 1 ELSE state[n][d]
    BY <1>0, <1>3 DEF StateChanges, SnapshotInv, SnapshotTypeOK, Maps
  <2>3. ASSUME NEW d \in Entities
        PROVE  state[n][d] <= state'[n][d]
    BY <1>0, <2>2, Numbers DEF NodeInPast
  <2>4. ASSUME gate[n] = "open", NEW d \in Entities
        PROVE  /\ owed[d] <= state'[n][d]
               /\ \A s \in Slots : ~Free(n, s) =>
                     owed[d] <= flight[n][s].map[d] /\ flight[n][s].map[d] <= state'[n][d]
    <3>1. state'[n][d] \in Nat
      BY <1>0, <2>2, Numbers
    <3> QED
      BY <1>0, <2>3, <2>4, <3>1, Numbers DEF Keeps, CarriesOwed
  <2>5. CarriesOwed(n)'
    BY <2>1, <2>4 DEF CarriesOwed, Free
  <2> QED
    BY <1>0, <1>1, <2>1, <2>5
       DEF Keeps, WrittenIsTheStore, RestoresTheStore, OwnIsNotOwed, ForcedOwesNothing
<1>4. CASE StatesDumped(n)
  BY <1>0, <1>1, <1>4, KeptAlone DEF StatesDumped, mirrorVars
<1>5. CASE Starts(n)
  <2>1. gate'[n] = "shut" /\ phase'[n] = "starting" /\ UNCHANGED <<state, reading, flight, store>>
    BY <1>0, <1>5 DEF Starts, GateFits, SnapshotInv, SnapshotTypeOK
  <2>2. \A e \in Entities : owed'[e] = IF store[e].by = n THEN 0 ELSE owed[e]
    BY <1>5 DEF Starts
  <2>3. Quiet(n)'
    BY <1>0, <1>5, <2>1 DEF GateFits, Quiet, Free, Starts
  <2> QED
    BY <1>1, <2>1, <2>2, <2>3, NothingIsWritten
       DEF Keeps, WrittenIsTheStore, RestoresTheStore, OwnIsNotOwed, ForcedOwesNothing,
           CarriesOwed, Quiet, Free
<1>6. CASE RestoreReads(n)
  <2>1. /\ phase[n] = "starting" /\ phase'[n] = "restoring" /\ reading'[n] = store
        /\ UNCHANGED <<state, gate, flight, store, owed>>
    BY <1>0, <1>6, OnlyOutagesLeaves DEF RestoreReads, mirrorVars, SnapshotInv, SnapshotTypeOK
  <2> QED
    BY <1>0, <1>1, <2>1
       DEF Keeps, WrittenIsTheStore, RestoresTheStore, OwnIsNotOwed, ForcedOwesNothing,
           CarriesOwed, Free
<1>7. CASE RestoreApplies(n)
  <2>1. /\ phase[n] = "restoring" /\ phase'[n] = "running"
        /\ gate'[n] = IF gate[n] = "shut" THEN "open" ELSE gate[n]
        /\ UNCHANGED <<flight, store, owed>>
    BY <1>0, <1>7 DEF RestoreApplies, SnapshotInv, SnapshotTypeOK
  <2>2. \A e \in Entities :
          state'[n][e] = IF reading[n][e].by \notin {n, NoNode}
                         THEN reading[n][e].v ELSE state[n][e]
    BY <1>0, <1>7 DEF RestoreApplies, SnapshotInv, SnapshotTypeOK
  <2>3. gate[n] # "open"
    BY <1>0, <2>1 DEF GateFits, Past
  <2>4. CASE gate[n] = "shut"
    <3>1. reading[n] = store /\ Quiet(n)
      BY <1>0, <2>1, <2>4 DEF Keeps, RestoresTheStore, GateFits
    <3>2. ASSUME NEW e \in Entities
          PROVE  owed[e] <= state'[n][e]
      <4>1. CASE store[e].by \notin {n, NoNode}
        BY <1>0, <2>2, <3>1, <4>1, Numbers DEF StoreKeeps, PublishedStateSurvives
      <4>2. CASE store[e].by = n
        <5>1. owed[e] = 0 /\ state'[n][e] = state[n][e]
          BY <1>0, <2>1, <2>2, <2>4, <3>1, <4>2 DEF Keeps, OwnIsNotOwed
        <5> QED
          BY <1>0, <5>1, Numbers
      <4>3. CASE store[e].by = NoNode
        <5>1. store[e].v = 0 /\ store[e].v >= owed[e] /\ state'[n][e] = state[n][e]
          BY <1>0, <2>2, <3>1, <4>3 DEF StoreKeeps, AuthorsKnown, PublishedStateSurvives
        <5> QED
          BY <1>0, <5>1, Numbers
      <4> QED
        BY <4>1, <4>2, <4>3
    <3>3. CarriesOwed(n)' /\ WrittenIsTheStore(n)'
      BY <2>1, <3>1, <3>2, NothingIsWritten DEF CarriesOwed, WrittenIsTheStore, Quiet, Free
    <3> QED
      BY <1>1, <2>1, <2>4, <3>3
         DEF Keeps, RestoresTheStore, OwnIsNotOwed, ForcedOwesNothing
  <2>5. CASE gate[n] = "forced"
    BY <1>0, <1>1, <2>1, <2>5
       DEF Keeps, WrittenIsTheStore, RestoresTheStore, OwnIsNotOwed, ForcedOwesNothing,
           CarriesOwed
  <2> QED
    BY <1>0, <2>3, <2>4, <2>5 DEF SnapshotInv, SnapshotTypeOK
<1>8. CASE GateOpensAnyway(n)
  <2>1. /\ gate'[n] = "forced" /\ UNCHANGED <<flight, store>>
        /\ \A e \in Entities : owed'[e] = 0
    BY <1>0, <1>8 DEF GateOpensAnyway, mirrorVars, SnapshotInv, SnapshotTypeOK
  <2> QED
    BY <1>0, <1>1, <2>1
       DEF Keeps, WrittenIsTheStore, RestoresTheStore, OwnIsNotOwed, ForcedOwesNothing,
           CarriesOwed
<1>9. CASE Unloads(n) \/ StopBegins(n)
  <2>1. gate[n] # "shut" /\ UNCHANGED <<state, gate, store, owed>>
    BY <1>0, <1>9, OnlyOutagesLeaves DEF Unloads, StopBegins, GateFits, Past
  <2>2. CASE \E s \in Slots : Captures(n, s)
    BY <1>0, <1>1, <2>1, <2>2, KeptByCapture
  <2>3. CASE UNCHANGED mirrorVars
    BY <1>0, <1>1, <2>1, <2>3
       DEF Keeps, WrittenIsTheStore, RestoresTheStore, OwnIsNotOwed, ForcedOwesNothing,
           CarriesOwed, Free, mirrorVars
  <2> QED
    BY <1>9, <2>2, <2>3 DEF Unloads, StopBegins
<1>10. CASE Reloaded(n)
  <2>1. phase'[n] = "running" /\ UNCHANGED <<state, gate, flight, store, owed>>
    BY <1>0, <1>10 DEF Reloaded, SnapshotInv, SnapshotTypeOK
  <2> QED
    BY <1>0, <1>1, <2>1
       DEF Keeps, WrittenIsTheStore, RestoresTheStore, OwnIsNotOwed, ForcedOwesNothing,
           CarriesOwed, Free
<1>11. CASE StopEnds(n) \/ Crashes(n)
  <2>1. gate'[n] = "shut" /\ phase'[n] = "down" /\ UNCHANGED <<store, owed>>
    BY <1>0, <1>11 DEF StopEnds, Crashes, Ends, SnapshotInv, SnapshotTypeOK
  <2>2. Quiet(n)'
    BY <1>0, <1>11 DEF StopEnds, Crashes, Ends, Quiet, Free, SnapshotInv, SnapshotTypeOK
  <2> QED
    BY <1>1, <1>2, <2>1, <2>2
<1> QED
  BY <1>3, <1>4, <1>5, <1>6, <1>7, <1>8, <1>9, <1>10, <1>11 DEF LifeSteps

\* The other nodes: a writer is active, so they are not.
LEMMA OthersKeep ==
    ASSUME OneFlush, OnlyOutages, SurvivalInv, NEW m \in Nodes, FlushSteps(m) \/ LifeSteps(m),
           NEW n \in Nodes \ {m}
    PROVE  Keeps(n)'
<1>0. /\ SnapshotInv /\ GateFits(m) /\ GateFits(n) /\ Keeps(m) /\ Keeps(n)
      /\ Active(m) => ~Active(n)
  BY DEF SurvivalInv, TurnInv, OneActive
<1>1. /\ state'[n] = state[n] /\ phase'[n] = phase[n] /\ gate'[n] = gate[n]
      /\ reading'[n] = reading[n] /\ flight'[n] = flight[n]
  BY <1>0, OthersStay
<1>2. CASE store' = store /\ \A e \in Entities : owed'[e] \in {owed[e], 0}
  BY <1>0, <1>1, <1>2, KeptAlone
<1>3. ASSUME NEW s \in Slots, SnapshotWritten(m, s)
      PROVE  Keeps(n)'
  <2>1. ~Free(m, s) /\ \A e \in Entities : store'[e].by = m
    BY <1>3 DEF SnapshotWritten
  <2>2. ~Active(n)
    BY <1>0, <2>1 DEF GateFits, Quiet, Active
  <2> QED
    BY <1>0, <1>1, <2>1, <2>2, KeptAside
<1>4. ASSUME NEW s \in Slots, FlushReturns(m, s)
      PROVE  Keeps(n)'
  <2>1. flight[m][s].written /\ ~Free(m, s) /\ store' = store
    BY <1>4, NothingIsWritten DEF FlushReturns, Free
  <2>2. ~Active(n)
    BY <1>0, <2>1 DEF GateFits, Quiet, Active
  <2>3. \A e \in Entities : store'[e].by = m
    BY <1>0, <2>1 DEF Keeps, WrittenIsTheStore
  <2> QED
    BY <1>0, <1>1, <2>2, <2>3, KeptAside
<1>5. ASSUME NEW s \in Slots, ScheduledFlush(m, s) \/ ServiceFlush(m, s) \/ FlushFails(m, s)
      PROVE  UNCHANGED <<store, owed>>
  BY <1>5 DEF ScheduledFlush, ServiceFlush, FlushFails
<1>6. ASSUME LifeSteps(m)
      PROVE  store' = store /\ \A e \in Entities : owed'[e] \in {owed[e], 0}
  BY <1>6 DEF LifeSteps, StateChanges, StatesDumped, Starts, RestoreReads, RestoreApplies,
              GateOpensAnyway, Unloads, Reloaded, StopBegins, StopEnds, Crashes, Ends
<1> QED
  BY <1>2, <1>3, <1>4, <1>5, <1>6 DEF FlushSteps

LEMMA SurvivalStep ==
    ASSUME OneFlush, OnlyOutages, SurvivalInv, [SnapshotNext]_snapshotVars
    PROVE  StoreKeeps' /\ \A n \in Nodes : Keeps(n)'
<1>1. CASE LeaseMoves \/ UNCHANGED snapshotVars
  <2>1. UNCHANGED <<nodeVars, mirrorVars, store, owed>>
    BY <1>1 DEF LeaseMoves, snapshotVars
  <2>2. StoreKeeps'
    BY <2>1 DEF SurvivalInv, StoreKeeps, AuthorsKnown, PublishedStateSurvives
  <2>3. ASSUME NEW n \in Nodes
        PROVE  Keeps(n)'
    BY <2>1, KeptAlone DEF SurvivalInv, TurnInv, nodeVars, mirrorVars
  <2> QED
    BY <2>2, <2>3
<1>2. ASSUME NEW n \in Nodes, FlushSteps(n) \/ LifeSteps(n)
      PROVE  StoreKeeps' /\ \A m \in Nodes : Keeps(m)'
  BY <1>2, KeptByFlush, KeptByLife, OthersKeep
<1> QED
  BY <1>1, <1>2 DEF SnapshotNext

LEMMA SurvivalInitially == SnapshotInit => SurvivalInv
<1> SUFFICES ASSUME SnapshotInit PROVE SurvivalInv
  OBVIOUS
<1>1. SnapshotInv
  BY Shapes
     DEF SnapshotInit, SnapshotInv, SnapshotTypeOK, Phases, FlightsFollow, RevisionsDie, Up
<1>2. ASSUME NEW n \in Nodes
      PROVE  ~Up(n) /\ gate[n] = "shut" /\ Quiet(n) /\ phase[n] = "down"
  BY DEF SnapshotInit, Up, Quiet, Free
<1>3. TurnInv
  BY <1>1, <1>2 DEF TurnInv, OneActive, GateFits, Active, Past
<1>4. \A e \in Entities : store[e].v = 0 /\ owed[e] = 0
  BY DEF SnapshotInit, NoEntries
<1>5. InPast
  BY <1>4 DEF SnapshotInit, InPast, NodeInPast, StoreInPast, NoEntries, NoFlush
<1>6. StoreKeeps
  BY <1>4 DEF StoreKeeps, AuthorsKnown, PublishedStateSurvives
<1>7. \A n \in Nodes : Keeps(n)
  BY <1>2, NothingIsWritten
     DEF Keeps, WrittenIsTheStore, RestoresTheStore, OwnIsNotOwed, ForcedOwesNothing,
         CarriesOwed, Quiet, Free
<1> QED
  BY <1>3, <1>5, <1>6, <1>7 DEF SurvivalInv

(* In the cold topology, with nothing going wrong but outages, crashes and      *)
(* slow boots, what a restored node was told it published is not replaced by    *)
(* anything older, through any number of changes, crashes, promotions and       *)
(* restores (AR-0040, AR-0065: "the integration destroyed the snapshot it had   *)
(* failed to use").                                                             *)
THEOREM PublishedSurvives ==
    ASSUME OneFlush, OnlyOutages
    PROVE  SnapshotSpec => []PublishedStateSurvives
<1>1. SurvivalInv /\ SnapshotInv' /\ [SnapshotNext]_snapshotVars => SurvivalInv'
  BY TurnStep, PastStep, SurvivalStep DEF SurvivalInv, TurnInv
<1>2. SurvivalInv => PublishedStateSurvives
  BY DEF SurvivalInv, StoreKeeps
<1> QED
  BY <1>1, <1>2, SurvivalInitially, InvHolds, PTL DEF SnapshotSpec

=============================================================================
