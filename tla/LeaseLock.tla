------------------------------ MODULE LeaseLock ------------------------------
(***************************************************************************)
(* What the election promises, with no nodes, scripts, timers or files in  *)
(* sight: leadership has one owner or none, it never passes straight from  *)
(* one node to another unless somebody armed an override, and a node that  *)
(* is barred (in a maintenance hold, or holding down after giving the      *)
(* leadership up) never gets it without one.                               *)
(***************************************************************************)
CONSTANTS Nodes, NoNode

VARIABLES
    owner,      \* the leader, or NoNode
    barred,     \* the nodes that must not take the leadership
    armed       \* the nodes an operator told to take it regardless

vars == <<owner, barred, armed>>

Init ==
    /\ owner = NoNode
    /\ barred \subseteq Nodes
    /\ armed \subseteq Nodes

\* A free leadership goes to a node that nothing bars.
Take(n) ==
    /\ owner = NoNode
    /\ n \notin barred
    /\ owner' = n
    /\ barred' \subseteq Nodes
    /\ armed' \subseteq Nodes

\* The override: whoever owned it, an armed node does now.
Seize(n) ==
    /\ n \in armed
    /\ owner' = n
    /\ barred' \subseteq Nodes
    /\ armed' \subseteq Nodes

\* Given back by its owner, or lapsed.
Vacate ==
    /\ owner' = NoNode
    /\ barred' \subseteq Nodes
    /\ armed' \subseteq Nodes

\* Operators and clocks bar and arm nodes; the leadership stays put.
Reassess ==
    /\ owner' = owner
    /\ barred' \subseteq Nodes
    /\ armed' \subseteq Nodes

Next ==
    \/ \E n \in Nodes : Take(n) \/ Seize(n)
    \/ Vacate
    \/ Reassess

Spec == Init /\ [][Next]_vars
==============================================================================
