----------------------------- MODULE ServiceGate -----------------------------
(***************************************************************************)
(* ADR-001's layers 3 and 4: on a node that follows, the recorder and the  *)
(* automations are switched off by calls of Home Assistant's services, and *)
(* on again when it leads, but only by a gate that remembers having        *)
(* switched them off.  Its memory ends with the process or the entry;      *)
(* what it switched off stays off.                                         *)
(***************************************************************************)
EXTENDS Integers

CONSTANTS
    Layers,         \* the layers the operator has opted in to
    MaxCallErrors   \* bound: calls of a service that fail

ASSUME GateAssumption == MaxCallErrors \in Nat

VARIABLES
    gatedOff,   \* the layers the gate remembers having switched off
    off,        \* the layers that are switched off
    calling,    \* the call a layer waits for: "no", "on" or "off"
    callErrors  \* how many calls have failed

gateVars == <<gatedOff, off, calling, callErrors>>

GateTypeOK ==
    /\ gatedOff \subseteq Layers
    /\ off \subseteq Layers
    /\ calling \in [Layers -> {"no", "on", "off"}]
    /\ callErrors \in 0..MaxCallErrors

NoCalls == [l \in Layers |-> "no"]

GateInit == gatedOff = {} /\ off = {} /\ calling = NoCalls /\ callErrors = 0

\* _reconcile: the call a role asks of a layer, if any.
CallFor(l, leads) ==
    IF calling[l] # "no" THEN calling[l]
    ELSE IF ~leads /\ l \notin gatedOff THEN "off"
    ELSE IF leads /\ l \in gatedOff THEN "on"
    ELSE "no"

\* async_apply, as far as its calls.
Applies(leads) ==
    /\ calling' = [l \in Layers |-> CallFor(l, leads)]
    /\ UNCHANGED <<gatedOff, off, callErrors>>

\* Faulty: uninstalling leaves the house as it is.
RestoresNothing == UNCHANGED gateVars

\* async_restore is what a leader's pass would be.
Restores == Applies(TRUE)

\* Setting the memory is left to a call that succeeded.
CallReturns(l) ==
    /\ calling[l] # "no"
    /\ off' = IF calling[l] = "off" THEN off \cup {l} ELSE off \ {l}
    /\ gatedOff' = IF calling[l] = "off" THEN gatedOff \cup {l} ELSE gatedOff \ {l}
    /\ calling' = [calling EXCEPT ![l] = "no"]
    /\ UNCHANGED callErrors

CallFails(l) ==
    /\ calling[l] # "no"
    /\ callErrors < MaxCallErrors
    /\ callErrors' = callErrors + 1
    /\ calling' = [calling EXCEPT ![l] = "no"]
    /\ UNCHANGED <<gatedOff, off>>

\* The object is gone; a call on its way is not its concern any more.
GateForgets ==
    /\ gatedOff' = {}
    /\ calling' = NoCalls
    /\ UNCHANGED <<off, callErrors>>
==============================================================================
