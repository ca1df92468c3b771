----------------------------- MODULE AlertRouter -----------------------------
(***************************************************************************)
(* The alert router: conditions are announced on their edges, each edge at *)
(* most once in ALERT_MIN_INTERVAL, and what is said while Home Assistant  *)
(* starts is held until it has started.  What is active and when it was    *)
(* last said outlive a reload of the entry; the held pushes do not.  The   *)
(* cards on the repairs page are left out, and so are the services: a push *)
(* is what the operator's phone hears.                                     *)
(***************************************************************************)
EXTENDS Integers, Sequences

CONSTANTS
    Conditions,     \* what is watched
    Chosen,         \* what the operator wants pushed, "recovered" for the all-clears
    MaxPending      \* MAX_PENDING_ALERTS

ASSUME AlertAssumption == MaxPending \in Nat

VARIABLES
    active,     \* _active: the conditions raised
    recent,     \* the <<condition, word>> said within ALERT_MIN_INTERVAL
    pending,    \* _pending: the pushes held until Home Assistant has started
    started,    \* _started
    tookOver,   \* _took_over_from is set: the takeover has been announced
    told        \* the last word on each condition in this run of Home Assistant

alertVars == <<active, recent, pending, started, tookOver, told>>

Words == {"raised", "clear"}
Subjects == Conditions \cup {"promoted"}
Silence == [s \in Subjects |-> "nothing"]

AlertTypeOK ==
    /\ active \subseteq Conditions
    /\ recent \subseteq Conditions \X Words
    /\ pending \in Seq(Subjects \X Words)
    /\ Len(pending) <= MaxPending
    /\ started \in BOOLEAN
    /\ tookOver \in BOOLEAN
    /\ told \in [Subjects -> Words \cup {"nothing"}]

AlertInit ==
    /\ active = {} /\ recent = {} /\ pending = <<>> /\ started = FALSE
    /\ tookOver = FALSE /\ told = Silence

\* _push: held, the newest dropped when the queue is full, or sent.
Pushes(s, w) ==
    IF started
    THEN told' = [told EXCEPT ![s] = w] /\ UNCHANGED pending
    ELSE /\ pending' = IF Len(pending) < MaxPending
                       THEN Append(pending, <<s, w>>) ELSE pending
         /\ UNCHANGED told

\* _push_if_enabled, with a window of its own for each edge of a condition.
Says(c, w) ==
    IF (IF w = "clear" THEN "recovered" ELSE c) \notin Chosen \/ <<c, w>> \in recent
    THEN UNCHANGED <<recent, pending, told>>
    ELSE recent' = recent \cup {<<c, w>>} /\ Pushes(c, w)

\* async_raise.
Raises(c) ==
    /\ active' = active \cup {c}
    /\ IF c \in active THEN UNCHANGED <<recent, pending, told>> ELSE Says(c, "raised")
    /\ UNCHANGED <<started, tookOver>>

\* async_clear.
Clears(c) ==
    /\ active' = active \ {c}
    /\ IF c \in active THEN Says(c, "clear") ELSE UNCHANGED <<recent, pending, told>>
    /\ UNCHANGED <<started, tookOver>>

\* forget: an acknowledgement, of which the person who made it knows.
Forgets(c) ==
    /\ active' = active \ {c}
    /\ told' = [told EXCEPT ![c] = "nothing"]
    /\ UNCHANGED <<recent, pending, started, tookOver>>

\* async_check_promotion; a node that does not lead is armed again.
ChecksPromotion(leading, others) ==
    /\ tookOver' = (leading /\ (tookOver \/ others))
    /\ CASE ~leading -> told' = [told EXCEPT !["promoted"] = "nothing"] /\ UNCHANGED pending
         [] leading /\ others /\ ~tookOver /\ "promoted" \in Chosen ->
                Pushes("promoted", "raised")
         [] OTHER -> UNCHANGED <<pending, told>>
    /\ UNCHANGED <<active, recent, started>>

\* async_arm's listener: what was held goes out in its order.
LastWord(s) ==
    LET said == {i \in DOMAIN pending : pending[i][1] = s}
        Last(i) == \A j \in said : j <= i
    IN IF said = {} THEN told[s]
       ELSE IF \E i \in said : Last(i) /\ pending[i][2] = "raised" THEN "raised"
       ELSE "clear"

Flushes ==
    /\ started' = TRUE
    /\ told' = [s \in Subjects |-> LastWord(s)]
    /\ pending' = <<>>
    /\ UNCHANGED <<active, recent, tookOver>>

\* Faulty: the router of before _ALERT_STATE starts with nothing raised.
RebuiltEmpty(running) ==
    /\ active' = {} /\ recent' = {}
    /\ pending' = <<>>
    /\ started' = running
    /\ tookOver' = FALSE
    /\ UNCHANGED told

\* A new router over what the last one left in _ALERT_STATE.
Rebuilt(running) ==
    /\ pending' = <<>>
    /\ started' = running
    /\ tookOver' = FALSE
    /\ UNCHANGED <<active, recent, told>>

\* The process ends, or a genuine unload pops _ALERT_STATE: the next setup is afresh.
StartsAfresh ==
    /\ active' = {} /\ recent' = {} /\ pending' = <<>>
    /\ started' = FALSE /\ tookOver' = FALSE
    /\ told' = Silence

\* ALERT_MIN_INTERVAL after a word was said.
WindowEnds(c, w) ==
    /\ <<c, w>> \in recent
    /\ recent' = recent \ {<<c, w>>}
    /\ UNCHANGED <<active, pending, started, tookOver, told>>
==============================================================================
