-------------------------- MODULE IntegrationProofs --------------------------
(***************************************************************************)
(* Proofs about Integration, for every set of conditions and layers and    *)
(* every bound: its types, and what the holds, the lease and the service   *)
(* gate keep through the life of one Home Assistant.                       *)
(***************************************************************************)
EXTENDS Integration, TLAPS

USE DEF SetupStep, StopStep, UnloadStep, Watch, World, Deed, Consequence

------------------------------------------------------------------------------
(* The types, a component at a time. *)

\* What a step may do to the alerts.
AlertStep ==
    \/ UNCHANGED alertVars
    \/ \E c \in Conditions : Raises(c) \/ Clears(c) \/ Forgets(c)
    \/ \E b, d \in BOOLEAN : ChecksPromotion(b, d)
    \/ \E b \in BOOLEAN : Rebuilt(b)
    \/ Flushes \/ StartsAfresh
    \/ \E c \in Conditions, w \in Words : WindowEnds(c, w)

\* What a step may do to the gate.
GateStep ==
    \/ UNCHANGED gateVars
    \/ \E b \in BOOLEAN : Applies(b)
    \/ \E l \in Layers : CallReturns(l) \/ CallFails(l)
    \/ GateForgets

LEMMA AlertMoves ==
    ASSUME IntegrationTypeOK, [HouseNext]_houseVars
    PROVE AlertStep
<1> USE DEF AlertStep, IntegrationTypeOK, Watches, Announces, Probed, Marked
<1>1. CASE SetupStep
  <2>1. CASE SetUp
    BY <2>1 DEF SetUp
  <2>2. CASE SetupFails \/ LocalHoldCleared \/ KeyRead \/ KeyDeleted
    BY <2>2 DEF SetupFails, LocalHoldCleared, KeyRead, KeyDeleted
  <2>3. CASE DegradedRead \/ DevicesRead \/ FirstHealth
    BY <2>3 DEF DegradedRead, DevicesRead, FirstHealth
  <2>4. CASE FirstLook
    BY <2>4 DEF FirstLook, Looks, Reachable
  <2> QED BY <1>1, <2>1, <2>2, <2>3, <2>4
<1>2. CASE StopStep
  BY <1>2 DEF StopResolves, StopHolds, StopPublishes, StopChecks, StopReleases, StopEnds, Ends
<1>3. CASE UnloadStep
  BY <1>3 DEF UnloadRestored, UnloadFlushes, UnloadChecks, UnloadReleases, UnloadEnds
<1>4. CASE Watch
  <2>1. CASE ViewPolled
    BY <2>1 DEF ViewPolled, Looks, Reachable
  <2>2. CASE HealthPolled
    BY <2>2 DEF HealthPolled
  <2>3. CASE IngressProbed
    BY <2>3 DEF IngressProbed
  <2>4. CASE RadioChecked
    BY <2>4 DEF RadioChecked
  <2> QED BY <1>4, <2>1, <2>2, <2>3, <2>4
<1>5. CASE World \/ Boots \/ Starts \/ FlushTick \/ ServiceReturns \/ ServiceFails \/ StopBegins \/ AddedAgain
  BY <1>5 DEF Boots, Starts, FlushTick, ServiceReturns, ServiceFails, StopBegins, AddedAgain
<1>6. CASE Started
  BY <1>6 DEF Started
<1>7. CASE Acknowledged
  BY <1>7 DEF Acknowledged
<1>8. CASE WindowPasses
  BY <1>8 DEF WindowPasses
<1>9. CASE Crashes \/ UnloadBegins
  BY <1>9 DEF Crashes, Ends, UnloadBegins
<1>10. CASE \E c \in Conditions : ConditionComes(c) \/ ConditionGoes(c)
  BY <1>10 DEF ConditionComes, ConditionGoes
<1>11. CASE UNCHANGED houseVars
  BY <1>11 DEF houseVars
<1> QED BY <1>1, <1>2, <1>3, <1>4, <1>5, <1>6, <1>7, <1>8, <1>9, <1>10, <1>11 DEF HouseNext

LEMMA GateMoves ==
    ASSUME IntegrationTypeOK, [HouseNext]_houseVars
    PROVE GateStep
<1> USE DEF GateStep, GatePass, Leads, Reachable
<1>1. CASE SetupStep
  BY <1>1 DEF SetUp, SetupFails, DegradedRead, DevicesRead, FirstLook, FirstHealth,
              LocalHoldCleared, KeyRead, KeyDeleted
<1>2. CASE StopStep
  BY <1>2 DEF StopResolves, StopHolds, StopPublishes, StopChecks, StopReleases, StopEnds, Ends
<1>3. CASE UnloadStep
  BY <1>3 DEF UnloadRestored, UnloadFlushes, UnloadChecks, UnloadReleases, UnloadEnds
<1>4. CASE Watch
  BY <1>4 DEF ViewPolled, HealthPolled, IngressProbed, RadioChecked
<1>5. CASE World \/ Boots \/ Starts \/ FlushTick
  BY <1>5 DEF Boots, Starts, FlushTick
<1>6. CASE ServiceReturns \/ ServiceFails
  BY <1>6 DEF ServiceReturns, ServiceFails
<1>7. CASE StopBegins \/ AddedAgain \/ Started \/ Acknowledged \/ WindowPasses
  BY <1>7 DEF StopBegins, AddedAgain, Started, Acknowledged, WindowPasses
<1>8. CASE Crashes \/ UnloadBegins
  BY <1>8 DEF Crashes, Ends, UnloadBegins, Restores
<1>9. CASE \E c \in Conditions : ConditionComes(c) \/ ConditionGoes(c)
  BY <1>9 DEF ConditionComes, ConditionGoes
<1>10. CASE UNCHANGED houseVars
  BY <1>10 DEF houseVars
<1> QED BY <1>1, <1>2, <1>3, <1>4, <1>5, <1>6, <1>7, <1>8, <1>9, <1>10 DEF HouseNext

LEMMA PushesType ==
    ASSUME AlertTypeOK, NEW s \in Subjects, NEW w \in Words, Pushes(s, w)
    PROVE /\ pending' \in Seq(Subjects \X Words) /\ Len(pending') <= MaxPending
          /\ told' \in [Subjects -> Words \cup {"nothing"}]
<1>1. told' \in [Subjects -> Words \cup {"nothing"}]
  BY DEF AlertTypeOK, Pushes
<1>2. <<s, w>> \in Subjects \X Words
  OBVIOUS
<1>3. pending' \in Seq(Subjects \X Words) /\ Len(pending') <= MaxPending
  BY <1>2, AlertAssumption DEF AlertTypeOK, Pushes
<1> QED BY <1>1, <1>3

LEMMA SaysType ==
    ASSUME AlertTypeOK, NEW c \in Conditions, NEW w \in Words, Says(c, w)
    PROVE /\ recent' \subseteq Conditions \X Words
          /\ pending' \in Seq(Subjects \X Words) /\ Len(pending') <= MaxPending
          /\ told' \in [Subjects -> Words \cup {"nothing"}]
<1>1. c \in Subjects
  BY DEF Subjects
<1>2. recent' \subseteq Conditions \X Words
  BY DEF AlertTypeOK, Says
<1>3. Pushes(c, w) \/ UNCHANGED <<recent, pending, told>>
  BY DEF Says
<1>4. CASE UNCHANGED <<recent, pending, told>>
  BY <1>4 DEF AlertTypeOK
<1> QED BY <1>1, <1>2, <1>3, <1>4, PushesType

LEMMA AlertType ==
    ASSUME AlertTypeOK, AlertStep
    PROVE AlertTypeOK'
<1> USE AlertAssumption
<1>0. <<>> \in Seq(Subjects \X Words) /\ Len(<<>>) <= MaxPending
  OBVIOUS
<1>1. CASE UNCHANGED alertVars
  BY <1>1 DEF AlertTypeOK, alertVars
<1>2. ASSUME NEW c \in Conditions, Raises(c) \/ Clears(c)
      PROVE AlertTypeOK'
  <2>1. active' \subseteq Conditions /\ started' \in BOOLEAN /\ tookOver' \in BOOLEAN
    BY <1>2 DEF AlertTypeOK, Raises, Clears
  <2>2. Says(c, "raised") \/ Says(c, "clear") \/ UNCHANGED <<recent, pending, told>>
    BY <1>2 DEF Raises, Clears
  <2>3. CASE UNCHANGED <<recent, pending, told>>
    BY <2>1, <2>3 DEF AlertTypeOK
  <2>4. CASE Says(c, "raised") \/ Says(c, "clear")
    <3>1. "raised" \in Words /\ "clear" \in Words
      BY DEF Words
    <3>2. /\ recent' \subseteq Conditions \X Words
          /\ pending' \in Seq(Subjects \X Words) /\ Len(pending') <= MaxPending
          /\ told' \in [Subjects -> Words \cup {"nothing"}]
      BY <2>4, <3>1, SaysType
    <3> QED BY <2>1, <3>2 DEF AlertTypeOK
  <2> QED BY <2>2, <2>3, <2>4
<1>3. ASSUME NEW c \in Conditions, Forgets(c)
      PROVE AlertTypeOK'
  BY <1>3 DEF AlertTypeOK, Forgets, Subjects
<1>4. ASSUME NEW b \in BOOLEAN, NEW d \in BOOLEAN, ChecksPromotion(b, d)
      PROVE AlertTypeOK'
  <2>1. /\ tookOver' \in BOOLEAN
        /\ UNCHANGED <<active, recent, started>>
    BY <1>4 DEF ChecksPromotion, AlertTypeOK
  <2>2. "promoted" \in Subjects /\ "raised" \in Words
    BY DEF Subjects, Words
  <2>3. \/ told' = [told EXCEPT !["promoted"] = "nothing"] /\ UNCHANGED pending
        \/ Pushes("promoted", "raised")
        \/ UNCHANGED <<pending, told>>
    BY <1>4 DEF ChecksPromotion
  <2>4. /\ told' \in [Subjects -> Words \cup {"nothing"}]
        /\ pending' \in Seq(Subjects \X Words) /\ Len(pending') <= MaxPending
    <3>1. CASE Pushes("promoted", "raised")
      BY <2>2, <3>1, PushesType
    <3>2. CASE UNCHANGED pending /\ told' = [told EXCEPT !["promoted"] = "nothing"]
      BY <3>2 DEF AlertTypeOK
    <3>3. CASE UNCHANGED <<pending, told>>
      BY <3>3 DEF AlertTypeOK
    <3> QED BY <2>3, <3>1, <3>2, <3>3
  <2> QED BY <2>1, <2>4 DEF AlertTypeOK
<1>5. ASSUME NEW b \in BOOLEAN, Rebuilt(b)
      PROVE AlertTypeOK'
  BY <1>0, <1>5 DEF AlertTypeOK, Rebuilt
<1>6. CASE Flushes
  <2>1. \A s \in Subjects : LastWord(s) \in Words \cup {"nothing"}
    BY DEF LastWord, AlertTypeOK, Words
  <2>2. told' \in [Subjects -> Words \cup {"nothing"}]
    BY <1>6, <2>1 DEF Flushes
  <2>3. pending' = <<>> /\ started' = TRUE /\ UNCHANGED <<active, recent, tookOver>>
    BY <1>6 DEF Flushes
  <2> QED BY <1>0, <2>2, <2>3 DEF AlertTypeOK
<1>7. CASE StartsAfresh
  BY <1>0, <1>7 DEF AlertTypeOK, StartsAfresh, Silence
<1>8. ASSUME NEW c \in Conditions, NEW w \in Words, WindowEnds(c, w)
      PROVE AlertTypeOK'
  BY <1>8 DEF AlertTypeOK, WindowEnds
<1> QED BY <1>1, <1>2, <1>3, <1>4, <1>5, <1>6, <1>7, <1>8 DEF AlertStep

LEMMA GateType ==
    ASSUME GateTypeOK, GateStep
    PROVE GateTypeOK'
<1> USE GateAssumption DEF GateTypeOK
<1>1. CASE UNCHANGED gateVars
  BY <1>1 DEF gateVars
<1>2. ASSUME NEW b \in BOOLEAN, Applies(b)
      PROVE GateTypeOK'
  <2>1. \A l \in Layers : CallFor(l, b) \in {"no", "on", "off"}
    BY DEF CallFor
  <2> QED BY <1>2, <2>1 DEF Applies
<1>3. ASSUME NEW l \in Layers, CallReturns(l) \/ CallFails(l)
      PROVE GateTypeOK'
  BY <1>3 DEF CallReturns, CallFails
<1>4. CASE GateForgets
  BY <1>4 DEF GateForgets, NoCalls
<1> QED BY <1>1, <1>2, <1>3, <1>4 DEF GateStep

------------------------------------------------------------------------------
(* The holds, the lease and where the node stands. *)

\* Where the node stands, and what the bounds count.
PlaceTypeOK ==
    /\ core \in {"off", "booting", "starting", "running"}
    /\ at \in {"idle"} \cup SetupSteps \cup StopSteps \cup UnloadSteps
    /\ why \in {"none", "restart", "shutdown", "reload", "remove"}

CountTypeOK ==
    /\ wrong \subseteq Conditions
    /\ entry \in {"removed", "found", "retrying", "loaded"}
    /\ failures \in 0..FailuresBeforeAlarm
    /\ source \in {"self", "peer"}
    /\ lives \in 0..MaxLives
    /\ faults \in 0..MaxFaults
    /\ acts \in 0..MaxActs

\* What the step a coroutine waits at says of how it came there.
Control ==
    /\ at \in StopSteps => why \in {"restart", "shutdown"} /\ core \in {"starting", "running"}
    /\ at \in UnloadSteps => why \in {"reload", "remove"}
    /\ at \in {"uncheck", "unrelease"} => why = "remove"
    /\ why # "none" => at \in StopSteps \cup UnloadSteps

LEMMA HoldType ==
    ASSUME HoldTypeOK, [HouseNext]_houseVars
    PROVE HoldTypeOK'
<1> USE DEF HoldTypeOK, Resolves, Goes
<1>1. CASE SetupStep
  BY <1>1 DEF SetUp, SetupFails, DegradedRead, DevicesRead, FirstLook, FirstHealth,
              LocalHoldCleared, KeyRead, KeyDeleted, GatePass, ClearsAutoHold, DropsKey,
              holdVars
<1>2. CASE StopStep
  BY <1>2 DEF StopResolves, StopHolds, StopPublishes, StopChecks, StopReleases, StopEnds,
              Ends, SetsAutoHold, Publishes, Releases, holdVars
<1>3. CASE UnloadStep
  BY <1>3 DEF UnloadRestored, UnloadFlushes, UnloadChecks, UnloadReleases, UnloadEnds,
              Releases, holdVars
<1>4. CASE Watch
  BY <1>4 DEF ViewPolled, HealthPolled, IngressProbed, RadioChecked, holdVars
<1>5. CASE World
  BY <1>5 DEF PersonRaises, PersonClears, PeerRaises, PeerClears, PeerRestarts, DropsKey,
              PeerLetsGo, PromoterGivesUp, PeerIsBack, AutoHoldLapses, PeerTakes,
              PromoterTakes, LeaseLapses
<1>6. CASE Boots \/ Starts \/ Started \/ FlushTick \/ ServiceReturns \/ ServiceFails
  BY <1>6 DEF Boots, Starts, Started, FlushTick, ServiceReturns, ServiceFails, GatePass,
              holdVars
<1>7. CASE Acknowledged \/ WindowPasses \/ StopBegins
  BY <1>7 DEF Acknowledged, WindowPasses, StopBegins, holdVars
<1>8. CASE Crashes \/ UnloadBegins \/ AddedAgain
  BY <1>8 DEF Crashes, Ends, UnloadBegins, AddedAgain, holdVars
<1>9. CASE \E c \in Conditions : ConditionComes(c) \/ ConditionGoes(c)
  BY <1>9 DEF ConditionComes, ConditionGoes, holdVars
<1>10. CASE UNCHANGED houseVars
  BY <1>10 DEF houseVars, holdVars
<1> QED BY <1>1, <1>2, <1>3, <1>4, <1>5, <1>6, <1>7, <1>8, <1>9, <1>10 DEF HouseNext

LEMMA PlaceType ==
    ASSUME PlaceTypeOK, Control, [HouseNext]_houseVars
    PROVE PlaceTypeOK' /\ Control'
<1> USE DEF PlaceTypeOK, Control
<1>1. CASE SetupStep
  BY <1>1 DEF SetUp, SetupFails, DegradedRead, DevicesRead, FirstLook, FirstHealth,
              LocalHoldCleared, KeyRead, KeyDeleted, Attempted, Idle, Goes, SetupSteps,
              StopSteps, UnloadSteps
<1>2. CASE StopStep
  BY <1>2 DEF StopResolves, StopHolds, StopPublishes, StopChecks, StopReleases, StopEnds,
              Ends, Goes, SetupSteps, StopSteps, UnloadSteps
<1>3. CASE UnloadStep
  BY <1>3 DEF UnloadRestored, UnloadFlushes, UnloadChecks, UnloadReleases, UnloadEnds,
              Goes, KeepsLease, SetupSteps, StopSteps, UnloadSteps
<1>4. CASE Watch
  BY <1>4 DEF ViewPolled, HealthPolled, IngressProbed, RadioChecked, lifeVars
<1>5. CASE World
  BY <1>5 DEF lifeVars, PersonRaises, PersonClears, PeerRaises, PeerClears, PeerRestarts,
              PeerLetsGo, PromoterGivesUp, PeerIsBack, AutoHoldLapses, PeerTakes,
              PromoterTakes, LeaseLapses
<1>6. CASE Boots \/ Starts \/ Started \/ FlushTick \/ ServiceReturns \/ ServiceFails
  BY <1>6 DEF Boots, Starts, Started, FlushTick, ServiceReturns, ServiceFails, lifeVars,
              Idle, StopSteps, UnloadSteps
<1>7. CASE Acknowledged \/ WindowPasses \/ StopBegins
  BY <1>7 DEF Acknowledged, WindowPasses, StopBegins, lifeVars, Idle, StopSteps,
              UnloadSteps
<1>8. CASE Crashes \/ UnloadBegins \/ AddedAgain
  BY <1>8 DEF Crashes, Ends, UnloadBegins, AddedAgain, Idle, StopSteps, UnloadSteps
<1>9. CASE \E c \in Conditions : ConditionComes(c) \/ ConditionGoes(c)
  BY <1>9 DEF ConditionComes, ConditionGoes, lifeVars
<1>10. CASE UNCHANGED houseVars
  BY <1>10 DEF houseVars, lifeVars
<1> QED BY <1>1, <1>2, <1>3, <1>4, <1>5, <1>6, <1>7, <1>8, <1>9, <1>10 DEF HouseNext

LEMMA CountType ==
    ASSUME CountTypeOK, [HouseNext]_houseVars
    PROVE CountTypeOK'
<1> USE IntegrationAssumption DEF CountTypeOK, IntegrationAssumption
<1>1. CASE SetupStep
  <2>1. CASE SetUp
    BY <2>1 DEF SetUp
  <2>0. CASE SetupFails
    BY <2>0 DEF SetupFails
  <2>2. CASE DegradedRead \/ DevicesRead \/ FirstLook
    BY <2>2 DEF DegradedRead, DevicesRead, FirstLook
  <2>3. CASE FirstHealth \/ LocalHoldCleared
    BY <2>3 DEF FirstHealth, LocalHoldCleared
  <2>4. CASE KeyRead \/ KeyDeleted
    BY <2>4 DEF KeyRead, KeyDeleted
  <2> QED BY <1>1, <2>0, <2>1, <2>2, <2>3, <2>4
<1>2. CASE StopStep
  <2>1. CASE StopResolves \/ StopHolds \/ StopPublishes
    BY <2>1 DEF StopResolves, StopHolds, StopPublishes
  <2>2. CASE StopChecks \/ StopReleases
    BY <2>2 DEF StopChecks, StopReleases
  <2>3. CASE StopEnds
    BY <2>3 DEF StopEnds, Ends
  <2> QED BY <1>2, <2>1, <2>2, <2>3
<1>3. CASE UnloadStep
  <2>1. CASE UnloadRestored \/ UnloadFlushes
    BY <2>1 DEF UnloadRestored, UnloadFlushes
  <2>2. CASE UnloadChecks \/ UnloadReleases \/ UnloadEnds
    BY <2>2 DEF UnloadChecks, UnloadReleases, UnloadEnds
  <2> QED BY <1>3, <2>1, <2>2
<1>4. CASE Watch
  BY <1>4 DEF ViewPolled, HealthPolled, IngressProbed, RadioChecked, lifeVars
<1>5. CASE World
  <2>1. UNCHANGED <<wrong, lifeVars, faults>>
    BY <1>5 DEF PersonRaises, PersonClears, PeerRaises, PeerClears, PeerRestarts, PeerLetsGo,
                PromoterGivesUp, PeerIsBack, AutoHoldLapses, PeerTakes, PromoterTakes,
                LeaseLapses
  <2>2. acts' \in 0..MaxActs
    BY <1>5 DEF Acts
  <2> QED BY <2>1, <2>2 DEF lifeVars
<1>6. CASE Boots \/ Starts \/ Started \/ FlushTick \/ ServiceReturns \/ ServiceFails
  <2>1. CASE Boots \/ Starts \/ Started
    BY <2>1 DEF Boots, Starts, Started
  <2>2. CASE FlushTick
    BY <2>2 DEF FlushTick
  <2>3. CASE ServiceReturns \/ ServiceFails
    BY <2>3 DEF ServiceReturns, ServiceFails, lifeVars
  <2> QED BY <1>6, <2>1, <2>2, <2>3
<1>7. CASE Acknowledged \/ WindowPasses \/ StopBegins
  <2>1. CASE Acknowledged \/ WindowPasses
    BY <2>1 DEF Acknowledged, WindowPasses, lifeVars
  <2>2. CASE StopBegins
    BY <2>2 DEF StopBegins
  <2> QED BY <1>7, <2>1, <2>2
<1>8. CASE Crashes \/ UnloadBegins \/ AddedAgain
  <2>1. CASE Crashes
    BY <2>1 DEF Crashes, Ends
  <2>2. CASE UnloadBegins
    BY <2>2 DEF UnloadBegins
  <2>3. CASE AddedAgain
    BY <2>3 DEF AddedAgain
  <2> QED BY <1>8, <2>1, <2>2, <2>3
<1>9. CASE \E c \in Conditions : ConditionComes(c) \/ ConditionGoes(c)
  <2>1. CASE \E c \in Conditions : ConditionComes(c)
    BY <2>1 DEF ConditionComes, lifeVars
  <2>2. CASE \E c \in Conditions : ConditionGoes(c)
    BY <2>2 DEF ConditionGoes, lifeVars
  <2> QED BY <1>9, <2>1, <2>2
<1>10. CASE UNCHANGED houseVars
  BY <1>10 DEF houseVars, lifeVars
<1> QED BY <1>1, <1>2, <1>3, <1>4, <1>5, <1>6, <1>7, <1>8, <1>9, <1>10 DEF HouseNext

\* The types hold initially.
LEMMA InitTypes == IntegrationInit => IntegrationTypeOK /\ Control
<1> SUFFICES ASSUME IntegrationInit
             PROVE IntegrationTypeOK /\ Control
  OBVIOUS
<1> USE IntegrationAssumption, AlertAssumption, GateAssumption
    DEF IntegrationInit, IntegrationAssumption
<1>1. AlertTypeOK
  <2>1. <<>> \in Seq(Subjects \X Words) /\ Len(<<>>) <= MaxPending
    OBVIOUS
  <2> QED BY <2>1 DEF AlertInit, AlertTypeOK, Silence
<1>2. GateTypeOK
  BY DEF GateInit, GateTypeOK, NoCalls
<1>3. HoldTypeOK
  BY DEF HoldInit, HoldTypeOK
<1> QED BY <1>1, <1>2, <1>3 DEF IntegrationTypeOK, Control, StopSteps, UnloadSteps

LEMMA StepTypes ==
    ASSUME IntegrationTypeOK, Control, [HouseNext]_houseVars
    PROVE IntegrationTypeOK' /\ Control'
<1>1. AlertTypeOK'
  BY AlertMoves, AlertType DEF IntegrationTypeOK
<1>2. GateTypeOK'
  BY GateMoves, GateType DEF IntegrationTypeOK
<1>3. HoldTypeOK'
  BY HoldType DEF IntegrationTypeOK
<1>4. PlaceTypeOK' /\ Control'
  BY PlaceType DEF IntegrationTypeOK, PlaceTypeOK
<1>5. CountTypeOK'
  BY CountType DEF IntegrationTypeOK, CountTypeOK
<1> QED BY <1>1, <1>2, <1>3, <1>4, <1>5 DEF IntegrationTypeOK, PlaceTypeOK, CountTypeOK

\* Every variable keeps its type: the pushes that wait stay within MAX_PENDING_ALERTS, and
\* a node stands at a step of one coroutine at a time.
THEOREM IntegrationTypeCorrect == HouseSpec => []IntegrationTypeOK
<1>1. IntegrationTypeOK /\ Control /\ [HouseNext]_houseVars => (IntegrationTypeOK /\ Control)'
  BY StepTypes
<1> QED BY InitTypes, <1>1, PTL DEF HouseSpec

------------------------------------------------------------------------------
(* A person's hold. *)

\* On a node that leads, a person's hold is in the file whenever it is in the store, and
\* no step that is about to write or delete the key is about to lose one.
HoldSafe ==
    /\ key = "person" /\ lease = "self" => file = "person"
    /\ at = "hold" /\ key = "person" => file = "person"
    /\ at \in {"publish", "delete"} => key # "person"

\* What a step may do to a person's hold that no person does.
KeepsHold ==
    /\ file = "person" => file' = "person" \/ PersonClears
    /\ key = "person" => key' = "person" \/ PersonClears \/ PeerClears

LEMMA HoldSafeStep ==
    ASSUME Disturbances \cap {"remote", "apart", "race"} = {},
           HoldTypeOK, HoldSafe, [HouseNext]_houseVars
    PROVE HoldSafe' /\ KeepsHold
<1> USE DEF HoldTypeOK, HoldSafe, KeepsHold, Resolves, Leads, Held, Goes, Idle
<1>1. CASE SetupStep
  <2>1. CASE SetUp \/ SetupFails
    BY <2>1 DEF SetUp, SetupFails, GatePass, holdVars
  <2>2. CASE DegradedRead \/ DevicesRead \/ FirstLook \/ FirstHealth
    BY <2>2 DEF DegradedRead, DevicesRead, FirstLook, FirstHealth, holdVars
  <2>3. CASE LocalHoldCleared \/ KeyRead \/ KeyDeleted
    BY <2>3 DEF LocalHoldCleared, ClearsAutoHold, KeyRead, IsAutoKey, KeyDeleted, DropsKey,
                holdVars
  <2> QED BY <1>1, <2>1, <2>2, <2>3
<1>2. CASE StopStep
  <2>1. CASE StopResolves
    BY <2>1 DEF StopResolves
  <2>2. CASE StopHolds \/ StopPublishes
    BY <2>2 DEF StopHolds, SetsAutoHold, StopPublishes, Publishes
  <2>3. CASE StopChecks \/ StopReleases \/ StopEnds
    BY <2>3 DEF StopChecks, StopReleases, Releases, StopEnds, Ends, holdVars
  <2> QED BY <1>2, <2>1, <2>2, <2>3
<1>3. CASE UnloadStep
  BY <1>3 DEF UnloadRestored, UnloadFlushes, UnloadChecks, UnloadReleases, UnloadEnds,
              Releases, holdVars
<1>4. CASE Watch
  BY <1>4 DEF ViewPolled, HealthPolled, IngressProbed, RadioChecked, holdVars, lifeVars
<1>5. CASE World
  <2> USE DEF lifeVars, Apart
  <2>1. CASE Deed
    BY <1>5, <2>1 DEF PersonRaises, PersonClears, DropsKey, PeerRaises, PeerClears,
                      PeerRestarts, PeerLetsGo, PromoterGivesUp
  <2>2. CASE Consequence
    BY <1>5, <2>2 DEF PeerIsBack, AutoHoldLapses, PeerTakes, PromoterTakes, PromoterHeld,
                      LeaseLapses
  <2> QED BY <1>5, <2>1, <2>2
<1>6. CASE Boots \/ Starts \/ Started \/ FlushTick
  BY <1>6 DEF Boots, Starts, Started, FlushTick, GatePass, Ticking, holdVars
<1>7. CASE ServiceReturns \/ ServiceFails \/ Acknowledged \/ WindowPasses \/ StopBegins
  BY <1>7 DEF ServiceReturns, ServiceFails, Acknowledged, WindowPasses, StopBegins,
              holdVars, lifeVars
<1>8. CASE Crashes \/ UnloadBegins \/ AddedAgain
  BY <1>8 DEF Crashes, Ends, UnloadBegins, AddedAgain, holdVars
<1>9. CASE \E c \in Conditions : ConditionComes(c) \/ ConditionGoes(c)
  BY <1>9 DEF ConditionComes, ConditionGoes, holdVars, lifeVars
<1>10. CASE UNCHANGED houseVars
  BY <1>10 DEF houseVars, holdVars, lifeVars
<1> QED BY <1>1, <1>2, <1>3, <1>4, <1>5, <1>6, <1>7, <1>8, <1>9, <1>10 DEF HouseNext

\* A person's hold is lifted by a person, if the persons act apart from a stop, a boot and
\* an unload, and a person's hold on the leader is in its file.
THEOREM HoldIsAPersons ==
    ASSUME Disturbances \cap {"remote", "apart", "race"} = {}
    PROVE HouseSpec => OperatorHoldStands
<1>1. IntegrationInit => HoldSafe
  BY DEF IntegrationInit, HoldInit, HoldSafe
<1>2. IntegrationTypeOK /\ HoldSafe /\ [HouseNext]_houseVars => HoldSafe'
  BY HoldSafeStep DEF IntegrationTypeOK
<1>3. IntegrationTypeOK /\ HoldSafe /\ [HouseNext]_houseVars
      => [/\ file = "person" /\ file' # "person" => PersonClears
          /\ key = "person" /\ key' # "person" => PersonClears \/ PeerClears]_houseVars
  BY HoldSafeStep DEF IntegrationTypeOK, KeepsHold
<1> QED BY IntegrationTypeCorrect, <1>1, <1>2, <1>3, PTL DEF HouseSpec, OperatorHoldStands

------------------------------------------------------------------------------
(* The lease of a node at work. *)

\* A node about to release the lease has no hold, and a reload is of a Home Assistant that
\* runs.
LeaseSafe ==
    /\ at \in {"release", "unrelease"} => file = "none"
    /\ why = "reload" => core = "running"

\* What may take the lease from this node.
LosesLease ==
    \/ ~Reachable
    \/ at = "release" \/ at = "unrelease"
    \/ PromoterGivesUp /\ core \in {"off", "booting"}

LEMMA LeaseSafeStep ==
    ASSUME Disturbances \cap {"race", "early"} = {},
           HoldTypeOK, PlaceTypeOK, Control, LeaseSafe, [HouseNext]_houseVars
    PROVE /\ LeaseSafe'
          /\ lease = "self" => lease' = "self" \/ LosesLease
<1> USE DEF HoldTypeOK, PlaceTypeOK, Control, LeaseSafe, LosesLease, Resolves, Leads, Goes,
            Idle, StopSteps, UnloadSteps, SetupSteps
<1>1. CASE SetupStep
  <2>1. CASE SetUp \/ SetupFails
    BY <2>1 DEF SetUp, SetupFails, GatePass, Attempted, holdVars
  <2>2. CASE DegradedRead \/ DevicesRead \/ FirstLook \/ FirstHealth
    BY <2>2 DEF DegradedRead, DevicesRead, FirstLook, FirstHealth, holdVars
  <2>3. CASE LocalHoldCleared \/ KeyRead \/ KeyDeleted
    BY <2>3 DEF LocalHoldCleared, KeyRead, KeyDeleted, holdVars
  <2> QED BY <1>1, <2>1, <2>2, <2>3
<1>2. CASE StopStep
  <2>1. CASE StopResolves \/ StopHolds \/ StopPublishes
    BY <2>1 DEF StopResolves, StopHolds, SetsAutoHold, StopPublishes
  <2>2. CASE StopChecks \/ StopReleases
    BY <2>2 DEF StopChecks, BlocksRelease, Held, StopReleases, Releases, holdVars
  <2>3. CASE StopEnds
    BY <2>3 DEF StopEnds, Ends, holdVars
  <2> QED BY <1>2, <2>1, <2>2, <2>3
<1>3. CASE UnloadStep
  <2>1. CASE UnloadRestored \/ UnloadFlushes
    BY <2>1 DEF UnloadRestored, UnloadFlushes, holdVars
  <2>2. CASE UnloadChecks \/ UnloadReleases
    BY <2>2 DEF UnloadChecks, BlocksRelease, Held, UnloadReleases, Releases, holdVars
  <2>3. CASE UnloadEnds
    BY <2>3 DEF UnloadEnds, holdVars
  <2> QED BY <1>3, <2>1, <2>2, <2>3
<1>4. CASE Watch
  <2>1. CASE ViewPolled \/ HealthPolled
    BY <2>1 DEF ViewPolled, HealthPolled, holdVars, lifeVars
  <2>2. CASE IngressProbed \/ RadioChecked
    BY <2>2 DEF IngressProbed, RadioChecked, lifeVars
  <2> QED BY <1>4, <2>1, <2>2
<1>5. CASE World
  <2> USE DEF lifeVars, Apart
  <2>1. CASE Deed
    BY <1>5, <2>1 DEF PersonRaises, PersonClears, PeerRaises, PeerClears, PeerRestarts,
                      PeerLetsGo, PromoterGivesUp
  <2>2. CASE Consequence
    BY <1>5, <2>2 DEF PeerIsBack, AutoHoldLapses, PeerTakes, PromoterTakes, LeaseLapses
  <2> QED BY <1>5, <2>1, <2>2
<1>6. CASE Boots \/ Starts \/ Started
  BY <1>6 DEF Boots, Starts, Started, GatePass, holdVars
<1>7. CASE FlushTick \/ ServiceReturns \/ ServiceFails
  BY <1>7 DEF FlushTick, GatePass, ServiceReturns, ServiceFails, holdVars, lifeVars
<1>8. CASE Acknowledged \/ WindowPasses \/ StopBegins \/ AddedAgain
  BY <1>8 DEF Acknowledged, WindowPasses, StopBegins, AddedAgain, holdVars, lifeVars
<1>9. CASE Crashes \/ UnloadBegins
  BY <1>9 DEF Crashes, Ends, UnloadBegins, holdVars
<1>10. CASE \E c \in Conditions : ConditionComes(c) \/ ConditionGoes(c)
  BY <1>10 DEF ConditionComes, ConditionGoes, holdVars, lifeVars
<1>11. CASE UNCHANGED houseVars
  BY <1>11 DEF houseVars, holdVars, lifeVars
<1> QED BY <1>1, <1>2, <1>3, <1>4, <1>5, <1>6, <1>7, <1>8, <1>9, <1>10, <1>11 DEF HouseNext

\* Planned work on the leader - a reload, a restart it has begun to hold, anything under a
\* hold of its own - leaves the lease where it is as long as the store answers, if the
\* persons act apart from it.
THEOREM HouseIsNotMoved ==
    ASSUME Disturbances \cap {"race", "early"} = {}
    PROVE HouseSpec => HouseStaysPut
<1>1. IntegrationInit => LeaseSafe
  BY DEF IntegrationInit, LeaseSafe
<1>2. IntegrationTypeOK /\ Control /\ LeaseSafe /\ [HouseNext]_houseVars => LeaseSafe'
  BY LeaseSafeStep DEF IntegrationTypeOK, PlaceTypeOK
<1>3. ASSUME IntegrationTypeOK, Control, LeaseSafe, [HouseNext]_houseVars
      PROVE [PlannedWork /\ Reachable /\ lease = "self" => lease' = "self"]_houseVars
  <2>1. SUFFICES ASSUME PlannedWork, Reachable, lease = "self", LosesLease
                 PROVE FALSE
    BY <1>3, LeaseSafeStep DEF IntegrationTypeOK, PlaceTypeOK
  <2>2. CASE at \in {"release", "unrelease"}
    BY <1>3, <2>1, <2>2 DEF PlannedWork, LeaseSafe, Control, StopSteps, UnloadSteps
  <2>3. CASE PromoterGivesUp /\ core \in {"off", "booting"}
    BY <1>3, <2>1, <2>3 DEF PlannedWork, LeaseSafe, Control, StopSteps, PromoterGivesUp,
                            PromoterHeld
  <2> QED BY <2>1, <2>2, <2>3 DEF LosesLease
<1>4. IntegrationTypeOK /\ Control /\ [HouseNext]_houseVars => (IntegrationTypeOK /\ Control)'
  BY StepTypes
<1> QED BY InitTypes, <1>1, <1>2, <1>3, <1>4, PTL DEF HouseSpec, HouseStaysPut

------------------------------------------------------------------------------
(* The layers of the gate. *)

\* What the gate remembers is off; while an unload waits for its last calls, they are the
\* ones that switch everything on again that it remembers.
GateSafe ==
    /\ gatedOff \subseteq off
    /\ at = "restoring" /\ callErrors = 0 =>
          \A l \in Layers : IF l \in gatedOff THEN calling[l] = "on" ELSE calling[l] = "no"

\* What a step may do to the layers.
KeepsLayers ==
    /\ gatedOff' \subseteq off'
    /\ Forgotten' \subseteq Forgotten \/ core' = "off" \/ callErrors > 0

LEMMA GateSafeStep ==
    ASSUME "race" \notin Disturbances,
           GateTypeOK, GateSafe, [HouseNext]_houseVars
    PROVE GateSafe' /\ KeepsLayers
<1> USE DEF Goes, Idle
<1>1. CASE UNCHANGED gateVars /\ (at' = "restoring" => at = "restoring")
  BY <1>1 DEF gateVars, GateSafe, KeepsLayers, Forgotten
<1>2. ASSUME NEW b \in BOOLEAN, Applies(b), at' # "restoring"
      PROVE GateSafe' /\ KeepsLayers
  BY <1>2 DEF Applies, GateSafe, KeepsLayers, Forgotten
<1>3. CASE ServiceReturns \/ ServiceFails
  <2>1. PICK l \in Layers : CallReturns(l) \/ CallFails(l)
    BY <1>3 DEF ServiceReturns, ServiceFails
  <2>2. at' = at /\ core' = core
    BY <1>3 DEF ServiceReturns, ServiceFails, lifeVars
  <2>3. KeepsLayers
    BY <2>1 DEF CallReturns, CallFails, KeepsLayers, Forgotten, GateSafe, GateTypeOK
  <2>4. gatedOff' \subseteq off'
    BY <2>3 DEF KeepsLayers
  <2>5. ASSUME at = "restoring", callErrors' = 0, NEW k \in Layers
        PROVE IF k \in gatedOff' THEN calling'[k] = "on" ELSE calling'[k] = "no"
    <3>1. CallReturns(l) /\ callErrors = 0
      BY <2>1, <2>5, GateAssumption DEF CallReturns, CallFails, GateTypeOK
    <3>2. calling[l] = "on" /\ l \in gatedOff
      BY <2>5, <3>1 DEF GateSafe, CallReturns, GateTypeOK
    <3> QED BY <2>5, <3>1, <3>2 DEF GateSafe, CallReturns, GateTypeOK
  <2> QED BY <2>2, <2>3, <2>4, <2>5 DEF GateSafe
<1>4. CASE GateForgets /\ at' # "restoring" /\ core' = "off"
  BY <1>4 DEF GateForgets, GateSafe, KeepsLayers
<1>5. CASE UnloadRestored
  <2>1. GateForgets /\ at = "restoring" /\ calling = NoCalls /\ at' = "flush"
    BY <1>5 DEF UnloadRestored
  <2>2. callErrors = 0 => gatedOff = {}
    BY <2>1 DEF GateSafe, GateTypeOK, NoCalls
  <2>3. KeepsLayers
    <3>1. CASE callErrors = 0
      BY <2>1, <2>2, <3>1 DEF KeepsLayers, Forgotten, GateForgets
    <3>2. CASE callErrors # 0
      BY <2>1, <3>2 DEF KeepsLayers, GateForgets, GateTypeOK
    <3> QED BY <3>1, <3>2
  <2> QED BY <2>1, <2>3 DEF GateSafe, GateForgets
<1>6. CASE UnloadBegins
  <2>1. calling = NoCalls /\ Applies(TRUE)
    BY <1>6 DEF UnloadBegins, Restores
  <2>2. \A l \in Layers : calling'[l] = IF l \in gatedOff THEN "on" ELSE "no"
    BY <2>1 DEF Applies, CallFor, NoCalls
  <2> QED BY <2>1, <2>2 DEF GateSafe, KeepsLayers, Forgotten, Applies
<1>7. CASE SetupStep
  <2>1. CASE SetUp
    <3>1. at' # "restoring" /\ at # "restoring"
      BY <2>1 DEF SetUp, Attempted
    <3>2. Applies(Leads) \/ UNCHANGED gateVars
      BY <2>1 DEF SetUp, GatePass
    <3>3. Leads \in BOOLEAN
      BY DEF Leads, Reachable
    <3> QED BY <1>1, <1>2, <3>1, <3>2, <3>3
  <2>2. CASE SetupFails \/ DegradedRead \/ DevicesRead \/ FirstLook \/ FirstHealth
    BY <1>1, <2>2 DEF SetupFails, DegradedRead, DevicesRead, FirstLook, FirstHealth
  <2>3. CASE LocalHoldCleared \/ KeyRead \/ KeyDeleted
    BY <1>1, <2>3 DEF LocalHoldCleared, KeyRead, KeyDeleted
  <2> QED BY <1>7, <2>1, <2>2, <2>3
<1>8. CASE StopResolves \/ StopHolds \/ StopPublishes \/ StopChecks \/ StopReleases
  BY <1>1, <1>8 DEF StopResolves, StopHolds, StopPublishes, StopChecks, StopReleases
<1>9. CASE StopEnds \/ Crashes
  BY <1>4, <1>9 DEF StopEnds, Crashes, Ends
<1>10. CASE UnloadFlushes \/ UnloadChecks \/ UnloadReleases \/ UnloadEnds
  BY <1>1, <1>10 DEF UnloadFlushes, UnloadChecks, UnloadReleases, UnloadEnds
<1>11. CASE Watch
  BY <1>1, <1>11 DEF ViewPolled, HealthPolled, IngressProbed, RadioChecked, lifeVars
<1>12. CASE World \/ Boots \/ Started \/ Acknowledged \/ WindowPasses \/ StopBegins \/ AddedAgain
  BY <1>1, <1>12 DEF Boots, Started, Acknowledged, WindowPasses, StopBegins, AddedAgain,
                     lifeVars
<1>13. CASE Starts \/ FlushTick
  <2>1. at' # "restoring" /\ at # "restoring"
    BY <1>13 DEF Starts, FlushTick, Ticking
  <2>2. Applies(Leads) \/ UNCHANGED gateVars
    BY <1>13 DEF Starts, FlushTick, GatePass
  <2>3. Leads \in BOOLEAN
    BY DEF Leads, Reachable
  <2> QED BY <1>1, <1>2, <2>1, <2>2, <2>3
<1>14. CASE \E c \in Conditions : ConditionComes(c) \/ ConditionGoes(c)
  BY <1>1, <1>14 DEF ConditionComes, ConditionGoes, lifeVars
<1>15. CASE UNCHANGED houseVars
  BY <1>1, <1>15 DEF houseVars, lifeVars
<1> QED BY <1>3, <1>5, <1>6, <1>7, <1>8, <1>9, <1>10, <1>11, <1>12, <1>13, <1>14, <1>15
    DEF HouseNext

\* A layer that the gate switched off comes back with the unload that ends the gate, unless
\* the process ended or a call failed, if no unload begins while a call is out.
THEOREM GateGivesBack ==
    ASSUME "race" \notin Disturbances
    PROVE HouseSpec => GateUndoesItsWork
<1>1. IntegrationInit => GateSafe
  BY DEF IntegrationInit, GateInit, GateSafe
<1>2. IntegrationTypeOK /\ GateSafe /\ [HouseNext]_houseVars => GateSafe'
  BY GateSafeStep DEF IntegrationTypeOK
<1>3. IntegrationTypeOK /\ GateSafe /\ [HouseNext]_houseVars
      => [/\ gatedOff' \subseteq off'
          /\ Forgotten' \subseteq Forgotten \/ core' = "off" \/ callErrors > 0]_houseVars
  BY GateSafeStep DEF IntegrationTypeOK, KeepsLayers
<1> QED BY IntegrationTypeCorrect, <1>1, <1>2, <1>3, PTL DEF HouseSpec, GateUndoesItsWork

------------------------------------------------------------------------------
(* What the phone hears. *)

\* No push has been dropped, and the next one will not be.
QueueHasRoom == Len(pending) < MaxPending

\* Pushes wait only in a loaded entry whose Home Assistant starts; no unload begins and no
\* setup ends before it has started.
HeldWhileStarting ==
    /\ started \/ ~Loaded \/ at \in UnloadSteps => pending = <<>>
    /\ Loaded /\ core = "running" /\ at \notin UnloadSteps => started
    /\ at \in UnloadSteps => Loaded /\ core = "running"
    /\ at \in SetupSteps => Loaded

\* An edge that a poll is still to find has not been said within ALERT_MIN_INTERVAL.
EdgesAreAnnounced ==
    \A c \in Conditions :
        /\ c \in wrong \ active => <<c, "raised">> \notin recent
        /\ c \in active \ wrong => <<c, "clear">> \notin recent

\* PhoneAgrees, of an entry that is not loaded too.
Agrees ==
    /\ \A c \in Conditions \cap Chosen : c \in active <=> LastWord(c) = "raised"
    /\ tookOver /\ "promoted" \in Chosen => LastWord("promoted") = "raised"

\* One subject's last word is w, and the others keep theirs.
Heard(s, w) ==
    /\ LastWord(s)' = w
    /\ \A r \in Subjects \ {s} : LastWord(r)' = LastWord(r)

LEMMA PushesHeard ==
    ASSUME AlertTypeOK, QueueHasRoom, started => pending = <<>>,
           NEW s \in Subjects, NEW w \in Words, Pushes(s, w)
    PROVE Heard(s, w)
<1>1. CASE started
  <2>1. told' = [told EXCEPT ![s] = w] /\ pending = <<>> /\ pending' = <<>>
    BY <1>1 DEF Pushes
  <2>2. \A r \in Subjects : LastWord(r) = told[r]
    BY <2>1 DEF LastWord
  <2>3. \A r \in Subjects : LastWord(r)' = told'[r]
    BY <2>1 DEF LastWord
  <2> QED BY <2>1, <2>2, <2>3 DEF Heard, AlertTypeOK
<1>2. CASE ~started
  <2> DEFINE n == Len(pending)
  <2>1. n \in Nat /\ DOMAIN pending = 1..n
    BY DEF AlertTypeOK
  <2>2. pending' = Append(pending, <<s, w>>) /\ told' = told
    BY <1>2 DEF Pushes, QueueHasRoom
  <2>3. /\ DOMAIN pending' = 1..(n + 1)
        /\ pending'[n + 1] = <<s, w>>
        /\ \A i \in 1..n : pending'[i] = pending[i]
    BY <2>2 DEF AlertTypeOK
  <2> HIDE DEF n
  <2>4. LastWord(s)' = w
    <3> DEFINE said == {i \in DOMAIN pending' : pending'[i][1] = s}
    <3>1. n + 1 \in said /\ \A j \in said : j <= n + 1
      BY <2>1, <2>3
    <3>2. \A i \in said : (\A j \in said : j <= i) => i = n + 1
      BY <2>1, <2>3, <3>1
    <3>3. CASE w = "raised"
      <4>1. \E i \in said : (\A j \in said : j <= i) /\ pending'[i][2] = "raised"
        BY <2>3, <3>1, <3>3
      <4> QED BY <3>1, <3>3, <4>1 DEF LastWord
    <3>4. CASE w = "clear"
      <4>1. ~ \E i \in said : (\A j \in said : j <= i) /\ pending'[i][2] = "raised"
        BY <2>3, <3>2, <3>4
      <4> QED BY <3>1, <3>4, <4>1 DEF LastWord
    <3> QED BY <3>3, <3>4 DEF Words
  <2>5. ASSUME NEW r \in Subjects \ {s}
        PROVE LastWord(r)' = LastWord(r)
    <3>1. {i \in DOMAIN pending' : pending'[i][1] = r} = {i \in DOMAIN pending : pending[i][1] = r}
      BY <2>1, <2>3, <2>5
    <3>2. \A i \in DOMAIN pending : pending'[i][2] = pending[i][2]
      BY <2>1, <2>3
    <3> QED BY <2>2, <3>1, <3>2 DEF LastWord
  <2> QED BY <2>4, <2>5 DEF Heard
<1> QED BY <1>1, <1>2

\* The last words are what waits and what was told.
LEMMA LastWordStays ==
    ASSUME UNCHANGED <<pending, told>>
    PROVE \A s \in Subjects : LastWord(s)' = LastWord(s)
BY DEF LastWord

LEMMA LastWordOfNone ==
    ASSUME pending' = <<>>
    PROVE \A s \in Subjects : LastWord(s)' = told'[s]
BY DEF LastWord

\* An announcement of what is so keeps the phone right.
LEMMA AnnounceAgrees ==
    ASSUME "recovered" \in Chosen,
           AlertTypeOK, QueueHasRoom, started => pending = <<>>,
           EdgesAreAnnounced, Agrees, wrong' = wrong,
           NEW c \in Conditions, (c \in wrong /\ Raises(c)) \/ (c \notin wrong /\ Clears(c))
    PROVE EdgesAreAnnounced' /\ Agrees'
<1>0. "promoted" \in Subjects /\ "promoted" \notin Conditions /\ Conditions \subseteq Subjects
  BY IntegrationAssumption DEF Subjects, IntegrationAssumption, Probed, Marked
<1>1. CASE UNCHANGED <<active, recent, pending, told, tookOver>>
  <2>1. EdgesAreAnnounced'
    BY <1>1 DEF EdgesAreAnnounced
  <2>2. \A s \in Subjects : LastWord(s)' = LastWord(s)
    BY <1>1, LastWordStays
  <2> QED BY <1>0, <1>1, <2>1, <2>2 DEF Agrees
<1>2. CASE c \in wrong /\ c \notin active /\ Raises(c)
  <2>1. active' = active \cup {c} /\ tookOver' = tookOver /\ Says(c, "raised")
    BY <1>2 DEF Raises
  <2>2. <<c, "raised">> \notin recent
    BY <1>2 DEF EdgesAreAnnounced
  <2>3. CASE c \notin Chosen
    <3>1. UNCHANGED <<recent, pending, told>>
      BY <2>1, <2>3 DEF Says
    <3>2. \A s \in Subjects : LastWord(s)' = LastWord(s)
      BY <3>1, LastWordStays
    <3>3. EdgesAreAnnounced'
      BY <1>2, <2>1, <3>1 DEF EdgesAreAnnounced
    <3> QED BY <1>0, <2>1, <2>3, <3>2, <3>3 DEF Agrees
  <2>4. CASE c \in Chosen
    <3>1. recent' = recent \cup {<<c, "raised">>} /\ Pushes(c, "raised")
      BY <2>1, <2>2, <2>4 DEF Says
    <3>2. Heard(c, "raised")
      BY <1>0, <3>1, PushesHeard DEF Words
    <3>3. EdgesAreAnnounced'
      BY <1>2, <2>1, <3>1 DEF EdgesAreAnnounced
    <3> QED BY <1>0, <2>1, <3>2, <3>3 DEF Agrees, Heard
  <2> QED BY <2>3, <2>4
<1>3. CASE c \notin wrong /\ c \in active /\ Clears(c)
  <2>1. active' = active \ {c} /\ tookOver' = tookOver /\ Says(c, "clear")
    BY <1>3 DEF Clears
  <2>2. <<c, "clear">> \notin recent
    BY <1>3 DEF EdgesAreAnnounced
  <2>3. recent' = recent \cup {<<c, "clear">>} /\ Pushes(c, "clear")
    BY <2>1, <2>2 DEF Says
  <2>4. Heard(c, "clear")
    BY <1>0, <2>3, PushesHeard DEF Words
  <2>5. EdgesAreAnnounced'
    BY <1>3, <2>1, <2>3 DEF EdgesAreAnnounced
  <2> QED BY <1>0, <2>1, <2>4, <2>5 DEF Agrees, Heard
<1>4. (c \in active /\ Raises(c)) \/ (c \notin active /\ Clears(c))
      => UNCHANGED <<active, recent, pending, told, tookOver>>
  BY DEF Raises, Clears
<1> QED BY <1>1, <1>2, <1>3, <1>4

\* A takeover counts as announced when the phone hears of it.
LEMMA PromotionAgrees ==
    ASSUME AlertTypeOK, QueueHasRoom, started => pending = <<>>,
           Agrees, NEW leading \in BOOLEAN, NEW others \in BOOLEAN,
           ChecksPromotion(leading, others)
    PROVE Agrees'
<1>0. "promoted" \in Subjects /\ "promoted" \notin Conditions /\ Conditions \subseteq Subjects
  BY IntegrationAssumption DEF Subjects, IntegrationAssumption, Probed, Marked
<1>1. active' = active
  BY DEF ChecksPromotion
<1>2. CASE ~leading
  <2>1. tookOver' = FALSE /\ told' = [told EXCEPT !["promoted"] = "nothing"] /\ pending' = pending
    BY <1>2 DEF ChecksPromotion
  <2>2. \A c \in Conditions : told'[c] = told[c]
    BY <1>0, <2>1 DEF AlertTypeOK
  <2>3. \A c \in Conditions : LastWord(c)' = LastWord(c)
    BY <2>1, <2>2 DEF LastWord
  <2> QED BY <1>1, <2>1, <2>3 DEF Agrees
<1>3. CASE leading /\ others /\ ~tookOver /\ "promoted" \in Chosen
  <2>1. Pushes("promoted", "raised")
    BY <1>3 DEF ChecksPromotion
  <2>2. Heard("promoted", "raised")
    BY <1>0, <2>1, PushesHeard DEF Words
  <2> QED BY <1>0, <1>1, <2>2 DEF Agrees, Heard
<1>4. CASE leading /\ ~(others /\ ~tookOver /\ "promoted" \in Chosen)
  <2>1. UNCHANGED <<pending, told>> /\ tookOver' = (tookOver \/ others)
    BY <1>4 DEF ChecksPromotion
  <2>2. \A s \in Subjects : LastWord(s)' = LastWord(s)
    BY <2>1, LastWordStays
  <2> QED BY <1>0, <1>1, <1>4, <2>1, <2>2 DEF Agrees
<1> QED BY <1>2, <1>3, <1>4

\* What a step may do to what is wrong and what is said of it.
PhoneStep ==
    \/ UNCHANGED <<wrong, alertVars>>
    \/ wrong' = wrong /\ \E c \in Conditions : c \in wrong /\ Raises(c)
    \/ wrong' = wrong /\ \E c \in Conditions : c \notin wrong /\ Clears(c)
    \/ wrong' = wrong /\ \E b, d \in BOOLEAN : ChecksPromotion(b, d)
    \/ wrong' = wrong /\ pending = <<>> /\ \E b \in BOOLEAN : Rebuilt(b)
    \/ wrong' = wrong /\ (Flushes \/ StartsAfresh)
    \/ wrong' = wrong /\ \E c \in Conditions, w \in Words : WindowEnds(c, w)
    \/ pending = <<>> /\ \E c \in Conditions : wrong' = wrong \ {c} /\ Forgets(c)
    \/ UNCHANGED alertVars /\ \E c \in Conditions : wrong' = wrong \cup {c} /\ <<c, "raised">> \notin recent
    \/ UNCHANGED alertVars /\ \E c \in Conditions : wrong' = wrong \ {c} /\ <<c, "clear">> \notin recent

LEMMA PhoneMoves ==
    ASSUME Disturbances \cap {"flap", "early"} = {},
           IntegrationTypeOK, HeldWhileStarting, [HouseNext]_houseVars
    PROVE PhoneStep
<1> USE DEF PhoneStep
<1>0. wrong \subseteq Conditions
  BY DEF IntegrationTypeOK
<1>1. CASE SetupStep
  <2>1. CASE SetUp
    <3>1. pending = <<>>
      BY <2>1 DEF SetUp, Attempted, HeldWhileStarting, Loaded
    <3> QED BY <2>1, <3>1 DEF SetUp
  <2>2. CASE SetupFails \/ LocalHoldCleared \/ KeyRead \/ KeyDeleted
    BY <2>2 DEF SetupFails, LocalHoldCleared, KeyRead, KeyDeleted
  <2>3. CASE DegradedRead
    BY <2>3 DEF DegradedRead, Watches, Announces
  <2>4. CASE DevicesRead
    BY <2>4 DEF DevicesRead, Watches, Announces
  <2>5. CASE FirstHealth
    BY <2>5 DEF FirstHealth, Watches, Announces
  <2>6. CASE FirstLook
    BY <2>6 DEF FirstLook, Looks, Reachable
  <2> QED BY <1>1, <2>1, <2>2, <2>3, <2>4, <2>5, <2>6
<1>2. CASE StopStep
  BY <1>2 DEF StopResolves, StopHolds, StopPublishes, StopChecks, StopReleases, StopEnds, Ends
<1>3. CASE UnloadStep
  BY <1>3 DEF UnloadRestored, UnloadFlushes, UnloadChecks, UnloadReleases, UnloadEnds
<1>4. CASE Watch
  <2>1. CASE ViewPolled
    BY <2>1 DEF ViewPolled, Looks, Reachable
  <2>2. CASE HealthPolled
    BY <2>2 DEF HealthPolled, Announces
  <2>3. CASE IngressProbed
    <3>1. "ingress" \in Conditions /\ wrong' = wrong
      BY <2>3 DEF IngressProbed
    <3>2. CASE Leads /\ "ingress" \notin wrong
      <4>1. failures' = 0 /\ FailuresBeforeAlarm # 0
        BY <2>3, <3>2, IntegrationAssumption DEF IngressProbed, IntegrationAssumption
      <4>2. Clears("ingress")
        BY <2>3, <3>2, <4>1 DEF IngressProbed
      <4> QED BY <3>1, <3>2, <4>2
    <3>3. CASE ~(Leads /\ "ingress" \in wrong) /\ ~(Leads /\ "ingress" \notin wrong)
      <4>1. ~Leads
        BY <3>3
      <4> QED BY <2>3, <3>1, <4>1 DEF IngressProbed
    <3>4. CASE Leads /\ "ingress" \in wrong
      <4>1. Raises("ingress") \/ UNCHANGED alertVars
        BY <2>3, <3>4 DEF IngressProbed
      <4> QED BY <3>1, <3>4, <4>1
    <3> QED BY <3>2, <3>3, <3>4
  <2>4. CASE RadioChecked
    BY <2>4 DEF RadioChecked, Announces
  <2> QED BY <1>4, <2>1, <2>2, <2>3, <2>4
<1>5. CASE World
  BY <1>5 DEF PersonRaises, PersonClears, PeerRaises, PeerClears, PeerRestarts, PeerLetsGo,
              PromoterGivesUp, PeerIsBack, AutoHoldLapses, PeerTakes, PromoterTakes,
              LeaseLapses
<1>6. CASE Boots \/ Starts \/ FlushTick \/ ServiceReturns \/ ServiceFails \/ StopBegins \/ AddedAgain
  BY <1>6 DEF Boots, Starts, FlushTick, ServiceReturns, ServiceFails, StopBegins, AddedAgain
<1>7. CASE Started
  BY <1>7 DEF Started
<1>8. CASE Acknowledged
  <2>1. pending = <<>>
    BY <1>8 DEF Acknowledged, HeldWhileStarting, Ticking, Idle, UnloadSteps
  <2> QED BY <1>0, <1>8, <2>1 DEF Acknowledged
<1>9. CASE WindowPasses
  BY <1>9 DEF WindowPasses
<1>10. CASE Crashes \/ UnloadBegins
  BY <1>10 DEF Crashes, Ends, UnloadBegins
<1>11. CASE \E c \in Conditions : ConditionComes(c) \/ ConditionGoes(c)
  BY <1>11 DEF ConditionComes, ConditionGoes, Settled
<1>12. CASE UNCHANGED houseVars
  BY <1>12 DEF houseVars
<1> QED BY <1>1, <1>2, <1>3, <1>4, <1>5, <1>6, <1>7, <1>8, <1>9, <1>10, <1>11, <1>12
    DEF HouseNext

LEMMA PhoneKept ==
    ASSUME "recovered" \in Chosen,
           AlertTypeOK, QueueHasRoom, started => pending = <<>>,
           EdgesAreAnnounced, Agrees, PhoneStep
    PROVE EdgesAreAnnounced' /\ Agrees'
<1>0. "promoted" \in Subjects /\ "promoted" \notin Conditions /\ Conditions \subseteq Subjects
  BY IntegrationAssumption DEF Subjects, IntegrationAssumption, Probed, Marked
<1>1. CASE UNCHANGED alertVars
  <2>1. \A s \in Subjects : LastWord(s)' = LastWord(s)
    BY <1>1, LastWordStays DEF alertVars
  <2>2. Agrees'
    BY <1>0, <1>1, <2>1 DEF Agrees, alertVars
  <2>3. \/ wrong' = wrong
        \/ \E c \in Conditions : wrong' = wrong \cup {c} /\ <<c, "raised">> \notin recent
        \/ \E c \in Conditions : wrong' = wrong \ {c} /\ <<c, "clear">> \notin recent
        \/ \E c \in Conditions : wrong' = wrong \ {c} /\ Forgets(c)
    BY DEF PhoneStep
  <2>4. ASSUME NEW c \in Conditions, Forgets(c), wrong' = wrong \ {c}
        PROVE EdgesAreAnnounced'
    BY <1>1, <2>4 DEF Forgets, EdgesAreAnnounced, alertVars
  <2>5. EdgesAreAnnounced'
    BY <1>1, <2>3, <2>4 DEF EdgesAreAnnounced, alertVars
  <2> QED BY <2>2, <2>5
<1>2. ASSUME wrong' = wrong,
             NEW c \in Conditions, (c \in wrong /\ Raises(c)) \/ (c \notin wrong /\ Clears(c))
      PROVE EdgesAreAnnounced' /\ Agrees'
  BY <1>2, AnnounceAgrees
<1>3. ASSUME wrong' = wrong, NEW b \in BOOLEAN, NEW d \in BOOLEAN, ChecksPromotion(b, d)
      PROVE EdgesAreAnnounced' /\ Agrees'
  <2>1. Agrees'
    BY <1>3, PromotionAgrees
  <2>2. EdgesAreAnnounced'
    BY <1>3 DEF EdgesAreAnnounced, ChecksPromotion
  <2> QED BY <2>1, <2>2
<1>4. ASSUME wrong' = wrong, pending = <<>>, NEW b \in BOOLEAN, Rebuilt(b)
      PROVE EdgesAreAnnounced' /\ Agrees'
  <2>1. UNCHANGED <<active, recent, pending, told>> /\ tookOver' = FALSE
    BY <1>4 DEF Rebuilt
  <2>2. \A s \in Subjects : LastWord(s)' = LastWord(s)
    BY <2>1, LastWordStays
  <2> QED BY <1>0, <1>4, <2>1, <2>2 DEF EdgesAreAnnounced, Agrees
<1>5. CASE wrong' = wrong /\ Flushes
  <2>1. /\ UNCHANGED <<active, recent, tookOver>> /\ pending' = <<>>
        /\ told' = [s \in Subjects |-> LastWord(s)]
    BY <1>5 DEF Flushes
  <2>2. \A s \in Subjects : LastWord(s)' = LastWord(s)
    BY <2>1, LastWordOfNone
  <2> QED BY <1>0, <1>5, <2>1, <2>2 DEF EdgesAreAnnounced, Agrees
<1>6. CASE StartsAfresh
  <2>1. active' = {} /\ recent' = {} /\ pending' = <<>> /\ tookOver' = FALSE /\ told' = Silence
    BY <1>6 DEF StartsAfresh
  <2>2. \A s \in Subjects : LastWord(s)' = "nothing"
    BY <2>1, LastWordOfNone DEF Silence
  <2> QED BY <1>0, <2>1, <2>2 DEF EdgesAreAnnounced, Agrees
<1>7. ASSUME wrong' = wrong, NEW c \in Conditions, NEW w \in Words, WindowEnds(c, w)
      PROVE EdgesAreAnnounced' /\ Agrees'
  <2>1. UNCHANGED <<active, pending, tookOver, told>> /\ recent' \subseteq recent
    BY <1>7 DEF WindowEnds
  <2>2. \A s \in Subjects : LastWord(s)' = LastWord(s)
    BY <2>1, LastWordStays
  <2> QED BY <1>0, <1>7, <2>1, <2>2 DEF EdgesAreAnnounced, Agrees
<1>8. ASSUME pending = <<>>, NEW c \in Conditions, wrong' = wrong \ {c}, Forgets(c)
      PROVE EdgesAreAnnounced' /\ Agrees'
  <2>1. /\ active' = active \ {c} /\ told' = [told EXCEPT ![c] = "nothing"]
        /\ UNCHANGED <<recent, pending, tookOver>>
    BY <1>8 DEF Forgets
  <2>2. \A s \in Subjects : LastWord(s) = told[s] /\ LastWord(s)' = told'[s]
    BY <1>8, <2>1 DEF LastWord
  <2>3. told'[c] = "nothing" /\ \A s \in Subjects \ {c} : told'[s] = told[s]
    BY <1>0, <2>1 DEF AlertTypeOK
  <2>4. EdgesAreAnnounced'
    BY <1>8, <2>1 DEF EdgesAreAnnounced
  <2> QED BY <1>0, <2>1, <2>2, <2>3, <2>4 DEF Agrees
<1> QED BY <1>1, <1>2, <1>3, <1>4, <1>5, <1>6, <1>7, <1>8 DEF PhoneStep, alertVars

\* An announcement of a router that has started goes out at once.
LEMMA SentAtOnce ==
    ASSUME \/ UNCHANGED alertVars
           \/ \E c \in Conditions : Raises(c) \/ Clears(c) \/ Forgets(c)
           \/ \E b, d \in BOOLEAN : ChecksPromotion(b, d)
           \/ \E c \in Conditions, w \in Words : WindowEnds(c, w)
    PROVE started' = started /\ (started => pending' = pending)
BY DEF alertVars, Raises, Clears, Says, Pushes, Forgets, ChecksPromotion, WindowEnds

\* A move within a coroutine, or into a stop or out of a setup.
Moves ==
    \/ at' = at
    \/ at \in SetupSteps /\ at' \in SetupSteps \cup {"idle"}
    \/ at \in StopSteps /\ at' \in StopSteps
    \/ at \in UnloadSteps /\ at' \in UnloadSteps
    \/ at = "idle" /\ at' \in StopSteps

\* A move that says nothing leaves what waits.
LEMMA HeldQuietly ==
    ASSUME HeldWhileStarting, UNCHANGED alertVars, core' = core, entry' = entry, Moves
    PROVE HeldWhileStarting'
BY DEF HeldWhileStarting, Loaded, Moves, SetupSteps, StopSteps, UnloadSteps, alertVars

LEMMA HeldStep ==
    ASSUME "early" \notin Disturbances,
           IntegrationTypeOK, HeldWhileStarting, [HouseNext]_houseVars
    PROVE HeldWhileStarting'
<1> USE DEF Moves, Loaded, Goes, Idle, SetupSteps, StopSteps, UnloadSteps
<1>1. ASSUME UNCHANGED <<core, entry>>, Loaded, at \notin UnloadSteps,
             at' = at \/ (at \in SetupSteps /\ at' \in SetupSteps \cup {"idle"}),
             started' = started, started => pending' = pending
      PROVE HeldWhileStarting'
  BY <1>1 DEF HeldWhileStarting
<1>2. CASE SetupStep
  <2>1. CASE SetUp
    BY <2>1 DEF SetUp, Attempted, Rebuilt, HeldWhileStarting
  <2>2. CASE SetupFails
    BY <2>2 DEF SetupFails, Attempted, alertVars, HeldWhileStarting
  <2>3. CASE LocalHoldCleared \/ KeyRead \/ KeyDeleted
    BY <2>3, HeldQuietly DEF LocalHoldCleared, KeyRead, KeyDeleted
  <2>4. CASE DegradedRead \/ DevicesRead \/ FirstHealth
    <3>1. started' = started /\ (started => pending' = pending)
      BY <2>4, SentAtOnce DEF DegradedRead, DevicesRead, FirstHealth, Watches, Announces
    <3>2. /\ UNCHANGED <<core, entry>> /\ at \in SetupSteps /\ at' \in SetupSteps
      BY <2>4 DEF DegradedRead, DevicesRead, FirstHealth
    <3>3. Loaded /\ at \notin UnloadSteps
      BY <3>2 DEF HeldWhileStarting
    <3> QED BY <1>1, <3>1, <3>2, <3>3
  <2>5. CASE FirstLook
    <3>1. started' = started /\ (started => pending' = pending)
      BY <2>5, SentAtOnce DEF FirstLook, Looks, Reachable
    <3>2. /\ UNCHANGED <<core, entry>> /\ at \in SetupSteps /\ at' \in SetupSteps
      BY <2>5 DEF FirstLook
    <3>3. Loaded /\ at \notin UnloadSteps
      BY <3>2 DEF HeldWhileStarting
    <3> QED BY <1>1, <3>1, <3>2, <3>3
  <2> QED BY <1>2, <2>1, <2>2, <2>3, <2>4, <2>5
<1>3. CASE StopResolves \/ StopHolds \/ StopPublishes \/ StopChecks \/ StopReleases
  BY <1>3, HeldQuietly DEF StopResolves, StopHolds, StopPublishes, StopChecks, StopReleases
<1>4. CASE StopEnds \/ Crashes
  BY <1>4 DEF StopEnds, Crashes, Ends, StartsAfresh, HeldWhileStarting
<1>5. CASE UnloadRestored \/ UnloadFlushes \/ UnloadChecks \/ UnloadReleases
  BY <1>5, HeldQuietly DEF UnloadRestored, UnloadFlushes, UnloadChecks, UnloadReleases
<1>6. CASE UnloadEnds
  BY <1>6 DEF UnloadEnds, alertVars, HeldWhileStarting
<1>7. CASE Watch \/ Acknowledged \/ WindowPasses
  <2>1. UNCHANGED <<core, entry, at>>
    BY <1>7 DEF ViewPolled, HealthPolled, IngressProbed, RadioChecked, Acknowledged,
                WindowPasses, lifeVars
  <2>2. started' = started /\ (started => pending' = pending)
    <3>1. CASE ViewPolled
      BY <3>1, SentAtOnce DEF ViewPolled, Looks, Reachable
    <3>2. CASE HealthPolled
      BY <3>2, SentAtOnce DEF HealthPolled, Announces
    <3>3. CASE IngressProbed
      BY <3>3, SentAtOnce DEF IngressProbed
    <3>4. CASE RadioChecked
      BY <3>4, SentAtOnce DEF RadioChecked, Announces
    <3>5. CASE Acknowledged
      BY <3>5, SentAtOnce DEF Acknowledged, IntegrationTypeOK
    <3>6. CASE WindowPasses
      BY <3>6, SentAtOnce DEF WindowPasses
    <3> QED BY <1>7, <3>1, <3>2, <3>3, <3>4, <3>5, <3>6
  <2>3. CASE WindowPasses
    <3>1. pending' = pending
      BY <2>3 DEF WindowPasses, WindowEnds
    <3> QED BY <2>1, <2>2, <3>1 DEF HeldWhileStarting
  <2>4. CASE Watch \/ Acknowledged
    <3>1. Loaded /\ at = "idle"
      BY <2>4 DEF ViewPolled, HealthPolled, IngressProbed, RadioChecked, Acknowledged, Ticking
    <3> QED BY <1>1, <2>1, <2>2, <3>1
  <2> QED BY <1>7, <2>3, <2>4
<1>8. CASE World \/ FlushTick \/ ServiceReturns \/ ServiceFails
  BY <1>8, HeldQuietly DEF FlushTick, ServiceReturns, ServiceFails, lifeVars
<1>9. CASE Boots \/ Starts \/ AddedAgain
  BY <1>9 DEF Boots, Starts, AddedAgain, alertVars, HeldWhileStarting
<1>10. CASE Started
  BY <1>10 DEF Started, Flushes, alertVars, HeldWhileStarting
<1>11. CASE StopBegins
  BY <1>11, HeldQuietly DEF StopBegins
<1>12. CASE UnloadBegins
  <2>1. core = "running" /\ core' = core /\ Loaded /\ entry' = entry /\ at = "idle" /\ at' = "restoring"
    BY <1>12 DEF UnloadBegins
  <2>2. pending = <<>>
    BY <2>1 DEF HeldWhileStarting
  <2>3. pending' = <<>>
    BY <1>12, <2>2 DEF UnloadBegins, StartsAfresh, alertVars
  <2> QED BY <2>1, <2>3 DEF HeldWhileStarting
<1>13. CASE \E c \in Conditions : ConditionComes(c) \/ ConditionGoes(c)
  BY <1>13, HeldQuietly DEF ConditionComes, ConditionGoes, lifeVars
<1>14. CASE UNCHANGED houseVars
  BY <1>14, HeldQuietly DEF houseVars, lifeVars
<1> QED BY <1>2, <1>3, <1>4, <1>5, <1>6, <1>7, <1>8, <1>9, <1>10, <1>11, <1>12, <1>13, <1>14
    DEF HouseNext

\* While the queue of waiting pushes has room, the phone of an operator who wants the
\* all-clears hears of every edge of what the integration knows, once, through boots,
\* reloads, removals and crashes, whatever persons, the peer and the promoter do meanwhile,
\* if faults come and go more slowly than ALERT_MIN_INTERVAL and no entry is reloaded
\* before Home Assistant has started.
THEOREM PhoneHearsTheEdges ==
    ASSUME "recovered" \in Chosen, Disturbances \cap {"flap", "early"} = {}
    PROVE HouseSpec /\ []QueueHasRoom => []PhoneAgrees
<1> DEFINE PhoneInv == HeldWhileStarting /\ EdgesAreAnnounced /\ Agrees
<1>1. IntegrationInit => PhoneInv
  <2> SUFFICES ASSUME IntegrationInit
               PROVE PhoneInv
    OBVIOUS
  <2>1. active = {} /\ recent = {} /\ wrong = {} /\ pending = <<>> /\ told = Silence /\ ~tookOver
    BY DEF IntegrationInit, AlertInit
  <2>2. entry = "found" /\ at = "idle"
    BY DEF IntegrationInit
  <2>3. \A c \in Conditions : LastWord(c) = "nothing"
    BY <2>1 DEF LastWord, Silence, Subjects
  <2> QED BY <2>1, <2>2, <2>3 DEF HeldWhileStarting, Loaded, SetupSteps, UnloadSteps,
                                  EdgesAreAnnounced, Agrees
<1>2. IntegrationTypeOK /\ QueueHasRoom /\ PhoneInv /\ [HouseNext]_houseVars => PhoneInv'
  <2> SUFFICES ASSUME IntegrationTypeOK, QueueHasRoom, PhoneInv, [HouseNext]_houseVars
               PROVE PhoneInv'
    OBVIOUS
  <2>1. HeldWhileStarting'
    BY HeldStep
  <2>2. started => pending = <<>>
    BY DEF HeldWhileStarting
  <2>3. EdgesAreAnnounced' /\ Agrees'
    BY <2>2, PhoneMoves, PhoneKept DEF IntegrationTypeOK
  <2> QED BY <2>1, <2>3
<1>3. PhoneInv => PhoneAgrees
  BY DEF Agrees, PhoneAgrees
<1> QED BY IntegrationTypeCorrect, <1>1, <1>2, <1>3, PTL DEF HouseSpec
==============================================================================
