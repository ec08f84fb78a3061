-------------------------- MODULE MissionLoop_proofs --------------------------
(***************************************************************************)
(* Proofs about the mission manager and its loop with the SSM, for every   *)
(* table of missions that keeps the assumptions: the choice of the first   *)
(* accepted fallback is what the recursion of the code returns, the types  *)
(* are kept, and a settled emergency stop is not left for a driving        *)
(* mission.                                                                *)
(***************************************************************************)
EXTENDS MissionLoop, SequenceTheorems, TLAPS

-----------------------------------------------------------------------------
(* The chains of fallbacks.                                                *)

\* The missions that have a fallback, and theirs.
FallsBack   == {m \in DOMAIN missions_description :
                  missions_description[m].fallback # NoMission}
fallback(m) == missions_description[m].fallback
Targets     == {fallback(m) : m \in FallsBack}

\* A set that holds with a mission its fallback.
Closed(S) == \A j \in S \cap FallsBack : fallback(j) \in S

LEMMA TableTypes ==
  /\ FallsBack \subseteq Missions
  /\ \A m \in FallsBack : fallback(m) \in Missions
  /\ Targets \subseteq Missions
<1>1. \A m \in DOMAIN missions_description :
        m \in Missions /\ fallback(m) \in Missions \cup {NoMission}
  BY MissionManagerAssumption DEF fallback
<1> QED
  BY <1>1 DEF FallsBack, Targets, fallback

LEMMA ChainIsLeast ==
  ASSUME NEW m \in Missions
  PROVE  FallbackChain[m] =
           {k \in Targets \cup {m} :
              \A S \in SUBSET (Targets \cup {m}) : m \in S /\ Closed(S) => k \in S}
BY DEF FallbackChain, Closed, Targets, FallsBack, fallback

LEMMA ChainBasics ==
  ASSUME NEW m \in Missions
  PROVE  /\ m \in FallbackChain[m]
         /\ FallbackChain[m] \subseteq Targets \cup {m}
         /\ FallbackChain[m] \subseteq Missions
         /\ Closed(FallbackChain[m])
<1>1. /\ m \in FallbackChain[m]
      /\ FallbackChain[m] \subseteq Targets \cup {m}
  BY ChainIsLeast
<1>2. Closed(FallbackChain[m])
  <2> SUFFICES ASSUME NEW j \in FallbackChain[m] \cap FallsBack
               PROVE  fallback(j) \in FallbackChain[m]
    BY DEF Closed
  <2>1. fallback(j) \in Targets
    BY DEF Targets
  <2>2. ASSUME NEW S \in SUBSET (Targets \cup {m}), m \in S, Closed(S)
        PROVE  fallback(j) \in S
    <3>1. j \in S
      BY <2>2, ChainIsLeast
    <3> QED
      BY <2>2, <3>1 DEF Closed
  <2> QED
    BY <2>1, <2>2, ChainIsLeast
<1> QED
  BY <1>1, <1>2, TableTypes

\* A closed set that holds m holds its chain.
LEMMA ChainInClosed ==
  ASSUME NEW m \in Missions, NEW S, m \in S, Closed(S)
  PROVE  FallbackChain[m] \subseteq S
<1> DEFINE T == S \cap (Targets \cup {m})
<1>1. T \in SUBSET (Targets \cup {m}) /\ m \in T
  OBVIOUS
<1>2. Closed(T)
  BY DEF Closed, Targets
<1> HIDE DEF T
<1>3. FallbackChain[m] \subseteq T
  BY <1>1, <1>2, ChainIsLeast
<1> QED
  BY <1>3 DEF T

LEMMA ChainTransitive ==
  ASSUME NEW m \in Missions, NEW k \in FallbackChain[m]
  PROVE  FallbackChain[k] \subseteq FallbackChain[m]
BY ChainBasics, ChainInClosed

\* The chain of a mission is the mission and the chain of its fallback.
LEMMA ChainUnfolds ==
  ASSUME NEW m \in Missions
  PROVE  /\ m \notin FallsBack => FallbackChain[m] = {m}
         /\ m \in FallsBack =>
              /\ fallback(m) \in Missions
              /\ FallbackChain[m] = {m} \cup FallbackChain[fallback(m)]
<1>1. ASSUME m \notin FallsBack
      PROVE  FallbackChain[m] = {m}
  <2>1. Closed({m})
    BY <1>1 DEF Closed
  <2> QED
    BY <2>1, ChainBasics, ChainInClosed
<1>2. ASSUME m \in FallsBack
      PROVE  /\ fallback(m) \in Missions
             /\ FallbackChain[m] = {m} \cup FallbackChain[fallback(m)]
  <2>1. fallback(m) \in Missions
    BY <1>2, TableTypes
  <2>2. fallback(m) \in FallbackChain[m]
    BY <1>2, ChainBasics DEF Closed
  <2>3. {m} \cup FallbackChain[fallback(m)] \subseteq FallbackChain[m]
    BY <2>2, ChainBasics, ChainTransitive
  <2>4. Closed({m} \cup FallbackChain[fallback(m)])
    <3>1. /\ fallback(m) \in FallbackChain[fallback(m)]
          /\ Closed(FallbackChain[fallback(m)])
      BY <2>1, ChainBasics
    <3> QED
      BY <3>1 DEF Closed
  <2>5. FallbackChain[m] \subseteq {m} \cup FallbackChain[fallback(m)]
    BY <2>4, ChainInClosed
  <2> QED
    BY <2>1, <2>3, <2>5
<1> QED
  BY <1>1, <1>2

-----------------------------------------------------------------------------
(* The first accepted mission of a chain.                                  *)

\* Of the missions of a chain, some chain holds all of them and begins with one.
LEMMA FirstExists ==
  ASSUME NEW next \in Missions, NEW some \in SUBSET FallbackChain[next], some # {}
  PROVE  \E m \in some : some \subseteq FallbackChain[m]
<1> SUFFICES ASSUME \A m \in some : ~(some \subseteq FallbackChain[m])
             PROVE  FALSE
  OBVIOUS
<1> DEFINE S == {k \in FallbackChain[next] : some \subseteq FallbackChain[k]}
<1>1. next \in S
  BY ChainBasics
<1>2. Closed(S)
  <2> SUFFICES ASSUME NEW j \in S, j \in FallsBack
               PROVE  fallback(j) \in S
    BY DEF Closed
  <2>1. j \in Missions /\ j \notin some
    BY ChainBasics
  <2>2. some \subseteq FallbackChain[fallback(j)]
    BY <2>1, ChainUnfolds
  <2>3. fallback(j) \in FallbackChain[next]
    BY ChainBasics DEF Closed
  <2> QED
    BY <2>2, <2>3
<1>3. FallbackChain[next] \subseteq S
  BY <1>1, <1>2, ChainInClosed
<1> QED
  BY <1>3

\* There is one only, since no chain comes back to where it was.
LEMMA FirstIsUnique ==
  ASSUME NEW some \in SUBSET Missions,
         NEW m \in some, some \subseteq FallbackChain[m],
         NEW k \in some, some \subseteq FallbackChain[k]
  PROVE  m = k
<1> SUFFICES ASSUME m # k PROVE FALSE
  OBVIOUS
<1>1. m \in FallsBack /\ k \in FallbackChain[fallback(m)] /\ fallback(m) \in Missions
  BY ChainUnfolds
<1>2. m \in FallbackChain[fallback(m)]
  BY <1>1, ChainTransitive
<1> QED
  BY <1>1, <1>2, NoFallbackLoop DEF FallsBack, fallback

\* What Validated chooses from.
AcceptedOf(next) == {m \in FallbackChain[next] : Accepted(m)}
FirstOf(some)    == IF some = {} THEN mission
                    ELSE CHOOSE m \in some : some \subseteq FallbackChain[m]

LEMMA ValidatedIsFirst ==
  ASSUME NEW next
  PROVE  Validated(next) = FirstOf(AcceptedOf(next))
BY DEF Validated, FirstOf, AcceptedOf

LEMMA ValidatedChoice ==
  ASSUME NEW next \in Missions
  PROVE  /\ AcceptedOf(next) = {} => Validated(next) = mission
         /\ AcceptedOf(next) # {} =>
              /\ Validated(next) \in AcceptedOf(next)
              /\ AcceptedOf(next) \subseteq FallbackChain[Validated(next)]
<1>1. AcceptedOf(next) \in SUBSET FallbackChain[next]
  BY DEF AcceptedOf
<1>2. ASSUME NEW some, \E m \in some : some \subseteq FallbackChain[m]
      PROVE  FirstOf(some) \in some /\ some \subseteq FallbackChain[FirstOf(some)]
  <2>1. FirstOf(some) = CHOOSE m \in some : some \subseteq FallbackChain[m]
    BY <1>2 DEF FirstOf
  <2> QED
    BY <1>2, <2>1
<1>3. AcceptedOf(next) = {} => Validated(next) = mission
  BY ValidatedIsFirst DEF FirstOf
<1> QED
  BY <1>1, <1>2, <1>3, FirstExists, ValidatedIsFirst

\* Whatever the table, the flags and the place, the mission that is taken is the
\* one that validateMissionTransition returns, which calls itself with the
\* fallback of each mission it rejects, and keeps the mission there is when there
\* is no fallback left.
THEOREM ValidatedAsInCode ==
  ASSUME NEW next \in Missions
  PROVE  /\ Accepted(next) => Validated(next) = next
         /\ ~Accepted(next) /\ next \in FallsBack =>
              Validated(next) = Validated(fallback(next))
         /\ ~Accepted(next) /\ next \notin FallsBack => Validated(next) = mission
<1>1. AcceptedOf(next) \subseteq Missions
  BY ChainBasics DEF AcceptedOf
<1>2. ASSUME Accepted(next)
      PROVE  Validated(next) = next
  <2>1. next \in AcceptedOf(next) /\ AcceptedOf(next) \subseteq FallbackChain[next]
    BY <1>2, ChainBasics DEF AcceptedOf
  <2> QED
    BY <1>1, <2>1, ValidatedChoice, FirstIsUnique
<1>3. ASSUME ~Accepted(next), next \in FallsBack
      PROVE  Validated(next) = Validated(fallback(next))
  <2>1. AcceptedOf(next) = AcceptedOf(fallback(next))
    BY <1>3, ChainUnfolds DEF AcceptedOf
  <2> QED
    BY <2>1, ValidatedIsFirst
<1>4. ASSUME ~Accepted(next), next \notin FallsBack
      PROVE  Validated(next) = mission
  <2>1. AcceptedOf(next) = {}
    BY <1>4, ChainUnfolds DEF AcceptedOf
  <2> QED
    BY <2>1, ValidatedChoice
<1> QED
  BY <1>2, <1>3, <1>4

\* A mission that is neither the one there is nor the one the status carries was
\* valid: the table, if it has an entry, allows the place, the speed and the
\* transition.
LEMMA ValidatedIsAccepted ==
  ASSUME NEW next \in Missions, mission \in Missions
  PROVE  /\ Validated(next) \in Missions
         /\ Validated(next) = mission \/ Accepted(Validated(next))
BY ValidatedChoice, ChainBasics DEF AcceptedOf

-----------------------------------------------------------------------------
(* Types.                                                                  *)

\* An age begins with zero and ends one above its timeout.
LEMMA Timeouts ==
  /\ timeout_rc_flag_summary \in Nat
  /\ {0, timeout_rc_flag_summary + 1} \subseteq 0 .. timeout_rc_flag_summary + 1
  /\ {0, timeout_current_velocity + 1} \subseteq 0 .. timeout_current_velocity + 1
  /\ {0, timeout_odometry + 1} \subseteq 0 .. timeout_odometry + 1
  /\ timeout_mission + 1 \in 0 .. timeout_mission + 1
  /\ InitialMission \in Missions
<1>1. /\ timeout_rc_flag_summary \in Nat
      /\ timeout_current_velocity \in Nat
      /\ timeout_odometry \in Nat
      /\ timeout_mission \in Nat
      /\ InitialMission \in Missions
  BY MissionManagerAssumption, LoopAssumption
<1> QED
  BY <1>1

LEMMA CodeIsMission ==
  ASSUME ManagerTypeOK
  PROVE  MissionStatusCode \in Missions
<1>1. MissionVehFlagBlack \in Missions
  BY DEF MissionVehFlagBlack, ManagerTypeOK, Missions
<1>2. ASSUME NEW defender_mode \in BOOLEAN
      PROVE  MissionVehFlagNull(defender_mode) \in Missions
  BY DEF MissionVehFlagNull, DriveOr, ManagerTypeOK, Missions
<1>3. rc_age \in Nat
  BY Timeouts DEF ManagerTypeOK
<1>4. CASE rc_age >= timeout_rc_flag_summary
  <2>1. ~(rc_age < timeout_rc_flag_summary)
    BY <1>3, <1>4, Timeouts
  <2> QED
    BY <1>4, <2>1 DEF MissionStatusCode, Missions
<1>5. CASE rc_age < timeout_rc_flag_summary
  <2>1. ~(rc_age >= timeout_rc_flag_summary)
    BY <1>3, <1>5, Timeouts
  <2>2. {"EMERGENCY_STOP", "PIT_STANDBY", "COMMANDED_STOP"} \subseteq Missions
    BY DEF Missions
  <2> QED
    BY <1>1, <1>2, <1>5, <2>1, <2>2 DEF MissionStatusCode
<1> QED
  BY <1>3, <1>4, <1>5, Timeouts

LEMMA RunType ==
  ASSUME ManagerTypeOK, Run
  PROVE  ManagerTypeOK'
<1>1. mission' \in Missions
  BY CodeIsMission, ValidatedIsAccepted DEF Run, ManagerTypeOK, Missions
<1>2. is_system_startup' \in BOOLEAN
  BY DEF Run, ManagerTypeOK
<1> QED
  BY <1>1, <1>2 DEF Run, ManagerTypeOK, switchVars, inputVars

\* The ages stop one above their timeouts.
LEMMA NextAgeType ==
  ASSUME NEW timeout \in Nat, NEW age \in 0 .. timeout + 1
  PROVE  NextAge(age, timeout) \in 0 .. timeout + 1
BY DEF NextAge

LEMMA ManagerType ==
  ASSUME ManagerTypeOK, ManagerNext \/ Restart
  PROVE  ManagerTypeOK'
<1> USE DEF ManagerTypeOK, switchVars, inputVars
<1>1. CASE Run
  BY <1>1, RunType
<1>2. CASE RecoveryService
  BY <1>2 DEF RecoveryService, Missions
<1>3. CASE AvoidanceService \/ WarmupService
  BY <1>3 DEF AvoidanceService, WarmupService
<1>4. CASE Restart
  BY <1>4, Timeouts DEF Restart
<1>5. ASSUME NEW veh \in VehFlags, NEW track \in TrackFlags,
             RCFlagSummaryCallback(veh, track)
      PROVE  ManagerTypeOK'
  BY <1>5, Timeouts DEF RCFlagSummaryCallback
<1>6. ASSUME NEW speed \in Speeds, VelocityCallback(speed)
      PROVE  ManagerTypeOK'
  BY <1>6, Timeouts DEF VelocityCallback
<1>7. ASSUME NEW where \in Places, EgoOdometryCallback(where)
      PROVE  ManagerTypeOK'
  BY <1>7, Timeouts DEF EgoOdometryCallback
<1> QED
  BY <1>1, <1>2, <1>3, <1>4, <1>5, <1>6, <1>7 DEF ManagerNext

\* What is on the topic of the SystemStatus was there, or is the newest.
LEMMA EnqueuedType ==
  ASSUME NEW S, NEW topic \in Seq(S), Len(topic) <= StatusDepth, NEW msg \in S
  PROVE  /\ Enqueued(topic, msg) \in Seq(S)
         /\ Len(Enqueued(topic, msg)) <= StatusDepth
         /\ \A i \in DOMAIN Enqueued(topic, msg) :
              \/ Enqueued(topic, msg)[i] = msg
              \/ \E j \in DOMAIN topic : Enqueued(topic, msg)[i] = topic[j]
<1> USE LoopAssumption DEF Enqueued
<1>1. CASE Len(topic) < StatusDepth
  BY <1>1
<1>2. CASE ~(Len(topic) < StatusDepth)
  <2>1. /\ Tail(topic) \in Seq(S)
        /\ Len(Tail(topic)) = StatusDepth - 1
        /\ \A i \in DOMAIN Tail(topic) :
             i + 1 \in DOMAIN topic /\ Tail(topic)[i] = topic[i + 1]
    BY <1>2
  <2> QED
    BY <1>2, <2>1
<1> QED
  BY <1>1, <1>2

LEMMA TakenType ==
  ASSUME NEW S, NEW topic \in Seq(S), topic # <<>>, Len(topic) <= StatusDepth
  PROVE  /\ Tail(topic) \in Seq(S)
         /\ Len(Tail(topic)) <= StatusDepth
         /\ Head(topic) \in S
         /\ 1 \in DOMAIN topic /\ Head(topic) = topic[1]
         /\ \A i \in DOMAIN Tail(topic) : \E j \in DOMAIN topic : Tail(topic)[i] = topic[j]
<1>1. \A i \in DOMAIN Tail(topic) :
        i + 1 \in DOMAIN topic /\ Tail(topic)[i] = topic[i + 1]
  OBVIOUS
<1> QED
  BY <1>1, LoopAssumption

LEMMA EmptyTopic ==
  ASSUME NEW S
  PROVE  <<>> \in Seq(S) /\ Len(<<>>) <= StatusDepth
BY LoopAssumption

\* What a step does to the missions that the SSM keeps and hands on.
LEMMA KeeperType ==
  ASSUME TypeOK, Next
  PROVE  /\ kept_age' \in 0 .. timeout_mission + 1
         /\ {kept', published'} \subseteq [code : Missions, velocity : {0, 1}]
<1> USE LoopAssumption DEF TypeOK
<1>1. Keeper!EmergencyMission \in [code : Missions, velocity : {0, 1}]
  BY DEF Keeper!EmergencyMission, Keeper!Mission, Missions
<1>2. CASE UNCHANGED keeperVars
  BY <1>2 DEF keeperVars
<1>3. CASE Deliver
  <2>1. mission_topic \in Missions /\ MaxVelocity(mission_topic) \in {0, 1}
    BY <1>3 DEF Deliver, ManagerTypeOK, MaxVelocity
  <2>2. kept' \in [code : Missions, velocity : {0, 1}]
    BY <1>3, <2>1 DEF Deliver, Keeper!Receive, Keeper!Mission
  <2> QED
    BY <1>3, <2>2 DEF Deliver, Keeper!Receive
<1>4. CASE PublishStatus
  BY <1>1, <1>4 DEF PublishStatus, Keeper!Publish, Keeper!KeepOn, Keeper!Override
<1>5. CASE Tick
  BY <1>5 DEF Tick, Keeper!KeeperTick
<1> QED
  BY <1>2, <1>3, <1>4, <1>5 DEF Next, LoopStep, ManagerRestarts, TakeStatus

LEMMA TypeStep ==
  ASSUME TypeOK, [Next]_vars
  PROVE  TypeOK'
<1> USE DEF TypeOK
<1>1. CASE ManagerNext /\ UNCHANGED <<keeperVars, status_topic>>
  BY <1>1, ManagerType DEF keeperVars
<1>2. CASE Deliver
  BY <1>2, KeeperType
  DEF Next, LoopStep, Deliver, ManagerTypeOK, switchVars, inputVars
<1>3. CASE PublishStatus
  <2>1. published'.code \in Missions
    BY <1>3, KeeperType DEF Next, LoopStep
  <2>2. status_topic' \in Seq(Missions) /\ Len(status_topic') <= StatusDepth
    BY <1>3, <2>1, EnqueuedType DEF PublishStatus
  <2>3. UNCHANGED managerVars
    BY <1>3 DEF PublishStatus
  <2> QED
    BY <1>3, <2>2, <2>3, KeeperType
    DEF Next, LoopStep, managerVars, ManagerTypeOK, switchVars, inputVars
<1>6. CASE TakeStatus
  <2>1. /\ status_topic # <<>>
        /\ SystemStatusCallback(Head(status_topic))
        /\ status_topic' = Tail(status_topic)
        /\ UNCHANGED keeperVars
    BY <1>6 DEF TakeStatus
  <2>2. /\ status_topic' \in Seq(Missions) /\ Len(status_topic') <= StatusDepth
        /\ Head(status_topic) \in Missions
    BY <2>1, TakenType
  <2>3. ManagerTypeOK'
    BY <2>1, <2>2 DEF SystemStatusCallback, ManagerTypeOK, switchVars, inputVars
  <2> QED
    BY <2>1, <2>2, <2>3 DEF keeperVars
<1>7. CASE ManagerRestarts
  BY <1>7, ManagerType, EmptyTopic DEF ManagerRestarts, keeperVars
<1>4. CASE Tick
  <2>1. ManagerTypeOK'
    BY <1>4, NextAgeType, MissionManagerAssumption
    DEF Tick, ManagerTick, ManagerTypeOK, switchVars
  <2> QED
    BY <1>4, <2>1, KeeperType DEF Next, Tick
<1>5. CASE UNCHANGED vars
  BY <1>5 DEF vars, managerVars, keeperVars, ManagerTypeOK, switchVars, inputVars
<1> QED
  BY <1>1, <1>2, <1>3, <1>4, <1>5, <1>6, <1>7 DEF Next, LoopStep

\* Every variable of the mission manager and of its loop with the SSM stays in
\* its type: every mission that is chosen, kept or handed on is one of the codes.
THEOREM TypeCorrect == Spec => []TypeOK
<1>1. Init => TypeOK
  <2> SUFFICES ASSUME Init PROVE TypeOK
    OBVIOUS
  <2>1. ManagerTypeOK
    BY Timeouts DEF Init, ManagerInit, ManagerTypeOK
  <2>2. Keeper!EmergencyMission \in [code : Missions, velocity : {0, 1}]
    BY DEF Keeper!EmergencyMission, Keeper!Mission, Missions
  <2> QED
    BY <2>1, <2>2, LoopAssumption, EmptyTopic DEF Init, Keeper!KeeperInit, TypeOK
<1>2. TypeOK /\ [Next]_vars => TypeOK'
  BY TypeStep
<1> QED
  BY <1>1, <1>2, PTL DEF Spec

-----------------------------------------------------------------------------
(* The settled emergency stop.                                             *)

\* Where an emergency stop may be left for.
Standing == StoppedMissions \cup {"PIT_IN"}

LEMMA ChoiceAfterStop ==
  ASSUME ManagerTypeOK, mission = "EMERGENCY_STOP", system_status = "EMERGENCY_STOP",
         NEW next \in Missions
  PROVE  Validated(next) \in {"EMERGENCY_STOP"} \cup Standing
<1> DEFINE chosen == Validated(next)
<1>1. chosen \in Missions /\ (chosen = mission \/ Accepted(chosen))
  BY ValidatedIsAccepted DEF ManagerTypeOK
<1> HIDE DEF chosen
<1>2. ASSUME ~HasEntry(chosen)
      PROVE  chosen \in Standing
  BY <1>1, <1>2, StandingTable DEF HasEntry, Standing
<1>3. ASSUME HasEntry(chosen), IsValid(chosen)
      PROVE  chosen \in Standing
  BY <1>3, StandingTable DEF HasEntry, IsValid, Standing
<1>4. chosen \in {"EMERGENCY_STOP"} \cup Standing
  BY <1>1, <1>2, <1>3 DEF Accepted, missionIs
<1> QED
  BY <1>4 DEF chosen

LEMMA SettledStep ==
  ASSUME TypeOK, [Next]_vars, EmergencyStopSettled
  PROVE  EmergencyStopSettled' \/ mission' \in Standing
<1>s. /\ mission = "EMERGENCY_STOP"
      /\ system_status = "EMERGENCY_STOP"
      /\ kept.code = "EMERGENCY_STOP"
      /\ mission_topic \in {NoMission, "EMERGENCY_STOP"}
      /\ \A i \in DOMAIN status_topic : status_topic[i] = "EMERGENCY_STOP"
  BY DEF EmergencyStopSettled
<1>1. CASE Run /\ UNCHANGED <<keeperVars, status_topic>>
  <2>1. mission' \in {"EMERGENCY_STOP"} \cup Standing
    BY <1>1, <1>s, ChoiceAfterStop, CodeIsMission DEF Run, TypeOK
  <2>2. mission_topic' = mission' /\ UNCHANGED <<system_status, kept, status_topic>>
    BY <1>1 DEF Run, keeperVars
  <2> QED
    BY <1>s, <2>1, <2>2 DEF EmergencyStopSettled
<1>2. CASE RecoveryService \/ ManagerRestarts
  BY <1>2, StandingTable DEF RecoveryService, ManagerRestarts, Restart, Standing
<1>3. CASE UNCHANGED <<mission, mission_topic, system_status, kept, status_topic>>
  BY <1>3 DEF EmergencyStopSettled
<1>4. CASE ManagerNext /\ UNCHANGED <<keeperVars, status_topic>>
  <2>1. ASSUME \/ AvoidanceService \/ WarmupService
               \/ \E veh \in VehFlags, track \in TrackFlags :
                    RCFlagSummaryCallback(veh, track)
               \/ \E speed \in Speeds : VelocityCallback(speed)
               \/ \E where \in Places : EgoOdometryCallback(where)
        PROVE  UNCHANGED <<mission, mission_topic, system_status>>
    BY <2>1 DEF AvoidanceService, WarmupService, RCFlagSummaryCallback,
                VelocityCallback, EgoOdometryCallback
  <2> QED
    BY <1>1, <1>2, <1>3, <1>4, <2>1 DEF ManagerNext, keeperVars
<1>5. CASE Deliver
  <2>1. kept'.code = "EMERGENCY_STOP"
    BY <1>5, <1>s DEF Deliver, Keeper!Receive, Keeper!Mission
  <2> QED
    BY <1>5, <1>s, <2>1 DEF Deliver, EmergencyStopSettled
<1>6. CASE PublishStatus
  <2>1. kept'.code = "EMERGENCY_STOP" /\ published'.code = "EMERGENCY_STOP"
    BY <1>6, <1>s
    DEF PublishStatus, Keeper!Publish, Keeper!KeepOn, Keeper!Override,
        Keeper!EmergencyMission, Keeper!Mission
  <2>2. \A i \in DOMAIN status_topic' : status_topic'[i] = "EMERGENCY_STOP"
    <3>1. status_topic' = Enqueued(status_topic, published'.code)
      BY <1>6 DEF PublishStatus
    <3>2. "EMERGENCY_STOP" \in Missions
      BY DEF Missions
    <3> QED
      BY <1>s, <2>1, <3>1, <3>2, EnqueuedType DEF TypeOK
  <2>3. UNCHANGED <<mission, mission_topic, system_status>>
    BY <1>6 DEF PublishStatus, managerVars
  <2> QED
    BY <1>s, <2>1, <2>2, <2>3 DEF EmergencyStopSettled
<1>9. CASE TakeStatus
  <2>1. /\ status_topic # <<>>
        /\ system_status' = Head(status_topic)
        /\ status_topic' = Tail(status_topic)
        /\ UNCHANGED <<mission, mission_topic, kept>>
    BY <1>9 DEF TakeStatus, SystemStatusCallback, keeperVars
  <2>2. /\ Head(status_topic) = "EMERGENCY_STOP"
        /\ \A i \in DOMAIN status_topic' : status_topic'[i] = "EMERGENCY_STOP"
    BY <1>s, <2>1, TakenType DEF TypeOK
  <2> QED
    BY <1>s, <2>1, <2>2 DEF EmergencyStopSettled
<1>7. CASE Tick
  BY <1>3, <1>7 DEF Tick, ManagerTick, Keeper!KeeperTick
<1>8. CASE UNCHANGED vars
  BY <1>3, <1>8 DEF vars, managerVars, keeperVars
<1> QED
  BY <1>2, <1>4, <1>5, <1>6, <1>7, <1>8, <1>9 DEF Next, LoopStep

\* Whatever the flags, the places and the delays of the two topics, and for every
\* table that keeps StandingTable: an emergency stop that both nodes know of is
\* left by way of a mission that stands or goes to the pits only.
THEOREM EmergencyStopIsHeld == Spec => SettledEmergencyStopHolds
<1>1. TypeOK /\ [Next]_vars =>
        [EmergencyStopSettled =>
           EmergencyStopSettled' \/ mission' \in StoppedMissions \cup {"PIT_IN"}]_vars
  BY SettledStep DEF Standing
<1> QED
  BY <1>1, TypeCorrect, PTL DEF Spec, SettledEmergencyStopHolds

-----------------------------------------------------------------------------
(* Inputs that stay silent.                                                *)

\* The SSM has an emergency stop, and nothing else is on its way to it.
StopDelivered == kept.code = "EMERGENCY_STOP" /\ mission_topic \in {NoMission, "EMERGENCY_STOP"}

\* InputLossStops, once it is reached: while an input of the mission manager is
\* too old, nothing in either node, a restart and the services included, takes
\* back the emergency stop that the SSM has.
SilenceHolds == [][StopDelivered /\ ~DataOk => StopDelivered']_vars

LEMMA SilentStep ==
  ASSUME [Next]_vars, StopDelivered, ~DataOk
  PROVE  StopDelivered'
<1>1. CASE Run /\ UNCHANGED keeperVars
  BY <1>1 DEF Run, keeperVars, StopDelivered
<1>2. CASE UNCHANGED <<mission_topic, kept>>
  BY <1>2 DEF StopDelivered
<1>3. CASE (ManagerNext \/ Restart) /\ UNCHANGED keeperVars
  <2>1. Run \/ UNCHANGED mission_topic
    BY <1>3
    DEF ManagerNext, RecoveryService, AvoidanceService, WarmupService, Restart,
        RCFlagSummaryCallback, VelocityCallback, EgoOdometryCallback, switchVars
  <2> QED
    BY <1>1, <1>2, <1>3, <2>1 DEF keeperVars
<1>4. CASE Deliver
  BY <1>4 DEF Deliver, Keeper!Receive, Keeper!Mission, StopDelivered
<1>5. CASE PublishStatus
  BY <1>5
  DEF PublishStatus, managerVars, Keeper!Publish, Keeper!KeepOn, Keeper!Override,
      Keeper!EmergencyMission, Keeper!Mission, StopDelivered
<1>7. CASE TakeStatus
  BY <1>2, <1>7 DEF TakeStatus, SystemStatusCallback, keeperVars
<1>6. CASE Tick \/ UNCHANGED vars
  BY <1>2, <1>6 DEF Tick, ManagerTick, Keeper!KeeperTick, vars, managerVars, keeperVars
<1> QED
  BY <1>3, <1>4, <1>5, <1>6, <1>7 DEF Next, LoopStep, ManagerRestarts

\* For every table of transitions and all timeouts.
THEOREM SilenceIsNotOutlasted == Spec => SilenceHolds
<1>1. [Next]_vars => [StopDelivered /\ ~DataOk => StopDelivered']_vars
  BY SilentStep
<1> QED
  BY <1>1, PTL DEF Spec, SilenceHolds

-----------------------------------------------------------------------------
(* A red flag that stays.                                                  *)

RedShown ==
  /\ rc_flag_summary.track = "RED"
  /\ rc_flag_summary.veh \in {"NULL", "ATTACKER", "PURPLE", "OTHER"}

\* Each mission that one of the nodes has, or that is on its way, is one that a
\* red flag leads to, and the SSM's have no velocity.
RedSettled ==
  /\ {mission, system_status, kept.code, published.code} \subseteq RedMissions
  /\ mission_topic \in RedMissions \cup {NoMission}
  /\ \A i \in DOMAIN status_topic : status_topic[i] \in RedMissions
  /\ kept.velocity = 0 /\ published.velocity = 0

\* RedFlagStops, once it is reached: under a red flag, whatever the car's place
\* and speed, however old the inputs are, and through overrides, restarts and
\* services, no mission is rejected into one that drives, and none gets a
\* velocity.
RedStandHolds == [][RedSettled /\ RedShown => RedSettled']_vars

LEMMA RedChain ==
  ASSUME NEW next \in RedMissions
  PROVE  next \in Missions /\ FallbackChain[next] \subseteq RedMissions
<1>1. RedMissions \subseteq Missions
  BY Timeouts DEF RedMissions, Missions
<1>2. Closed(FallbackChain[next] \cap RedMissions)
  <2> SUFFICES ASSUME NEW j \in FallbackChain[next] \cap RedMissions, j \in FallsBack
               PROVE  fallback(j) \in FallbackChain[next] \cap RedMissions
    BY DEF Closed
  <2>1. fallback(j) \in FallbackChain[next]
    BY <1>1, ChainBasics DEF Closed
  <2>2. fallback(j) \in RedMissions
    BY RedTable DEF FallsBack, fallback
  <2> QED
    BY <2>1, <2>2
<1>3. FallbackChain[next] \subseteq FallbackChain[next] \cap RedMissions
  BY <1>1, <1>2, ChainBasics, ChainInClosed
<1> QED
  BY <1>1, <1>3

LEMMA RedChoice ==
  ASSUME TypeOK, RedSettled, RedShown
  PROVE  Validated(MissionStatusCode) \in RedMissions
<1>1. mission \in RedMissions
  BY DEF RedSettled
<1>2. ASSUME NEW defender_mode \in BOOLEAN
      PROVE  MissionVehFlagNull(defender_mode) \in RedMissions
  <2>1. rc_flag_summary.track = "RED"
    BY DEF RedShown
  <2> QED
    BY <1>1, <2>1 DEF MissionVehFlagNull, RedMissions
<1>3. rc_age \in Nat
  BY Timeouts DEF TypeOK, ManagerTypeOK
<1>4. MissionStatusCode \in RedMissions
  <2>1. {"EMERGENCY_STOP", "COMMANDED_STOP"} \subseteq RedMissions
    BY DEF RedMissions
  <2>2. CASE rc_age >= timeout_rc_flag_summary
    <3>1. ~(rc_age < timeout_rc_flag_summary)
      BY <1>3, <2>2, Timeouts
    <3> QED
      BY <2>1, <2>2, <3>1 DEF MissionStatusCode
  <2>3. CASE rc_age < timeout_rc_flag_summary
    <3>1. ~(rc_age >= timeout_rc_flag_summary)
      BY <1>3, <2>3, Timeouts
    <3>2. rc_flag_summary.veh \in {"NULL", "ATTACKER", "PURPLE", "OTHER"}
      BY DEF RedShown
    <3> QED
      BY <1>2, <2>1, <2>3, <3>1, <3>2 DEF MissionStatusCode
  <2> QED
    BY <1>3, <2>2, <2>3, Timeouts
<1> DEFINE next == MissionStatusCode
<1>5. next \in Missions /\ FallbackChain[next] \subseteq RedMissions
  BY <1>4, RedChain
<1>6. Validated(next) = mission \/ Validated(next) \in AcceptedOf(next)
  <2> HIDE DEF next
  <2> QED
    BY <1>5, ValidatedChoice
<1>7. AcceptedOf(next) \subseteq RedMissions
  BY <1>5 DEF AcceptedOf
<1> QED
  BY <1>1, <1>6, <1>7

LEMMA RedStep ==
  ASSUME TypeOK, [Next]_vars, RedSettled, RedShown
  PROVE  RedSettled'
<1>1. CASE Run /\ UNCHANGED <<keeperVars, status_topic>>
  <2>1. mission' \in RedMissions
    <3>1. "EMERGENCY_STOP" \in RedMissions
      BY DEF RedMissions
    <3> QED
      BY <1>1, <3>1, RedChoice DEF Run
  <2> QED
    BY <1>1, <2>1 DEF Run, keeperVars, RedSettled
<1>2. CASE (RecoveryService /\ UNCHANGED <<keeperVars, status_topic>>) \/ ManagerRestarts
  <2>1. DOMAIN <<>> = {}
    OBVIOUS
  <2> QED
    BY <1>2, <2>1
    DEF RecoveryService, ManagerRestarts, Restart, RedSettled, RedMissions, keeperVars
<1>3. CASE UNCHANGED <<mission, mission_topic, system_status, kept, published, status_topic>>
  BY <1>3 DEF RedSettled
<1>4. CASE ManagerNext /\ UNCHANGED <<keeperVars, status_topic>>
  <2>1. ASSUME \/ AvoidanceService \/ WarmupService
               \/ \E veh \in VehFlags, track \in TrackFlags :
                    RCFlagSummaryCallback(veh, track)
               \/ \E speed \in Speeds : VelocityCallback(speed)
               \/ \E where \in Places : EgoOdometryCallback(where)
        PROVE  UNCHANGED <<mission, mission_topic, system_status>>
    BY <2>1 DEF AvoidanceService, WarmupService, RCFlagSummaryCallback,
                VelocityCallback, EgoOdometryCallback
  <2> QED
    BY <1>1, <1>2, <1>3, <1>4, <2>1 DEF ManagerNext, keeperVars
<1>5. CASE Deliver
  <2>1. mission_topic \in RedMissions
    BY <1>5 DEF Deliver, RedSettled
  <2>2. MaxVelocity(mission_topic) = 0
    BY <2>1, RedTable DEF MaxVelocity
  <2>3. kept'.code = mission_topic /\ kept'.velocity = 0 /\ UNCHANGED published
    BY <1>5, <2>2 DEF Deliver, Keeper!Receive, Keeper!Mission
  <2> QED
    BY <1>5, <2>1, <2>3 DEF Deliver, RedSettled
<1>6. CASE PublishStatus
  <2>1. kept'.code \in RedMissions /\ kept'.velocity = 0 /\ published' = kept'
    BY <1>6
    DEF PublishStatus, Keeper!Publish, Keeper!KeepOn, Keeper!Override,
        Keeper!EmergencyMission, Keeper!Mission, RedSettled, RedMissions
  <2>2. \A i \in DOMAIN status_topic' : status_topic'[i] \in RedMissions
    <3>1. status_topic' = Enqueued(status_topic, published'.code)
      BY <1>6 DEF PublishStatus
    <3>2. published'.code \in Missions
      BY <1>6, KeeperType DEF Next, LoopStep
    <3>3. status_topic \in Seq(Missions) /\ Len(status_topic) <= StatusDepth
      BY DEF TypeOK
    <3>4. \A i \in DOMAIN status_topic' :
            \/ status_topic'[i] = published'.code
            \/ \E j \in DOMAIN status_topic : status_topic'[i] = status_topic[j]
      BY <3>1, <3>2, <3>3, EnqueuedType
    <3>5. \A j \in DOMAIN status_topic : status_topic[j] \in RedMissions
      BY DEF RedSettled
    <3> QED
      BY <2>1, <3>4, <3>5
  <2>3. UNCHANGED <<mission, mission_topic, system_status>>
    BY <1>6 DEF PublishStatus, managerVars
  <2> QED
    BY <2>1, <2>2, <2>3 DEF RedSettled
<1>8. CASE TakeStatus
  <2>1. /\ status_topic # <<>>
        /\ system_status' = Head(status_topic)
        /\ status_topic' = Tail(status_topic)
        /\ UNCHANGED <<mission, mission_topic, kept, published>>
    BY <1>8 DEF TakeStatus, SystemStatusCallback, keeperVars
  <2>2. /\ Head(status_topic) \in RedMissions
        /\ \A i \in DOMAIN status_topic' : status_topic'[i] \in RedMissions
    BY <2>1, TakenType DEF TypeOK, RedSettled
  <2> QED
    BY <2>1, <2>2 DEF RedSettled
<1>7. CASE Tick \/ UNCHANGED vars
  BY <1>3, <1>7 DEF Tick, ManagerTick, Keeper!KeeperTick, vars, managerVars, keeperVars
<1> QED
  BY <1>2, <1>4, <1>5, <1>6, <1>7, <1>8 DEF Next, LoopStep

\* For every table that keeps RedTable, and all places, speeds and timeouts.
THEOREM RedStandIsNotLeft == Spec => RedStandHolds
<1>1. TypeOK /\ [Next]_vars => [RedSettled /\ RedShown => RedSettled']_vars
  BY RedStep
<1> QED
  BY <1>1, TypeCorrect, PTL DEF Spec, RedStandHolds

-----------------------------------------------------------------------------
(* The SSM's part.                                                         *)

\* The composition keeps the SSM's promise: whatever the mission manager does,
\* the missions in the loop go as MissionKeeper says, which is what
\* SystemStatusManager implements.
THEOREM LoopKeepsPromise == Spec => Keeper!KeeperSpec
<1>1. Init => Keeper!KeeperInit
  BY DEF Init
<1>2. TypeOK /\ [Next]_vars => [Keeper!KeeperNext]_(Keeper!keeperVars)
  <2> SUFFICES ASSUME TypeOK, [Next]_vars
               PROVE  [Keeper!KeeperNext]_(Keeper!keeperVars)
    OBVIOUS
  <2>1. CASE Deliver
    <3>1. mission_topic \in Missions /\ MaxVelocity(mission_topic) \in {0, 1}
      BY <2>1 DEF Deliver, TypeOK, ManagerTypeOK, MaxVelocity
    <3> QED
      BY <2>1, <3>1 DEF Deliver, Keeper!KeeperNext
  <2>2. CASE PublishStatus \/ Tick
    BY <2>2 DEF PublishStatus, Tick, Keeper!KeeperNext
  <2>3. CASE UNCHANGED keeperVars
    BY <2>3 DEF keeperVars, Keeper!keeperVars
  <2> QED
    BY <2>1, <2>2, <2>3 DEF Next, LoopStep, ManagerRestarts, TakeStatus, vars
<1> QED
  BY <1>1, <1>2, TypeCorrect, PTL DEF Spec, Keeper!KeeperSpec
=============================================================================
