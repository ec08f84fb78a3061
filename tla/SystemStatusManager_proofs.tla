---------------------- MODULE SystemStatusManager_proofs --------------------
(***************************************************************************)
(* Proofs about SystemStatusManager: its state keeps its type, and the     *)
(* communication failure is released only by a new beat and the operator.  *)
(***************************************************************************)
EXTENDS SystemStatusManager, SequenceTheorems, TLAPS

SSMTypeOK ==
  /\ t \in Nat
  /\ counter_joy \in Counters \cup {default_counter}
  /\ counter_joy_prev \in Counters \cup {default_counter}
  /\ comms_heartbeat_ok \in BOOLEAN
  /\ recovery_enabled \in BOOLEAN
  /\ joy_emergency_stop \in BOOLEAN
  /\ localization_status_code \in LocalizationCodes \cup {LOCALIZATION_STOP}
  /\ localization_age \in 0 .. timeout_localization_status + 1
  /\ mission_age \in 0 .. timeout_mission + 1
  /\ is_ll_healthy \in BOOLEAN
  /\ ll_age \in 0 .. timeout_ll + 1
  /\ system_status_msg \in SystemStatus
  /\ published \in SystemStatus
  /\ since_drop \in SUBSET {"beat", "recovery"}
  /\ mission_since_override \in BOOLEAN

-----------------------------------------------------------------------------
(* The registry.                                                           *)

\* An index the registry computes is one of its records, or 1.
LEMMA StatusIndexInRange ==
  ASSUME RegistryTypeOK, NEW id \in NodeIds
  PROVE  StatusIndexById(id) \in 1 .. Len(node_status_records) \cup {1}
BY DEF StatusIndexById, FirstId, NodeIds, NoId

\* Writing one element of a sequence, or none when the index is outside.
LEMMA SequenceUpdate ==
  ASSUME NEW S, NEW s \in Seq(S), NEW i, NEW x, i \in 1 .. Len(s) => x \in S
  PROVE  /\ [s EXCEPT ![i] = x] \in Seq(S)
         /\ Len([s EXCEPT ![i] = x]) = Len(s)
<1> DEFINE new(j) == IF j = i THEN x ELSE s[j]
<1>1. [s EXCEPT ![i] = x] = [j \in 1 .. Len(s) |-> new(j)]
  OBVIOUS
<1>2. \A j \in 1 .. Len(s) : new(j) \in S
  OBVIOUS
<1>3. Len(s) \in Nat
  OBVIOUS
<1> HIDE DEF new
<1>4. [j \in 1 .. Len(s) |-> new(j)] \in Seq(S)
  BY <1>2, <1>3
<1>5. Len([j \in 1 .. Len(s) |-> new(j)]) = Len(s)
  BY <1>3
<1>6. QED
  BY <1>1, <1>4, <1>5

\* Ageing a status leaves a status.
LEMMA OlderType ==
  ASSUME NEW status \in NodeStatus
  PROVE  Older(status) \in NodeStatus
BY RegistryAssumption DEF Older, NodeStatus, Ages

\* The age check leaves a sequence of statuses, of the same length.
LEMMA AgeCheckedType ==
  ASSUME RegistryTypeOK
  PROVE  /\ AgeChecked \in Seq(NodeStatus)
         /\ Len(AgeChecked) = Len(node_status_records)
<1> DEFINE checked(i) == IF IsDead(node_status_records[i])
                           THEN [node_status_records[i] EXCEPT !.code = NODE_DEAD]
                           ELSE node_status_records[i]
<1>1. \A i \in 1 .. Len(node_status_records) : checked(i) \in NodeStatus
  <2> TAKE i \in 1 .. Len(node_status_records)
  <2>1. node_status_records[i] \in NodeStatus
    BY DEF RegistryTypeOK
  <2>2. QED
    BY <2>1 DEF NodeStatus, NodeCodes, NODE_DEAD, NODE_OK
<1>2. AgeChecked = [i \in 1 .. Len(node_status_records) |-> checked(i)]
  BY DEF AgeChecked, RegistryTypeOK
<1> HIDE DEF checked
<1>3. QED
  BY <1>1, <1>2 DEF RegistryTypeOK

LEMMA AgeCheckedListType ==
  ASSUME RegistryTypeOK
  PROVE  /\ AgeCheckedList \in Seq(NodeStatusShort)
         /\ Len(AgeCheckedList) = Len(node_statuses_list)
<1> DEFINE dead(j) == \E i \in DOMAIN node_status_records :
                        /\ IsDead(node_status_records[i])
                        /\ StatusIndexById(node_status_records[i].node_id) = j
           checked(j) == IF dead(j)
                           THEN [node_statuses_list[j] EXCEPT !.code = NODE_DEAD]
                           ELSE node_statuses_list[j]
<1>1. AgeCheckedList = [j \in 1 .. Len(node_statuses_list) |-> checked(j)]
  BY DEF AgeCheckedList, RegistryTypeOK
<1> HIDE DEF dead
<1>2. \A j \in 1 .. Len(node_statuses_list) : checked(j) \in NodeStatusShort
  <2> TAKE j \in 1 .. Len(node_statuses_list)
  <2>1. node_statuses_list \in Seq(NodeStatusShort)
    BY DEF RegistryTypeOK
  <2>2. node_statuses_list[j] \in NodeStatusShort
    BY <2>1
  <2>3. QED
    BY <2>2 DEF NodeStatusShort, NodeCodes, NODE_DEAD, NODE_OK
<1> HIDE DEF checked
<1>3. QED
  BY <1>1, <1>2 DEF RegistryTypeOK

LEMMA StoredType ==
  ASSUME NEW msg \in NodeStatus, NEW inactive \in BOOLEAN
  PROVE  Stored(msg, inactive) \in NodeStatus /\ Stored(msg, inactive).code \in NodeCodes
BY DEF Stored, NodeStatus, NodeCodes, NODE_INACTIVE, NODE_OK, NODE_DEAD

\* Every action of the registry keeps its type.
LEMMA RegistryStepType ==
  ASSUME RegistryTypeOK, RegistryNext
  PROVE  RegistryTypeOK'
<1> USE DEF RegistryTypeOK
<1>1. ASSUME NEW n \in Nodes, NodeStart(n)
      PROVE  RegistryTypeOK'
  BY <1>1 DEF NodeStart, ssmRegistry, Senders
<1>2. ASSUME NEW n \in Nodes, ReceiveResponse(n)
      PROVE  RegistryTypeOK'
  <2>1. /\ node_status[n] \in OwnStatus
        /\ response[n] \in NodeIds
    OBVIOUS
  <2>2. node_status' \in [Nodes -> OwnStatus]
    BY <1>2, <2>1 DEF ReceiveResponse, OwnStatus
  <2>3. response' \in [Nodes -> NodeIds]
    BY <1>2, RegistryAssumption DEF ReceiveResponse, NodeIds, NoId
  <2>4. down_age' \in [FirstId .. MaxRecords -> Ages]
    <3>1. 0 \in Ages
      BY RegistryAssumption DEF Ages
    <3>2. down_age' = [down_age EXCEPT ![response[n]] = 0]
      BY <1>2 DEF ReceiveResponse
    <3>3. QED
      BY <3>1, <3>2
  <2>5. QED
    BY <1>2, <2>2, <2>3, <2>4 DEF ReceiveResponse, ssmRegistry
<1>3. ASSUME NEW n \in Nodes, NEW code \in OwnCodes, SetNodeStatus(n, code)
      PROVE  RegistryTypeOK'
  <2>1. code \in NodeCodes
    BY OwnCodesAssumption DEF NodeCodes, NODE_OK, NODE_ERROR, NODE_DEAD
  <2>2. QED
    BY <1>3, <2>1 DEF SetNodeStatus, ssmRegistry, OwnStatus
<1>4. ASSUME NEW n \in Nodes, NodeStatusTimer(n)
      PROVE  RegistryTypeOK'
  <2>1. [node_id |-> node_status[n].node_id, code |-> node_status[n].code,
         age |-> 0] \in NodeStatus
    BY RegistryAssumption DEF NodeStatus, OwnStatus, Ages
  <2>2. topic' \in [Nodes -> SUBSET NodeStatus]
    BY <1>4, <2>1 DEF NodeStatusTimer
  <2>3. QED
    BY <1>4, <2>2 DEF NodeStatusTimer, ssmRegistry, nodeSide
<1>5. ASSUME NEW n \in Nodes, NodeCrash(n)
      PROVE  RegistryTypeOK'
  <2>1. FreshStatus \in OwnStatus /\ NoId \in NodeIds
    BY RegistryAssumption
    DEF FreshStatus, OwnStatus, NodeIds, NoId, NodeCodes, NODE_OK, NODE_DEAD
  <2>2. QED
    BY <1>5, <2>1 DEF NodeCrash, ssmRegistry, Senders
<1>6. ASSUME NEW n \in Nodes, NEW sender, RegisterNode(n, sender)
      PROVE  RegistryTypeOK'
  <2> DEFINE id == FirstId + Len(node_status_records)
             status == [node_id |-> id, code |-> NODE_OK, age |-> NodeDeadTimeout]
             entry  == [node_name |-> n, code |-> NODE_INACTIVE]
  <2>1. id \in NodeIds /\ Len(node_status_records) < MaxRecords
    BY <1>6, RegistryAssumption DEF RegisterNode, NodeIds, NoId, FirstId
  <2>2. status \in NodeStatus
    BY <2>1, RegistryAssumption
    DEF NodeStatus, NodeCodes, NODE_OK, NODE_DEAD, Ages
  <2>3. entry \in NodeStatusShort
    BY DEF NodeStatusShort, NodeCodes, NODE_OK, NODE_INACTIVE, NODE_DEAD
  <2>4. /\ node_status_records' = Append(node_status_records, status)
        /\ node_statuses_list' = Append(node_statuses_list, entry)
        /\ response' \in [Nodes -> NodeIds]
    BY <1>6, <2>1 DEF RegisterNode
  <2> HIDE DEF id, status, entry
  <2>5. /\ node_status_records' \in Seq(NodeStatus)
        /\ Len(node_status_records') = Len(node_status_records) + 1
    BY <2>2, <2>4
  <2>6. /\ node_statuses_list' \in Seq(NodeStatusShort)
        /\ Len(node_statuses_list') = Len(node_statuses_list) + 1
    BY <2>3, <2>4
  <2>7. Len(node_status_records') <= MaxRecords
    BY <2>1, <2>5, RegistryAssumption
  <2>8. QED
    BY <1>6, <2>4, <2>5, <2>6, <2>7 DEF RegisterNode
<1>7. ASSUME NEW n \in Nodes, NEW msg \in topic[n], NEW inactive \in BOOLEAN,
             NodeStatusUpdate(n, msg, inactive)
      PROVE  RegistryTypeOK'
  <2> DEFINE index  == StatusIndexById(msg.node_id)
             stored == Stored(msg, inactive)
  <2>1. msg \in NodeStatus
    <3>1. topic[n] \in SUBSET NodeStatus
      OBVIOUS
    <3>2. QED
      BY <3>1
  <2>2. stored \in NodeStatus /\ stored.code \in NodeCodes
    BY <2>1, StoredType
  <2>3. node_status_records' = [node_status_records EXCEPT ![index] = stored]
    BY <1>7 DEF NodeStatusUpdate
  <2>4. node_statuses_list' = [node_statuses_list EXCEPT ![index].code = stored.code]
    BY <1>7 DEF NodeStatusUpdate
  <2>5. topic' \in [Nodes -> SUBSET NodeStatus]
    BY <1>7 DEF NodeStatusUpdate
  <2> HIDE DEF index, stored
  <2>6. /\ node_status_records' \in Seq(NodeStatus)
        /\ Len(node_status_records') = Len(node_status_records)
    <3>1. node_status_records \in Seq(NodeStatus)
      OBVIOUS
    <3>2. index \in 1 .. Len(node_status_records) => stored \in NodeStatus
      BY <2>2
    <3>3. /\ [node_status_records EXCEPT ![index] = stored] \in Seq(NodeStatus)
          /\ Len([node_status_records EXCEPT ![index] = stored])
               = Len(node_status_records)
      BY <3>1, <3>2, SequenceUpdate
    <3>4. QED
      BY <3>3, <2>3
  <2>7. /\ node_statuses_list' \in Seq(NodeStatusShort)
        /\ Len(node_statuses_list') = Len(node_statuses_list)
    <3>1. node_statuses_list \in Seq(NodeStatusShort)
      OBVIOUS
    <3>2. \A i \in 1 .. Len(node_statuses_list) : node_statuses_list[i] \in NodeStatusShort
      BY <3>1
    <3> DEFINE new == [node_statuses_list[index] EXCEPT !.code = stored.code]
    <3>3. index \in 1 .. Len(node_statuses_list) => new \in NodeStatusShort
      BY <3>2, <2>2 DEF NodeStatusShort
    <3>4. node_statuses_list' = [node_statuses_list EXCEPT ![index] = new]
      BY <2>4
    <3> HIDE DEF new
    <3>5. QED
      BY <3>1, <3>3, <3>4, SequenceUpdate
  <2>8. QED
    BY <1>7, <2>5, <2>6, <2>7 DEF NodeStatusUpdate, nodeSide
<1>8. QED
  BY <1>1, <1>2, <1>3, <1>4, <1>5, <1>6, <1>7 DEF RegistryNext

\* The clock keeps it.
LEMMA RegistryTickType ==
  ASSUME RegistryTypeOK, RegistryTick
  PROVE  RegistryTypeOK'
<1> DEFINE older(i) == Older(node_status_records[i])
<1>1. \A i \in 1 .. Len(node_status_records) : older(i) \in NodeStatus
  <2> TAKE i \in 1 .. Len(node_status_records)
  <2>1. node_status_records[i] \in NodeStatus
    BY DEF RegistryTypeOK
  <2>2. QED
    BY <2>1, OlderType
<1>2. node_status_records' = [i \in 1 .. Len(node_status_records) |-> older(i)]
  BY DEF RegistryTick, RegistryTypeOK
<1>3. Len(node_status_records) \in Nat
  BY DEF RegistryTypeOK
<1> HIDE DEF older
<1>4. /\ node_status_records' \in Seq(NodeStatus)
      /\ Len(node_status_records') = Len(node_status_records)
  BY <1>1, <1>2, <1>3
<1>5. topic' \in [Nodes -> SUBSET NodeStatus]
  <2>1. \A n \in Nodes : {Older(m) : m \in topic[n]} \in SUBSET NodeStatus
    <3> TAKE n \in Nodes
    <3>1. \A m \in topic[n] : m \in NodeStatus
      BY DEF RegistryTypeOK
    <3>2. \A m \in topic[n] : Older(m) \in NodeStatus
      BY <3>1, OlderType
    <3>3. QED
      BY <3>2
  <2>2. topic' = [n \in Nodes |-> {Older(m) : m \in topic[n]}]
    BY DEF RegistryTick
  <2>3. QED
    BY <2>1, <2>2
<1>6. down_age' \in [FirstId .. MaxRecords -> Ages]
  <2> DEFINE held(id) == \E n \in Nodes : node_up[n] /\ node_status[n].node_id = id
             next(id) == IF held(id) THEN 0
                         ELSE IF down_age[id] < NodeDeadTimeout
                                THEN down_age[id] + 1 ELSE down_age[id]
  <2>1. down_age' = [id \in FirstId .. MaxRecords |-> next(id)]
    BY DEF RegistryTick
  <2> HIDE DEF held
  <2>2. \A id \in FirstId .. MaxRecords : down_age[id] \in 0 .. NodeDeadTimeout
    BY DEF RegistryTypeOK, Ages
  <2>3. \A id \in FirstId .. MaxRecords : next(id) \in Ages
    BY <2>2, RegistryAssumption DEF Ages
  <2> HIDE DEF next
  <2>4. QED
    BY <2>1, <2>3
<1>7. QED
  BY <1>4, <1>5, <1>6 DEF RegistryTick, RegistryTypeOK, nodeSide

-----------------------------------------------------------------------------
(* The callbacks of the SSM.                                               *)

\* The code of the status message is one of its codes: the worst of a
\* non-empty set of node codes exists.
LEMMA SystemStatusCodeType ==
  ASSUME RegistryTypeOK, NEW ll_healthy \in BOOLEAN
  PROVE  SystemStatusCode(AgeChecked, ll_healthy) \in SystemCodes
<1> DEFINE codes == {NODE_OK} \cup {AgeChecked[i].code : i \in DOMAIN AgeChecked}
           worst(w) == w \in codes /\ \A code \in codes : code <= w
<1>1. \A i \in DOMAIN AgeChecked : AgeChecked[i].code \in NodeCodes
  <2>1. AgeChecked \in Seq(NodeStatus)
    BY AgeCheckedType
  <2>2. \A i \in DOMAIN AgeChecked : AgeChecked[i] \in NodeStatus
    BY <2>1
  <2>3. QED
    BY <2>2 DEF NodeStatus
<1>2. codes \subseteq 0 .. 3 /\ 0 \in codes
  BY <1>1 DEF NodeCodes, NODE_OK, NODE_DEAD
<1> HIDE DEF codes
<1>3. \E w \in NodeCodes : worst(w)
  <2>1. CASE 3 \in codes
    BY <1>2, <2>1 DEF NodeCodes, NODE_OK, NODE_DEAD
  <2>2. CASE 3 \notin codes /\ 2 \in codes
    BY <1>2, <2>2 DEF NodeCodes, NODE_OK, NODE_DEAD
  <2>3. CASE 3 \notin codes /\ 2 \notin codes /\ 1 \in codes
    BY <1>2, <2>3 DEF NodeCodes, NODE_OK, NODE_DEAD
  <2>4. CASE 3 \notin codes /\ 2 \notin codes /\ 1 \notin codes
    BY <1>2, <2>4 DEF NodeCodes, NODE_OK, NODE_DEAD
  <2>5. QED
    BY <2>1, <2>2, <2>3, <2>4
<1> HIDE DEF worst
<1>4. (CHOOSE w \in NodeCodes : worst(w)) \in NodeCodes
  BY <1>3
<1>5. SystemStatusCode(AgeChecked, ll_healthy)
        = IF ~ll_healthy THEN SYSTEM_LOW_LEVEL_ERROR
                         ELSE CHOOSE w \in NodeCodes : worst(w)
  BY DEF SystemStatusCode, worst, codes
<1>6. QED
  BY <1>4, <1>5
  DEF SystemCodes, NodeCodes, SYSTEM_LOW_LEVEL_ERROR, NODE_OK, NODE_DEAD

\* An age moves between 0 and its timeout plus one.
LEMMA NextAgeType ==
  ASSUME NEW timeout \in Nat, NEW age \in 0 .. timeout + 1
  PROVE  NextAge(age, timeout) \in 0 .. timeout + 1
BY DEF NextAge

\* The mission override writes values the fields may have.
LEMMA OverriddenType ==
  ASSUME NEW msg \in SystemStatus
  PROVE  Overridden(msg) \in SystemStatus
<1>1. EMERGENCY_STOP \in MissionCodes /\ velocity_zero \in MaxVelocities
  BY DEF MissionCodes, MaxVelocities
<1>2. QED
  BY <1>1 DEF Overridden, SystemStatus

\* Each callback of the SSM keeps the type of its state.
LEMMA SSMStepType ==
  ASSUME SSMTypeOK, RegistryTypeOK, SSMNext
  PROVE  SSMTypeOK' /\ RegistryTypeOK'
<1> USE SSMAssumption DEF SSMTypeOK
<1>1. registryVars' = registryVars => RegistryTypeOK'
  BY DEF RegistryTypeOK, registryVars, ssmRegistry, nodeSide
<1>2. CASE CommsHeartbeatTimer
  <2>1. registryVars' = registryVars
    BY <1>2 DEF CommsHeartbeatTimer
  <2>2. CASE HeartbeatReceived
    BY <1>1, <1>2, <2>1, <2>2
    DEF CommsHeartbeatTimer, HeartbeatReceived, localizationVars, llVars
  <2>3. CASE HeartbeatMissed
    <3>1. t' \in Nat
      BY <2>3 DEF HeartbeatMissed, NextMiss
    <3>2. QED
      BY <1>1, <1>2, <2>1, <2>3, <3>1
      DEF CommsHeartbeatTimer, HeartbeatMissed, DropLink, localizationVars, llVars
  <2>4. QED
    BY <1>2, <2>2, <2>3 DEF CommsHeartbeatTimer
<1>3. CASE SystemStatusTimer
  <2> DEFINE checked ==
        [system_status_msg EXCEPT
           !.communication_failure = ~(comms_heartbeat_ok /\ recovery_enabled),
           !.localization_failure  = ~LocalizationOk,
           !.commanded_stop        = @ \/ joy_emergency_stop,
           !.system_failure        = ~SystemHealthy(AgeChecked),
           !.system_status_code    = SystemStatusCode(AgeChecked, LlHealthy)]
  <2>1. LlHealthy \in BOOLEAN /\ LocalizationOk \in BOOLEAN
    BY DEF LlHealthy, LocalizationOk, HasLocalizationStatus
  <2>2. SystemHealthy(AgeChecked) \in BOOLEAN
    BY DEF SystemHealthy
  <2>3. SystemStatusCode(AgeChecked, LlHealthy) \in SystemCodes
    BY <2>1, SystemStatusCodeType
  <2>4. checked \in SystemStatus
    BY <2>1, <2>2, <2>3 DEF SystemStatus
  <2>5. Overridden(checked) \in SystemStatus
    BY <2>4, OverriddenType
  <2>6. system_status_msg' \in {checked, Overridden(checked)}
    BY <1>3 DEF SystemStatusTimer
  <2> HIDE DEF checked
  <2>7. /\ system_status_msg' \in SystemStatus
        /\ published' \in SystemStatus
    BY <1>3, <2>4, <2>5, <2>6 DEF SystemStatusTimer
  <2>8. SSMTypeOK'
    BY <1>3, <2>1, <2>7
    DEF SystemStatusTimer, heartbeatVars, localizationVars
  <2>9. RegistryTypeOK'
    BY <1>3, AgeCheckedType, AgeCheckedListType
    DEF SystemStatusTimer, RegistryTypeOK, nodeSide
  <2>10. QED
    BY <2>8, <2>9
<1>4. CASE Recover
  BY <1>1, <1>4 DEF Recover, localizationVars, llVars
<1>5. ASSUME NEW counter \in Counters, NEW stop \in BOOLEAN,
             JoystickCallback(counter, stop)
      PROVE  SSMTypeOK' /\ RegistryTypeOK'
  BY <1>1, <1>5 DEF JoystickCallback, StopRequested, localizationVars, llVars
<1>6. ASSUME NEW code \in LocalizationCodes, LocalizationStatusCallback(code)
      PROVE  SSMTypeOK' /\ RegistryTypeOK'
  BY <1>1, <1>6 DEF LocalizationStatusCallback, heartbeatVars, llVars
<1>7. ASSUME NEW code \in Missions, NEW vel \in Velocities,
             MissionCallback(code, vel)
      PROVE  SSMTypeOK' /\ RegistryTypeOK'
  <2>1. /\ SafelocVelocity(vel) \in MaxVelocities
        /\ code \in MissionCodes
    BY DEF SafelocVelocity, MaxVelocities, MissionCodes
  <2>2. system_status_msg' \in SystemStatus
    BY <1>7, <2>1 DEF MissionCallback, SystemStatus
  <2>3. QED
    BY <1>1, <1>7, <2>2 DEF MissionCallback, heartbeatVars, localizationVars, llVars
<1>8. ASSUME NEW flags \in LowLevelReports, LlDiagnosticReportCallback(flags)
      PROVE  SSMTypeOK' /\ RegistryTypeOK'
  BY <1>1, <1>8 DEF LlDiagnosticReportCallback, heartbeatVars, localizationVars
<1>9. ASSUME NEW params \in ParameterVectors, ParametersCallback(params)
      PROVE  SSMTypeOK' /\ RegistryTypeOK'
  <2>1. Head(params).value \in BOOLEAN
    <3> DEFINE Parameter ==
          [name : {"lat_autonomy_enabled", "long_autonomy_enabled"}, value : BOOLEAN]
    <3>1. params \in Seq(Parameter) /\ params # <<>>
      BY <1>9 DEF ParametersCallback
    <3> HIDE DEF Parameter
    <3>2. Head(params) \in Parameter
      BY <3>1
    <3>3. QED
      BY <3>2 DEF Parameter
  <2>2. system_status_msg' \in SystemStatus
    BY <1>9, <2>1 DEF ParametersCallback, SystemStatus
  <2>3. QED
    BY <1>1, <1>9, <2>2 DEF ParametersCallback, heartbeatVars, localizationVars, llVars
<1>10. QED
  BY <1>2, <1>3, <1>4, <1>5, <1>6, <1>7, <1>8, <1>9 DEF SSMNext

\* Whatever happens, the state keeps its type: every record and list entry of
\* the registry, the ages, and the status message that is edited in place.
THEOREM TypeCorrect == Spec => []TypeOK
<1>1. TypeOK <=> RegistryTypeOK /\ SSMTypeOK
  BY DEF TypeOK, SSMTypeOK
<1>2. TypeOK' <=> RegistryTypeOK' /\ SSMTypeOK'
  BY DEF TypeOK, SSMTypeOK
<1>3. Init => TypeOK
  <2> SUFFICES ASSUME Init PROVE TypeOK
    OBVIOUS
  <2>1. RegistryTypeOK
    <3>1. NoId \in NodeIds /\ FreshStatus \in OwnStatus
      BY RegistryAssumption
      DEF NoId, NodeIds, FreshStatus, OwnStatus, NodeCodes, NODE_OK, NODE_DEAD
    <3>2. NodeDeadTimeout \in Ages
      BY RegistryAssumption DEF Ages
    <3>3. QED
      BY <3>1, <3>2, RegistryAssumption DEF Init, RegistryInit, RegistryTypeOK
  <2>2. InitialStatus \in SystemStatus
    BY DEF InitialStatus, SystemStatus, SystemCodes, SYSTEM_LOW_LEVEL_ERROR,
           NODE_OK, NODE_DEAD, MissionCodes, MaxVelocities
  <2>3. /\ localization_age \in 0 .. timeout_localization_status + 1
        /\ mission_age \in 0 .. timeout_mission + 1
        /\ ll_age \in 0 .. timeout_ll + 1
    BY SSMAssumption DEF Init
  <2>4. since_drop \in SUBSET {"beat", "recovery"}
    BY DEF Init
  <2>5. SSMTypeOK
    BY <2>2, <2>3, <2>4 DEF Init, SSMTypeOK
  <2>6. QED
    BY <1>1, <2>1, <2>5
<1>4. TypeOK /\ [Next]_vars => TypeOK'
  <2> SUFFICES ASSUME RegistryTypeOK, SSMTypeOK, [Next]_vars
               PROVE  RegistryTypeOK' /\ SSMTypeOK'
    BY <1>1, <1>2
  <2>1. CASE SSMNext
    BY <2>1, SSMStepType
  <2>2. CASE Tick
    <3>1. /\ localization_age' \in 0 .. timeout_localization_status + 1
          /\ mission_age' \in 0 .. timeout_mission + 1
          /\ ll_age' \in 0 .. timeout_ll + 1
      BY <2>2, NextAgeType, SSMAssumption DEF Tick, SSMTypeOK
    <3>2. RegistryTypeOK'
      BY <2>2, RegistryTickType DEF Tick
    <3>3. QED
      BY <2>2, <3>1, <3>2 DEF Tick, SSMTypeOK, heartbeatVars
  <2>3. CASE NodesNext
    <3>1. RegistryTypeOK'
      BY <2>3, RegistryStepType DEF NodesNext
    <3>2. QED
      BY <2>3, <3>1 DEF NodesNext, SSMTypeOK, ssmVars, heartbeatVars, localizationVars, llVars
  <2>4. CASE UNCHANGED vars
    BY <2>4 DEF vars, registryVars, ssmRegistry, nodeSide, RegistryTypeOK,
                SSMTypeOK, ssmVars, heartbeatVars, localizationVars, llVars
  <2>5. QED
    BY <2>1, <2>2, <2>3, <2>4 DEF Next
<1>5. QED
  BY <1>3, <1>4, PTL DEF Spec

-----------------------------------------------------------------------------
(* The communication failure.                                              *)

\* What the two flags say of the time since the link last dropped.  The last
\* conjunct makes it inductive: the flag may come up again on a missed beat,
\* but only while the count of missed beats is below its limit.
LinkInv ==
  /\ recovery_enabled => "recovery" \in since_drop
  /\ comms_heartbeat_ok => "beat" \in since_drop
  /\ t < max_counter_drop => "beat" \in since_drop

\* The heartbeat timer keeps it.
LEMMA HeartbeatKeepsLinkInv ==
  ASSUME SSMTypeOK, LinkInv, CommsHeartbeatTimer
  PROVE  LinkInv'
<1> USE SSMAssumption DEF SSMTypeOK, LinkInv
<1>1. CASE HeartbeatReceived
  BY <1>1 DEF HeartbeatReceived
<1>2. CASE HeartbeatMissed
  <2>1. CASE t' >= max_counter_drop /\ DropLink
    BY <1>2, <2>1 DEF HeartbeatMissed, NextMiss, DropLink
  <2>2. CASE t' < max_counter_drop /\ comms_heartbeat_ok'
             /\ UNCHANGED <<recovery_enabled, since_drop>>
    BY <1>2, <2>2 DEF HeartbeatMissed, NextMiss
  <2>3. QED
    BY <1>2, <2>1, <2>2 DEF HeartbeatMissed
<1>3. QED
  BY <1>1, <1>2 DEF CommsHeartbeatTimer

\* So does every other step.
LEMMA StepKeepsLinkInv ==
  ASSUME SSMTypeOK, LinkInv, [Next]_vars
  PROVE  LinkInv'
<1>1. UNCHANGED <<heartbeatVars, since_drop>> => LinkInv'
  BY DEF LinkInv, heartbeatVars
<1>2. CASE CommsHeartbeatTimer
  BY <1>2, HeartbeatKeepsLinkInv
<1>3. CASE Recover
  BY <1>3 DEF Recover, LinkInv
<1>4. ASSUME NEW counter \in Counters, NEW stop \in BOOLEAN,
             JoystickCallback(counter, stop)
      PROVE  LinkInv'
  BY <1>4 DEF JoystickCallback, LinkInv
<1>5. CASE SystemStatusTimer
  BY <1>1, <1>5 DEF SystemStatusTimer
<1>6. CASE \/ \E code \in LocalizationCodes : LocalizationStatusCallback(code)
           \/ \E code \in Missions, vel \in Velocities : MissionCallback(code, vel)
           \/ \E flags \in LowLevelReports : LlDiagnosticReportCallback(flags)
           \/ \E params \in ParameterVectors : ParametersCallback(params)
  BY <1>1, <1>6 DEF LocalizationStatusCallback, MissionCallback,
                    LlDiagnosticReportCallback, ParametersCallback
<1>7. CASE Tick
  BY <1>1, <1>7 DEF Tick
<1>8. CASE NodesNext
  BY <1>1, <1>8 DEF NodesNext, ssmVars
<1>9. CASE UNCHANGED vars
  BY <1>1, <1>9 DEF vars, ssmVars
<1>10. QED
  BY <1>2, <1>3, <1>4, <1>5, <1>6, <1>7, <1>8, <1>9 DEF Next, SSMNext

\* After the link has dropped, no status says that the communication is good
\* until a new counter was seen and the operator has called recovery.
THEOREM CommunicationReleased == Spec => NoSilentRecovery
<1>1. Init => LinkInv
  BY DEF Init, LinkInv
<1>2. TypeOK /\ LinkInv /\ [Next]_vars => LinkInv'
  BY StepKeepsLinkInv DEF TypeOK, SSMTypeOK
<1>3. TypeOK /\ LinkInv /\ [Next]_vars
      => [SystemStatusTimer /\ ~published'.communication_failure
            => since_drop = {"beat", "recovery"}]_vars
  <2> SUFFICES ASSUME TypeOK, LinkInv, SystemStatusTimer,
                      ~published'.communication_failure
               PROVE  since_drop = {"beat", "recovery"}
    OBVIOUS
  <2>1. system_status_msg \in SystemStatus
    BY DEF TypeOK
  <2>2. system_status_msg'.communication_failure
          = ~(comms_heartbeat_ok /\ recovery_enabled)
    BY <2>1 DEF SystemStatusTimer, Overridden, SystemStatus
  <2>3. comms_heartbeat_ok /\ recovery_enabled
    BY <2>2 DEF SystemStatusTimer, TypeOK
  <2>4. "beat" \in since_drop /\ "recovery" \in since_drop
    BY <2>3 DEF LinkInv
  <2>5. QED
    BY <2>4 DEF TypeOK
<1>4. QED
  BY <1>1, <1>2, <1>3, TypeCorrect, PTL DEF Spec, NoSilentRecovery

\* The count says that the link is alive wherever the flag does, which is the
\* stronger of the two: a recovery cannot bring up a link that is not counted as
\* alive.
AliveInv == comms_heartbeat_ok => t < max_counter_drop

LEMMA HeartbeatKeepsAliveInv ==
  ASSUME TypeOK, CommsHeartbeatTimer
  PROVE  AliveInv'
<1> USE SSMAssumption DEF TypeOK, AliveInv
<1>1. CASE HeartbeatReceived
  BY <1>1 DEF HeartbeatReceived
<1>2. CASE HeartbeatMissed
  <2>1. t' \in Nat
    BY <1>2 DEF HeartbeatMissed, NextMiss
  <2> QED
    BY <1>2, <2>1 DEF HeartbeatMissed, DropLink
<1> QED
  BY <1>1, <1>2 DEF CommsHeartbeatTimer

LEMMA OthersKeepAliveInv ==
  ASSUME AliveInv, [Next]_vars, ~CommsHeartbeatTimer
  PROVE  AliveInv'
<1>1. UNCHANGED <<t, comms_heartbeat_ok>>
  <2>1. UNCHANGED heartbeatVars => UNCHANGED <<t, comms_heartbeat_ok>>
    BY DEF heartbeatVars
  <2>2. CASE SystemStatusTimer \/ Tick
    BY <2>1, <2>2 DEF SystemStatusTimer, Tick
  <2>3. CASE \/ Recover
             \/ \E counter \in Counters, stop \in BOOLEAN : JoystickCallback(counter, stop)
    BY <2>3 DEF Recover, JoystickCallback
  <2>4. CASE \/ \E code \in LocalizationCodes : LocalizationStatusCallback(code)
             \/ \E code \in Missions, vel \in Velocities : MissionCallback(code, vel)
             \/ \E flags \in LowLevelReports : LlDiagnosticReportCallback(flags)
             \/ \E params \in ParameterVectors : ParametersCallback(params)
    BY <2>1, <2>4 DEF LocalizationStatusCallback, MissionCallback,
                      LlDiagnosticReportCallback, ParametersCallback
  <2>5. CASE NodesNext \/ UNCHANGED vars
    BY <2>1, <2>5 DEF NodesNext, vars, ssmVars
  <2> QED
    BY <2>2, <2>3, <2>4, <2>5 DEF Next, SSMNext
<1> QED
  BY <1>1 DEF AliveInv

\* However the beats, the drops and the calls of the recovery service mix: a
\* status that says the communication is good goes out only while fewer timers
\* than the limit have gone by since the counter last changed.
THEOREM LinkIsAliveWhenReported ==
  Spec => [][SystemStatusTimer /\ ~published'.communication_failure
               => t < max_counter_drop]_vars
<1>1. Init => AliveInv
  BY DEF Init, AliveInv
<1>2. TypeOK /\ AliveInv /\ [Next]_vars => AliveInv'
  BY HeartbeatKeepsAliveInv, OthersKeepAliveInv
<1>3. TypeOK /\ AliveInv /\ [Next]_vars
      => [SystemStatusTimer /\ ~published'.communication_failure
            => t < max_counter_drop]_vars
  <2> SUFFICES ASSUME TypeOK, AliveInv, SystemStatusTimer,
                      ~published'.communication_failure
               PROVE  t < max_counter_drop
    OBVIOUS
  <2>1. system_status_msg \in SystemStatus
    BY DEF TypeOK
  <2>2. system_status_msg'.communication_failure
          = ~(comms_heartbeat_ok /\ recovery_enabled)
    BY <2>1 DEF SystemStatusTimer, Overridden, SystemStatus
  <2>3. comms_heartbeat_ok
    BY <2>2 DEF SystemStatusTimer, TypeOK
  <2> QED
    BY <2>3 DEF AliveInv
<1> QED
  BY <1>1, <1>2, <1>3, TypeCorrect, PTL DEF Spec

-----------------------------------------------------------------------------
(* The commanded stop.                                                     *)

\* What was published of it is in the message that is kept.
StopInv == published.commanded_stop => system_status_msg.commanded_stop

LEMMA StopIsKept ==
  ASSUME TypeOK, [Next]_vars
  PROVE  /\ joy_emergency_stop => joy_emergency_stop'
         /\ system_status_msg.commanded_stop => system_status_msg'.commanded_stop
         /\ SystemStatusTimer =>
              /\ published' = system_status_msg'
              /\ joy_emergency_stop => system_status_msg'.commanded_stop
         /\ ~SystemStatusTimer => published' = published
<1>1. system_status_msg \in SystemStatus /\ joy_emergency_stop \in BOOLEAN
  BY DEF TypeOK
<1>2. CASE SystemStatusTimer
  <2>1. system_status_msg'.commanded_stop
          = (system_status_msg.commanded_stop \/ joy_emergency_stop)
    BY <1>1, <1>2 DEF SystemStatusTimer, Overridden, SystemStatus
  <2> QED
    BY <1>2, <2>1 DEF SystemStatusTimer
<1>3. CASE ~SystemStatusTimer
  <2>1. ASSUME NEW counter \in Counters, NEW stop \in BOOLEAN,
               JoystickCallback(counter, stop)
        PROVE  /\ joy_emergency_stop => joy_emergency_stop'
               /\ UNCHANGED <<system_status_msg, published>>
    BY <2>1 DEF JoystickCallback, StopRequested
  <2>2. ASSUME NEW code \in Missions, NEW vel \in Velocities,
               MissionCallback(code, vel)
        PROVE  /\ system_status_msg'.commanded_stop = system_status_msg.commanded_stop
               /\ UNCHANGED <<joy_emergency_stop, published>>
    BY <1>1, <2>2 DEF MissionCallback, SystemStatus
  <2>3. ASSUME NEW params \in ParameterVectors, ParametersCallback(params)
        PROVE  /\ system_status_msg'.commanded_stop = system_status_msg.commanded_stop
               /\ UNCHANGED <<joy_emergency_stop, published>>
    BY <1>1, <2>3 DEF ParametersCallback, SystemStatus
  <2>4. ASSUME \/ CommsHeartbeatTimer \/ Recover \/ Tick \/ NodesNext
               \/ \E code \in LocalizationCodes : LocalizationStatusCallback(code)
               \/ \E flags \in LowLevelReports : LlDiagnosticReportCallback(flags)
               \/ UNCHANGED vars
        PROVE  UNCHANGED <<joy_emergency_stop, system_status_msg, published>>
    BY <2>4 DEF CommsHeartbeatTimer, Recover, Tick, NodesNext, LocalizationStatusCallback,
                LlDiagnosticReportCallback, vars, ssmVars
  <2> QED
    BY <1>3, <2>1, <2>2, <2>3, <2>4 DEF Next, SSMNext
<1> QED
  BY <1>2, <1>3

\* An emergency stop of the joystick, be it in a single message, is in every
\* status from the next timer on: no mission, parameter, recovery or later
\* message of the joystick takes it back.  (That the timer comes is fairness.)
THEOREM CommandedStopIsForever ==
  Spec => /\ [](joy_emergency_stop => []joy_emergency_stop)
          /\ [][SystemStatusTimer /\ joy_emergency_stop => published'.commanded_stop]_vars
          /\ [](published.commanded_stop => []published.commanded_stop)
<1>1. Init => StopInv
  BY DEF Init, InitialStatus, StopInv
<1>2. TypeOK /\ StopInv /\ [Next]_vars => StopInv'
  BY StopIsKept DEF StopInv
<1>3. TypeOK /\ [Next]_vars /\ joy_emergency_stop => joy_emergency_stop'
  BY StopIsKept
<1>4. TypeOK /\ [Next]_vars
        => [SystemStatusTimer /\ joy_emergency_stop => published'.commanded_stop]_vars
  BY StopIsKept
<1>5. TypeOK /\ StopInv /\ [Next]_vars /\ published.commanded_stop
        => published'.commanded_stop
  BY StopIsKept DEF StopInv
<1> DEFINE stopped == published.commanded_stop
<1> HIDE DEF stopped
<1>6. TypeOK /\ StopInv /\ [Next]_vars /\ stopped => stopped'
  BY <1>5 DEF stopped
<1>7. Spec => [](stopped => []stopped)
  BY <1>1, <1>2, <1>6, TypeCorrect, PTL DEF Spec
<1> QED
  BY <1>3, <1>4, <1>7, TypeCorrect, PTL DEF Spec, stopped

-----------------------------------------------------------------------------
(* The mission override.                                                   *)

\* The message that is kept carries a mission only if one came after the last
\* override: the override is written into it, not into a copy.
MissionInv ==
  ~mission_since_override =>
    /\ system_status_msg.mission_status_code = EMERGENCY_STOP
    /\ system_status_msg.max_velocity_mps = velocity_zero

\* What the status timer does to the mission fields.
LEMMA TimerMission ==
  ASSUME system_status_msg \in SystemStatus, mission_since_override \in BOOLEAN,
         SystemStatusTimer
  PROVE  /\ published' = system_status_msg'
         /\ \/ /\ system_status_msg'.mission_status_code = EMERGENCY_STOP
               /\ system_status_msg'.max_velocity_mps = velocity_zero
            \/ /\ system_status_msg'.mission_status_code
                    = system_status_msg.mission_status_code
               /\ system_status_msg'.max_velocity_mps
                    = system_status_msg.max_velocity_mps
               /\ mission_since_override' = mission_since_override
<1>1. CASE MissionIsStale \/ ~LlHealthy
  BY <1>1 DEF SystemStatusTimer, Overridden, SystemStatus
<1>2. CASE ~(MissionIsStale \/ ~LlHealthy)
  BY <1>2 DEF SystemStatusTimer, SystemStatus
<1>3. QED
  BY <1>1, <1>2

\* A mission that was overridden is not published again by itself.
THEOREM MissionStaysOverridden == Spec => MissionNotRevived
<1>1. Init => MissionInv
  BY DEF Init, InitialStatus, MissionInv
<1>2. TypeOK /\ MissionInv /\ [Next]_vars => MissionInv'
  <2> SUFFICES ASSUME TypeOK, MissionInv, [Next]_vars
               PROVE  MissionInv'
    OBVIOUS
  <2>1. system_status_msg \in SystemStatus /\ mission_since_override \in BOOLEAN
    BY DEF TypeOK
  <2>2. UNCHANGED <<system_status_msg, mission_since_override>> => MissionInv'
    BY DEF MissionInv
  <2>3. CASE SystemStatusTimer
    BY <2>1, <2>3, TimerMission DEF MissionInv
  <2>4. ASSUME NEW params \in ParameterVectors, ParametersCallback(params)
        PROVE  MissionInv'
    BY <2>1, <2>4 DEF ParametersCallback, MissionInv, SystemStatus
  <2>5. ASSUME NEW code \in Missions, NEW vel \in Velocities,
               MissionCallback(code, vel)
        PROVE  MissionInv'
    BY <2>5 DEF MissionCallback, MissionInv
  <2>6. CASE \/ CommsHeartbeatTimer
             \/ Recover
             \/ \E counter \in Counters, stop \in BOOLEAN : JoystickCallback(counter, stop)
             \/ \E code \in LocalizationCodes : LocalizationStatusCallback(code)
             \/ \E flags \in LowLevelReports : LlDiagnosticReportCallback(flags)
    BY <2>2, <2>6 DEF CommsHeartbeatTimer, Recover, JoystickCallback,
                      LocalizationStatusCallback, LlDiagnosticReportCallback
  <2>7. CASE Tick \/ NodesNext \/ UNCHANGED vars
    BY <2>2, <2>7 DEF Tick, NodesNext, ssmVars, vars
  <2>8. QED
    BY <2>3, <2>4, <2>5, <2>6, <2>7 DEF Next, SSMNext
<1>3. TypeOK /\ MissionInv /\ [Next]_vars
      => [SystemStatusTimer /\ ~mission_since_override
            => /\ published'.mission_status_code = EMERGENCY_STOP
               /\ published'.max_velocity_mps = velocity_zero]_vars
  BY TimerMission DEF TypeOK, MissionInv
<1>4. QED
  BY <1>1, <1>2, <1>3, TypeCorrect, PTL DEF Spec, MissionNotRevived

-----------------------------------------------------------------------------
(* The System Status Manager implements MissionKeeper.                     *)

\* What the timer does to the mission: it keeps it, which it may only when it
\* is recent, or overrides it, and publishes the result.
LEMMA TimerPublishes ==
  ASSUME TypeOK, SystemStatusTimer
  PROVE  Keeper!Publish
<1> DEFINE override == MissionIsStale \/ ~LlHealthy
           checked  ==
             [system_status_msg EXCEPT
                !.communication_failure = ~(comms_heartbeat_ok /\ recovery_enabled),
                !.localization_failure  = ~LocalizationOk,
                !.commanded_stop        = @ \/ joy_emergency_stop,
                !.system_failure        = ~SystemHealthy(AgeChecked),
                !.system_status_code    = SystemStatusCode(AgeChecked, LlHealthy)]
<1>1. /\ system_status_msg' = IF override THEN Overridden(checked) ELSE checked
      /\ published' = system_status_msg'
      /\ UNCHANGED mission_age
  BY DEF SystemStatusTimer
<1>2. system_status_msg \in SystemStatus /\ mission_age \in 0 .. timeout_mission + 1
  BY DEF TypeOK
<1>3. MissionOf(checked) = MissionOf(system_status_msg)
  BY <1>2 DEF MissionOf, SystemStatus
<1>4. MissionOf(Overridden(checked)) = Keeper!EmergencyMission
  BY <1>2 DEF MissionOf, Overridden, SystemStatus, Keeper!EmergencyMission,
              Keeper!Mission
<1>5. MissionOf(published)' = MissionOf(system_status_msg)'
  BY <1>1 DEF MissionOf
<1> HIDE DEF checked
<1>6. CASE override
  <2>1. MissionOf(system_status_msg)' = Keeper!EmergencyMission
    BY <1>1, <1>4, <1>6 DEF MissionOf
  <2>2. QED
    BY <1>1, <1>5, <2>1 DEF Keeper!Publish, Keeper!Override
<1>7. CASE ~override
  <2>1. MissionOf(system_status_msg)' = MissionOf(system_status_msg)
    BY <1>1, <1>3, <1>7 DEF MissionOf
  <2>2. mission_age <= timeout_mission
    BY <1>2, <1>7, SSMAssumption DEF MissionIsStale
  <2>3. QED
    BY <1>1, <1>5, <2>1, <2>2 DEF Keeper!Publish, Keeper!KeepOn
<1>8. QED
  BY <1>6, <1>7

\* A mission that arrives is kept with its velocity or with none.
LEMMA CallbackReceives ==
  ASSUME TypeOK, NEW code \in Missions, NEW vel \in Velocities,
         MissionCallback(code, vel)
  PROVE  Keeper!Receive(code, vel)
<1>1. system_status_msg \in SystemStatus
  BY DEF TypeOK
<1>2. /\ system_status_msg' =
           [system_status_msg EXCEPT !.mission_status_code = code,
                                     !.max_velocity_mps = SafelocVelocity(vel)]
      /\ mission_age' = 0
      /\ UNCHANGED published
  BY DEF MissionCallback
<1>3. SafelocVelocity(vel) \in {vel, velocity_zero}
  BY DEF SafelocVelocity
<1>4. MissionOf(system_status_msg)' = Keeper!Mission(code, SafelocVelocity(vel))
  BY <1>1, <1>2 DEF MissionOf, Keeper!Mission, SystemStatus
<1>5. MissionOf(system_status_msg)' \in
        {Keeper!Mission(code, vel), Keeper!Mission(code, velocity_zero)}
  BY <1>3, <1>4
<1>6. UNCHANGED MissionOf(published)
  BY <1>2 DEF MissionOf
<1>7. QED
  BY <1>2, <1>5, <1>6 DEF Keeper!Receive

\* Whatever else the node is told and does, the mission it publishes is the last
\* one, not older than its timeout, or an emergency stop that a mission lifts.
THEOREM KeepsMissions == Spec => MissionKept
<1>1. Init => Keeper!KeeperInit
  BY DEF Init, InitialStatus, MissionOf, Keeper!KeeperInit, Keeper!EmergencyMission,
         Keeper!Mission
<1>2. TypeOK /\ [Next]_vars => [Keeper!KeeperNext]_(Keeper!keeperVars)
  <2> SUFFICES ASSUME TypeOK, [Next]_vars
               PROVE  [Keeper!KeeperNext]_(Keeper!keeperVars)
    OBVIOUS
  <2>1. UNCHANGED <<system_status_msg, mission_age, published>>
          => UNCHANGED Keeper!keeperVars
    BY DEF Keeper!keeperVars, MissionOf
  <2>2. CASE SystemStatusTimer
    BY <2>2, TimerPublishes DEF Keeper!KeeperNext
  <2>3. ASSUME NEW code \in Missions, NEW vel \in Velocities,
               MissionCallback(code, vel)
        PROVE  Keeper!KeeperNext
    BY <2>3, CallbackReceives DEF Keeper!KeeperNext
  <2>4. ASSUME NEW params \in ParameterVectors, ParametersCallback(params)
        PROVE  UNCHANGED Keeper!keeperVars
    <3>1. system_status_msg \in SystemStatus
      BY DEF TypeOK
    <3>2. MissionOf(system_status_msg)' = MissionOf(system_status_msg)
      BY <2>4, <3>1 DEF ParametersCallback, MissionOf, SystemStatus
    <3>3. UNCHANGED <<mission_age, published>>
      BY <2>4 DEF ParametersCallback
    <3>4. QED
      BY <3>2, <3>3 DEF Keeper!keeperVars, MissionOf
  <2>5. CASE Tick
    <3>1. mission_age' = NextAge(mission_age, timeout_mission)
      BY <2>5 DEF Tick
    <3>2. UNCHANGED <<system_status_msg, published>>
      BY <2>5 DEF Tick
    <3>3. Keeper!KeeperTick
      BY <3>1, <3>2 DEF Keeper!KeeperTick, NextAge, MissionOf
    <3>4. QED
      BY <3>3 DEF Keeper!KeeperNext
  <2>6. CASE \/ CommsHeartbeatTimer
             \/ Recover
             \/ \E counter \in Counters, stop \in BOOLEAN : JoystickCallback(counter, stop)
             \/ \E code \in LocalizationCodes : LocalizationStatusCallback(code)
             \/ \E flags \in LowLevelReports : LlDiagnosticReportCallback(flags)
    BY <2>1, <2>6 DEF CommsHeartbeatTimer, Recover, JoystickCallback,
                      LocalizationStatusCallback, LlDiagnosticReportCallback
  <2>7. CASE NodesNext \/ UNCHANGED vars
    BY <2>1, <2>7 DEF NodesNext, ssmVars, vars
  <2>8. QED
    BY <2>2, <2>3, <2>4, <2>5, <2>6, <2>7 DEF Next, SSMNext
<1>3. QED
  BY <1>1, <1>2, TypeCorrect, PTL DEF Spec, MissionKept, Keeper!KeeperSpec
=============================================================================
