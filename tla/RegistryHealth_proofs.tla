------------------------ MODULE RegistryHealth_proofs ------------------------
(***************************************************************************)
(* Proofs about the health the SSM reports: every record but the first is  *)
(* written by the node that was given its id only, and is as old as the    *)
(* last sign of life of that node, whatever is still on its way.           *)
(*                                                                         *)
(* The first record is left out everywhere: a status with an id nobody was *)
(* given is written there.                                                 *)
(***************************************************************************)
EXTENDS SystemStatusManager_proofs

\* A process that is down has forgotten its id.
DownIsFresh ==
  \A n \in Nodes : ~node_up[n] => node_status[n].node_id = NoId

\* While a process holds an id, that id has not been down.
HolderIsAlive ==
  \A n \in Nodes :
    node_status[n].node_id # NoId => down_age[node_status[n].node_id] = 0

\* A message on its way is at least as old as the death of its sender.
TopicIsStamped ==
  \A n \in Nodes : \A m \in topic[n] :
    m.node_id # NoId => m.age >= down_age[m.node_id]

\* And so is a record.
RecordIsStamped ==
  \A i \in 1 .. Len(node_status_records) :
    i # 1 => /\ node_status_records[i].node_id = i
             /\ node_status_records[i].age >= down_age[i]

HealthInv == DownIsFresh /\ HolderIsAlive /\ TopicIsStamped /\ RecordIsStamped

-----------------------------------------------------------------------------
\* The steps of the nodes keep it.
LEMMA NodeKeepsHealthInv ==
  ASSUME RegistryTypeOK, HealthInv, NEW n \in Nodes,
         \/ NodeStart(n)
         \/ ReceiveResponse(n)
         \/ \E code \in OwnCodes : SetNodeStatus(n, code)
         \/ NodeStatusTimer(n)
         \/ NodeCrash(n)
  PROVE  HealthInv'
<1> USE DEF HealthInv
<1>1. CASE NodeStart(n)
  BY <1>1 DEF NodeStart, ssmRegistry, DownIsFresh, HolderIsAlive,
              TopicIsStamped, RecordIsStamped
<1>2. CASE ReceiveResponse(n)
  <2>1. /\ node_status \in [Nodes -> OwnStatus]
        /\ down_age \in [FirstId .. MaxRecords -> Ages]
        /\ response[n] \in FirstId .. MaxRecords
    BY <1>2, RegistryAssumption
    DEF ReceiveResponse, RegistryTypeOK, NodeIds, NoId, FirstId
  <2>2. \A id \in FirstId .. MaxRecords :
          down_age'[id] = IF id = response[n] THEN 0 ELSE down_age[id]
    BY <1>2, <2>1 DEF ReceiveResponse
  <2>3. \A m \in Nodes : node_status'[m].node_id
                           = IF m = n THEN response[n] ELSE node_status[m].node_id
    BY <1>2, <2>1 DEF ReceiveResponse, OwnStatus
  <2>4. DownIsFresh'
    BY <1>2, <2>3 DEF ReceiveResponse, DownIsFresh
  <2>5. HolderIsAlive'
    <3>1. \A m \in Nodes : node_status[m].node_id \in NodeIds
      BY <2>1 DEF OwnStatus
    <3>2. QED
      BY <2>1, <2>2, <2>3, <3>1, RegistryAssumption
      DEF HolderIsAlive, NodeIds, FirstId, NoId
  <2>6. \A id \in FirstId .. MaxRecords :
          down_age[id] \in Nat /\ (down_age'[id] = 0 \/ down_age'[id] = down_age[id])
    BY <2>1, <2>2, RegistryAssumption DEF Ages
  <2>7. TopicIsStamped'
    <3> SUFFICES ASSUME NEW k \in Nodes, NEW m \in topic[k], m.node_id # NoId
                 PROVE  m.age >= down_age'[m.node_id]
      BY <1>2 DEF ReceiveResponse, TopicIsStamped
    <3>1. m \in NodeStatus
      BY DEF RegistryTypeOK
    <3>2. m.node_id \in FirstId .. MaxRecords /\ m.age \in Nat
      BY <3>1, RegistryAssumption DEF NodeStatus, NodeIds, NoId, FirstId, Ages
    <3>3. m.age >= down_age[m.node_id]
      BY DEF TopicIsStamped
    <3>4. QED
      BY <2>6, <3>2, <3>3
  <2>8. RecordIsStamped'
    <3> SUFFICES ASSUME NEW i \in 1 .. Len(node_status_records), i # 1
                 PROVE  /\ node_status_records[i].node_id = i
                        /\ node_status_records[i].age >= down_age'[i]
      BY <1>2 DEF ReceiveResponse, ssmRegistry, RecordIsStamped
    <3>1. node_status_records[i] \in NodeStatus
      BY DEF RegistryTypeOK
    <3>2. i \in FirstId .. MaxRecords /\ node_status_records[i].age \in Nat
      BY <3>1, RegistryAssumption DEF NodeStatus, FirstId, Ages, RegistryTypeOK
    <3>3. QED
      BY <2>6, <3>2 DEF RecordIsStamped
  <2>9. QED
    BY <2>4, <2>5, <2>7, <2>8
<1>3. ASSUME NEW code \in OwnCodes, SetNodeStatus(n, code)
      PROVE  HealthInv'
  <2>1. \A m \in Nodes : node_status'[m].node_id = node_status[m].node_id
    BY <1>3 DEF SetNodeStatus, RegistryTypeOK, OwnStatus
  <2>2. QED
    BY <1>3, <2>1 DEF SetNodeStatus, ssmRegistry, DownIsFresh, HolderIsAlive,
                      TopicIsStamped, RecordIsStamped
<1>4. CASE NodeStatusTimer(n)
  <2>1. UNCHANGED <<node_up, node_status, down_age, node_status_records>>
    BY <1>4 DEF NodeStatusTimer, ssmRegistry, nodeSide
  <2>2. TopicIsStamped'
    <3> DEFINE sent == [node_id |-> node_status[n].node_id,
                        code |-> node_status[n].code, age |-> 0]
    <3>1. topic' = topic \/ topic' = [topic EXCEPT ![n] = {sent}]
      BY <1>4 DEF NodeStatusTimer
    <3>2. sent.node_id # NoId => sent.age >= down_age[sent.node_id]
      BY DEF HolderIsAlive
    <3> HIDE DEF sent
    <3>3. \A k \in Nodes : \A m \in topic'[k] : m \in topic[k] \/ m = sent
      BY <3>1 DEF RegistryTypeOK
    <3>4. QED
      BY <2>1, <3>2, <3>3 DEF TopicIsStamped
  <2>3. QED
    BY <2>1, <2>2 DEF DownIsFresh, HolderIsAlive, RecordIsStamped
<1>5. CASE NodeCrash(n)
  <2>1. \A m \in Nodes : node_status'[m].node_id
                           = IF m = n THEN NoId ELSE node_status[m].node_id
    BY <1>5 DEF NodeCrash, RegistryTypeOK, FreshStatus
  <2>2. \A m \in Nodes : m # n => node_up'[m] = node_up[m]
    BY <1>5 DEF NodeCrash, RegistryTypeOK
  <2>3. QED
    BY <1>5, <2>1, <2>2 DEF NodeCrash, ssmRegistry, DownIsFresh, HolderIsAlive,
                            TopicIsStamped, RecordIsStamped
<1>6. QED
  BY <1>1, <1>2, <1>3, <1>4, <1>5

\* A new record has no sign of life yet.
LEMMA RegisterKeepsHealthInv ==
  ASSUME RegistryTypeOK, HealthInv, NEW n \in Nodes, NEW sender, RegisterNode(n, sender)
  PROVE  HealthInv'
<1> USE DEF HealthInv
<1> DEFINE id  == FirstId + Len(node_status_records)
           new == [node_id |-> id, code |-> NODE_OK, age |-> NodeDeadTimeout]
<1>1. /\ node_status_records \in Seq(NodeStatus)
      /\ Len(node_status_records) \in Nat
      /\ node_status_records' = Append(node_status_records, new)
      /\ Len(node_status_records) < MaxRecords
  BY DEF RegisterNode, RegistryTypeOK
<1>2. id = Len(node_status_records) + 1 /\ id \in FirstId .. MaxRecords
  BY <1>1, RegistryAssumption DEF FirstId
<1>3. UNCHANGED <<node_up, node_status, topic, down_age>>
  BY DEF RegisterNode
<1>4. new.age >= down_age[id] /\ new.node_id = id
  BY <1>2, RegistryAssumption DEF RegistryTypeOK, Ages
<1> HIDE DEF new, id
<1>5. /\ Len(node_status_records') = Len(node_status_records) + 1
      /\ \A i \in 1 .. Len(node_status_records') :
           node_status_records'[i] = IF i = id THEN new ELSE node_status_records[i]
  BY <1>1, <1>2
<1>6. RecordIsStamped'
  BY <1>1, <1>2, <1>3, <1>4, <1>5 DEF RecordIsStamped
<1>7. QED
  BY <1>3, <1>6 DEF DownIsFresh, HolderIsAlive, TopicIsStamped

\* A message goes to the record of its id, or to the first.
LEMMA UpdateKeepsHealthInv ==
  ASSUME RegistryTypeOK, HealthInv, NEW n \in Nodes, NEW msg \in topic[n],
         NEW inactive \in BOOLEAN, NodeStatusUpdate(n, msg, inactive)
  PROVE  HealthInv'
<1> USE DEF HealthInv
<1> DEFINE index  == StatusIndexById(msg.node_id)
           stored == Stored(msg, inactive)
<1>1. msg \in NodeStatus
  BY DEF RegistryTypeOK
<1>2. stored.node_id = msg.node_id /\ stored.age = msg.age
  BY <1>1 DEF Stored, NodeStatus
<1>3. index # 1 => index = msg.node_id /\ msg.node_id # NoId
  BY DEF StatusIndexById, NoId, FirstId
<1>4. node_status_records' = [node_status_records EXCEPT ![index] = stored]
  BY DEF NodeStatusUpdate
<1>5. UNCHANGED <<node_up, node_status, down_age>>
  BY DEF NodeStatusUpdate, nodeSide
<1>6. \A k \in Nodes : topic'[k] \subseteq topic[k]
  BY DEF NodeStatusUpdate, RegistryTypeOK
<1>7. msg.node_id # NoId => msg.age >= down_age[msg.node_id]
  BY DEF TopicIsStamped
<1> HIDE DEF index, stored
<1>8. node_status_records \in Seq(NodeStatus)
  BY DEF RegistryTypeOK
<1>9. /\ Len(node_status_records') = Len(node_status_records)
      /\ \A i \in 1 .. Len(node_status_records) :
           node_status_records'[i] = IF i = index THEN stored ELSE node_status_records[i]
  BY <1>4, <1>8
<1>10. RecordIsStamped'
  BY <1>2, <1>3, <1>5, <1>7, <1>9 DEF RecordIsStamped
<1>11. TopicIsStamped'
  BY <1>5, <1>6 DEF TopicIsStamped
<1>12. QED
  BY <1>5, <1>10, <1>11 DEF DownIsFresh, HolderIsAlive

\* With time, stamps and deaths grow older together.
LEMMA TickKeepsHealthInv ==
  ASSUME RegistryTypeOK, HealthInv, RegistryTick
  PROVE  HealthInv'
<1> USE DEF HealthInv
<1> DEFINE held(id) == \E n \in Nodes : node_up[n] /\ node_status[n].node_id = id
           next(id) == IF held(id) THEN 0
                       ELSE IF down_age[id] < NodeDeadTimeout
                              THEN down_age[id] + 1 ELSE down_age[id]
<1>1. \A id \in FirstId .. MaxRecords : down_age[id] \in 0 .. NodeDeadTimeout
  BY DEF RegistryTypeOK, Ages
<1>2. \A id \in FirstId .. MaxRecords : down_age'[id] = next(id)
  BY DEF RegistryTick
<1>3. UNCHANGED <<node_up, node_status>>
  BY DEF RegistryTick, nodeSide
<1>4. ASSUME NEW n \in Nodes, node_status[n].node_id # NoId
      PROVE  down_age'[node_status[n].node_id] = 0
  <2>1. node_status[n].node_id \in FirstId .. MaxRecords
    <3>1. node_status[n] \in OwnStatus
      BY DEF RegistryTypeOK
    <3>2. QED
      BY <1>4, <3>1, RegistryAssumption DEF OwnStatus, NodeIds, NoId, FirstId
  <2>2. held(node_status[n].node_id)
    BY <1>4 DEF DownIsFresh
  <2>3. QED
    BY <1>2, <2>1, <2>2
<1> HIDE DEF held
<1>5. ASSUME NEW status \in NodeStatus, NEW id \in FirstId .. MaxRecords,
             status.age >= down_age[id]
      PROVE  Older(status).age >= down_age'[id]
  <2>1. Older(status).age = IF status.age < NodeDeadTimeout
                              THEN status.age + 1 ELSE status.age
    BY DEF Older, NodeStatus
  <2>2. status.age \in 0 .. NodeDeadTimeout
    BY DEF NodeStatus, Ages
  <2>3. QED
    BY <1>1, <1>2, <1>5, <2>1, <2>2, RegistryAssumption
<1>6. \A status \in NodeStatus : Older(status).node_id = status.node_id
  BY DEF Older, NodeStatus
<1>7. TopicIsStamped'
  <2> SUFFICES ASSUME NEW n \in Nodes, NEW m \in topic[n], Older(m).node_id # NoId
               PROVE  Older(m).age >= down_age'[Older(m).node_id]
    BY DEF RegistryTick, TopicIsStamped
  <2>1. m \in NodeStatus
    BY DEF RegistryTypeOK
  <2>2. m.node_id # NoId /\ m.node_id \in FirstId .. MaxRecords
    BY <1>6, <2>1, RegistryAssumption DEF NodeStatus, NodeIds, NoId, FirstId
  <2>3. m.age >= down_age[m.node_id]
    BY <2>2 DEF TopicIsStamped
  <2>4. QED
    BY <1>5, <1>6, <2>1, <2>2, <2>3
<1>8. RecordIsStamped'
  <2>1. Len(node_status_records') = Len(node_status_records)
    BY DEF RegistryTick, RegistryTypeOK
  <2> SUFFICES ASSUME NEW i \in 1 .. Len(node_status_records), i # 1
               PROVE  /\ node_status_records'[i].node_id = i
                      /\ node_status_records'[i].age >= down_age'[i]
    BY <2>1 DEF RecordIsStamped
  <2>2. node_status_records[i] \in NodeStatus
    BY DEF RegistryTypeOK
  <2>3. node_status_records'[i] = Older(node_status_records[i])
    BY DEF RegistryTick, RegistryTypeOK
  <2>4. i \in FirstId .. MaxRecords
    BY RegistryAssumption DEF FirstId, RegistryTypeOK
  <2>5. QED
    BY <1>5, <1>6, <2>2, <2>3, <2>4 DEF RecordIsStamped
<1>9. HolderIsAlive'
  BY <1>3, <1>4 DEF HolderIsAlive
<1>10. QED
  BY <1>3, <1>7, <1>8, <1>9 DEF DownIsFresh

\* The status timer writes the records back, with the codes of the dead.
LEMMA AgeCheckKeepsHealthInv ==
  ASSUME RegistryTypeOK, HealthInv, node_status_records' = AgeChecked,
         UNCHANGED <<node_up, node_status, topic, down_age>>
  PROVE  HealthInv'
<1>1. Len(node_status_records') = Len(node_status_records)
  BY AgeCheckedType
<1>2. \A i \in 1 .. Len(node_status_records) :
        /\ node_status_records'[i].node_id = node_status_records[i].node_id
        /\ node_status_records'[i].age = node_status_records[i].age
  <2> TAKE i \in 1 .. Len(node_status_records)
  <2>1. node_status_records[i] \in NodeStatus
    BY DEF RegistryTypeOK
  <2>2. node_status_records'[i] = IF IsDead(node_status_records[i])
          THEN [node_status_records[i] EXCEPT !.code = NODE_DEAD]
          ELSE node_status_records[i]
    <3>1. node_status_records \in Seq(NodeStatus)
      BY DEF RegistryTypeOK
    <3>2. i \in DOMAIN node_status_records
      BY <3>1
    <3> QED
      BY <3>2 DEF AgeChecked
  <2>3. QED
    BY <2>1, <2>2 DEF NodeStatus
<1>3. RecordIsStamped'
  BY <1>1, <1>2 DEF HealthInv, RecordIsStamped
<1>4. QED
  BY <1>3 DEF HealthInv, DownIsFresh, HolderIsAlive, TopicIsStamped

\* The invariant holds of every state.
LEMMA HealthInvariant == Spec => []HealthInv
<1>1. Init => HealthInv
  <2> SUFFICES ASSUME Init PROVE HealthInv
    OBVIOUS
  <2>1. DownIsFresh /\ HolderIsAlive
    BY DEF Init, RegistryInit, FreshStatus, DownIsFresh, HolderIsAlive
  <2>2. TopicIsStamped /\ RecordIsStamped
    BY DEF Init, RegistryInit, TopicIsStamped, RecordIsStamped
  <2>3. QED
    BY <2>1, <2>2 DEF HealthInv
<1>2. TypeOK /\ HealthInv /\ [Next]_vars => HealthInv'
  <2> SUFFICES ASSUME RegistryTypeOK, HealthInv, [Next]_vars
               PROVE  HealthInv'
    BY DEF TypeOK
  <2>1. UNCHANGED registryVars => HealthInv'
    BY DEF HealthInv, DownIsFresh, HolderIsAlive, TopicIsStamped, RecordIsStamped,
           registryVars, ssmRegistry, nodeSide
  <2>2. CASE SystemStatusTimer
    BY <2>2, AgeCheckKeepsHealthInv DEF SystemStatusTimer, nodeSide
  <2>3. CASE SSMNext /\ ~SystemStatusTimer
    <3>1. UNCHANGED registryVars
      BY <2>3 DEF SSMNext, CommsHeartbeatTimer, Recover, JoystickCallback,
                  LocalizationStatusCallback, MissionCallback,
                  LlDiagnosticReportCallback, ParametersCallback
    <3>2. QED
      BY <2>1, <3>1
  <2>4. CASE Tick
    BY <2>4, TickKeepsHealthInv DEF Tick
  <2>5. CASE NodesNext
    BY <2>5, NodeKeepsHealthInv, RegisterKeepsHealthInv, UpdateKeepsHealthInv
    DEF NodesNext, RegistryNext
  <2>6. CASE UNCHANGED vars
    BY <2>1, <2>6 DEF vars
  <2>7. QED
    BY <2>2, <2>3, <2>4, <2>5, <2>6 DEF Next
<1>3. QED
  BY <1>1, <1>2, TypeCorrect, PTL DEF Spec

\* Every record but the first belongs to the node that was given its id.
THEOREM RecordsKeepTheirNodes == Spec => []RecordKeepsItsNode
<1>1. TypeOK /\ HealthInv => RecordKeepsItsNode
  BY DEF TypeOK, RegistryTypeOK, HealthInv, RecordIsStamped, RecordKeepsItsNode
<1>2. QED
  BY <1>1, HealthInvariant, TypeCorrect, PTL

\* A status without a system failure means that the process behind every
\* record but the first was alive less than the timeout ago.
THEOREM HealthyNodesAreAlive == Spec => HealthyMeansAlive
<1>1. TypeOK /\ HealthInv /\ [Next]_vars =>
        [SystemStatusTimer /\ ~published'.system_failure =>
           \A i \in DOMAIN node_status_records :
             i # 1 => down_age[i] < NodeDeadTimeout]_vars
  <2> SUFFICES ASSUME TypeOK, HealthInv, SystemStatusTimer,
                      ~published'.system_failure,
                      NEW i \in DOMAIN node_status_records, i # 1
               PROVE  down_age[i] < NodeDeadTimeout
    OBVIOUS
  <2>1. system_status_msg \in SystemStatus
    BY DEF TypeOK
  <2>2. published'.system_failure = ~SystemHealthy(AgeChecked)
    BY <2>1 DEF SystemStatusTimer, Overridden, SystemStatus
  <2>3. SystemHealthy(AgeChecked)
    BY <2>2
  <2>4. i \in 1 .. Len(node_status_records) /\ node_status_records[i] \in NodeStatus
    BY DEF TypeOK, RegistryTypeOK
  <2>5. AgeChecked[i].code < NODE_ERROR
    BY <2>3 DEF SystemHealthy, AgeChecked
  <2>6. ~IsDead(node_status_records[i])
    <3> SUFFICES ASSUME IsDead(node_status_records[i]) PROVE FALSE
      OBVIOUS
    <3>1. AgeChecked[i] = [node_status_records[i] EXCEPT !.code = NODE_DEAD]
      BY DEF AgeChecked
    <3>2. AgeChecked[i].code = NODE_DEAD
      BY <2>4, <3>1 DEF NodeStatus
    <3>3. QED
      BY <2>5, <3>2 DEF NODE_DEAD, NODE_ERROR
  <2>7. node_status_records[i].age < NodeDeadTimeout
    BY <2>4, <2>6, RegistryAssumption DEF IsDead, NodeStatus, Ages
  <2>8. node_status_records[i].age >= down_age[i]
    BY <2>4 DEF HealthInv, RecordIsStamped
  <2>9. node_status_records[i].age \in Nat /\ down_age[i] \in Nat
    BY <2>4, RegistryAssumption
    DEF TypeOK, RegistryTypeOK, NodeStatus, Ages, FirstId
  <2>10. QED
    BY <2>7, <2>8, <2>9, RegistryAssumption
<1>2. QED
  BY <1>1, HealthInvariant, TypeCorrect, PTL DEF Spec, HealthyMeansAlive
-----------------------------------------------------------------------------
(* The list that is published with the status.                             *)

Registered == Len(node_status_records)

\* No process and no message carries an id that was not given out.
KnownIds ==
  \A n \in Nodes :
    /\ node_status[n].node_id <= Registered
    /\ response[n] <= Registered
    /\ \A m \in topic[n] : m.node_id <= Registered

\* The first record has its own id, or the one of a node that has none yet.
FirstIsIndexed ==
  Registered > 0 => node_status_records[1].node_id \in {NoId, FirstId}

\* Between two age checks the list says what the record says, or the record is
\* one that the next check declares dead in both.
ListFollows ==
  \A i \in 1 .. Registered :
    \/ IsDead(node_status_records[i])
    \/ node_statuses_list[i].code = node_status_records[i].code

ListInv == KnownIds /\ FirstIsIndexed /\ ListFollows

\* Ids are compared as numbers.
LEMMA IdsAreNumbers ==
  ASSUME RegistryTypeOK
  PROVE  /\ Registered \in Nat
         /\ \A n \in Nodes : /\ node_status[n].node_id \in Nat
                             /\ response[n] \in Nat
                             /\ \A m \in topic[n] : m \in NodeStatus /\ m.node_id \in Nat
<1>1. NodeIds \subseteq Nat
  BY RegistryAssumption DEF NodeIds, NoId
<1>2. Registered \in Nat
  BY DEF Registered, RegistryTypeOK
<1>3. ASSUME NEW n \in Nodes
      PROVE  /\ node_status[n].node_id \in NodeIds
             /\ response[n] \in NodeIds
             /\ \A m \in topic[n] : m \in NodeStatus /\ m.node_id \in NodeIds
  <2>1. node_status[n] \in OwnStatus /\ topic[n] \subseteq NodeStatus
    BY DEF RegistryTypeOK
  <2> QED
    BY <2>1 DEF RegistryTypeOK, OwnStatus, NodeStatus
<1> QED
  BY <1>1, <1>2, <1>3

\* The index of a record's id is the record's own.
LEMMA RecordsAreIndexed ==
  ASSUME RegistryTypeOK, HealthInv, ListInv, NEW i \in 1 .. Registered
  PROVE  StatusIndexById(node_status_records[i].node_id) = i
<1>1. CASE i = 1
  BY <1>1, IdsAreNumbers DEF ListInv, FirstIsIndexed, StatusIndexById, NoId, FirstId, Registered
<1>2. CASE i # 1
  <2>1. node_status_records[i].node_id = i
    BY <1>2 DEF HealthInv, RecordIsStamped, Registered
  <2> QED
    BY <2>1, IdsAreNumbers DEF StatusIndexById, FirstId, Registered
<1> QED
  BY <1>1, <1>2

\* A step that leaves the records alone, and invents no id.
LEMMA SameRecordsKeepListInv ==
  ASSUME ListInv, UNCHANGED <<node_status_records, node_statuses_list>>, KnownIds'
  PROVE  ListInv'
BY DEF ListInv, FirstIsIndexed, ListFollows, Registered, IsDead

\* The nodes carry the ids they are given.
LEMMA NodeKeepsListInv ==
  ASSUME RegistryTypeOK, ListInv, NEW n \in Nodes,
         \/ NodeStart(n)
         \/ ReceiveResponse(n)
         \/ \E code \in OwnCodes : SetNodeStatus(n, code)
         \/ NodeStatusTimer(n)
         \/ NodeCrash(n)
  PROVE  ListInv'
<1>1. UNCHANGED <<node_status_records, node_statuses_list>>
  BY DEF NodeStart, ReceiveResponse, SetNodeStatus, NodeStatusTimer, NodeCrash, ssmRegistry
<1>2. Registered' = Registered
  BY <1>1 DEF Registered
<1>3. NoId <= Registered
  BY IdsAreNumbers DEF NoId
<1>4. \A k \in Nodes : \/ node_status'[k].node_id = node_status[k].node_id
                       \/ node_status'[k].node_id = response[k]
                       \/ node_status'[k].node_id = NoId
  BY DEF NodeStart, ReceiveResponse, SetNodeStatus, NodeStatusTimer, NodeCrash, nodeSide,
         FreshStatus, RegistryTypeOK, OwnStatus
<1>5. \A k \in Nodes : response'[k] = response[k] \/ response'[k] = NoId
  BY DEF NodeStart, ReceiveResponse, SetNodeStatus, NodeStatusTimer, NodeCrash, nodeSide,
         RegistryTypeOK
<1>6. \A k \in Nodes : \A m \in topic'[k] :
        m \in topic[k] \/ m.node_id = node_status[k].node_id
  BY DEF NodeStart, ReceiveResponse, SetNodeStatus, NodeStatusTimer, NodeCrash,
         RegistryTypeOK
<1>7. KnownIds'
  BY <1>2, <1>3, <1>4, <1>5, <1>6 DEF ListInv, KnownIds
<1> QED
  BY <1>1, <1>7, SameRecordsKeepListInv

\* A new record is dead until it is heard of.
LEMMA RegisterKeepsListInv ==
  ASSUME RegistryTypeOK, ListInv, NEW n \in Nodes, NEW sender, RegisterNode(n, sender)
  PROVE  ListInv'
<1> DEFINE id  == FirstId + Len(node_status_records)
           new == [node_id |-> id, code |-> NODE_OK, age |-> NodeDeadTimeout]
<1>1. /\ node_status_records \in Seq(NodeStatus)
      /\ node_statuses_list \in Seq(NodeStatusShort)
      /\ Len(node_statuses_list) = Len(node_status_records)
      /\ node_status_records' = Append(node_status_records, new)
      /\ \E short : node_statuses_list' = Append(node_statuses_list, short)
  BY DEF RegisterNode, RegistryTypeOK
<1>2. id = Registered + 1 /\ Registered \in Nat
  BY IdsAreNumbers DEF FirstId, Registered
<1>3. new.node_id = id /\ IsDead(new)
  BY RegistryAssumption DEF IsDead
<1> HIDE DEF new, id
<1>4. /\ Registered' = Registered + 1
      /\ \A i \in 1 .. Registered :
           /\ node_status_records'[i] = node_status_records[i]
           /\ node_statuses_list'[i] = node_statuses_list[i]
      /\ node_status_records'[Registered + 1] = new
  BY <1>1, <1>2 DEF Registered
<1>5. KnownIds'
  <2>1. UNCHANGED <<node_status, topic>>
    BY DEF RegisterNode
  <2>2. \A k \in Nodes : response'[k] = response[k] \/ response'[k] = id
    BY DEF RegisterNode, RegistryTypeOK, id
  <2> QED
    BY <1>2, <1>4, <2>1, <2>2, IdsAreNumbers DEF ListInv, KnownIds
<1>6. FirstIsIndexed'
  <2>1. CASE Registered = 0
    BY <1>2, <1>3, <1>4, <2>1 DEF FirstIsIndexed, FirstId
  <2>2. CASE Registered > 0
    <3>1. node_status_records'[1] = node_status_records[1]
      BY <1>2, <1>4, <2>2
    <3> QED
      BY <2>2, <3>1 DEF ListInv, FirstIsIndexed
  <2> QED
    BY <1>2, <2>1, <2>2
<1>7. ListFollows'
  <2> SUFFICES ASSUME NEW i \in 1 .. Registered'
               PROVE  \/ IsDead(node_status_records'[i])
                      \/ node_statuses_list'[i].code = node_status_records'[i].code
    BY DEF ListFollows, IsDead
  <2>1. CASE i = Registered + 1
    BY <1>3, <1>4, <2>1
  <2>2. CASE i \in 1 .. Registered
    BY <1>4, <2>2 DEF ListInv, ListFollows
  <2> QED
    BY <1>2, <1>4, <2>1, <2>2
<1> QED
  BY <1>5, <1>6, <1>7 DEF ListInv

\* A message is written to the record and to the list at one index.
LEMMA UpdateKeepsListInv ==
  ASSUME RegistryTypeOK, ListInv, NEW n \in Nodes, NEW msg \in topic[n],
         NEW inactive \in BOOLEAN, NodeStatusUpdate(n, msg, inactive)
  PROVE  ListInv'
<1> DEFINE index  == StatusIndexById(msg.node_id)
           stored == Stored(msg, inactive)
<1>1. msg \in NodeStatus
  BY DEF RegistryTypeOK
<1>2. stored.node_id = msg.node_id
  BY <1>1 DEF Stored, NodeStatus
<1>3. index = 1 => msg.node_id \in {NoId, FirstId}
  BY IdsAreNumbers DEF ListInv, KnownIds, StatusIndexById, NoId, FirstId, Registered
<1>4. /\ node_status_records' = [node_status_records EXCEPT ![index] = stored]
      /\ node_statuses_list' = [node_statuses_list EXCEPT ![index].code = stored.code]
      /\ UNCHANGED <<node_status, response>>
  BY DEF NodeStatusUpdate, nodeSide
<1>5. \A k \in Nodes : topic'[k] \subseteq topic[k]
  BY DEF NodeStatusUpdate, RegistryTypeOK
<1> HIDE DEF index, stored
<1>6. /\ node_status_records \in Seq(NodeStatus)
      /\ node_statuses_list \in Seq(NodeStatusShort)
      /\ Len(node_statuses_list) = Registered
  BY DEF RegistryTypeOK, Registered
<1>7. /\ Registered' = Registered
      /\ \A i \in 1 .. Registered :
           node_status_records'[i] = IF i = index THEN stored ELSE node_status_records[i]
  BY <1>4, <1>6 DEF Registered
<1>8. \A i \in 1 .. Registered :
        node_statuses_list'[i].code = IF i = index THEN stored.code
                                      ELSE node_statuses_list[i].code
  BY <1>4, <1>6 DEF NodeStatusShort
<1>9. KnownIds'
  BY <1>4, <1>5, <1>7 DEF ListInv, KnownIds
<1>10. FirstIsIndexed'
  BY <1>2, <1>3, <1>7, IdsAreNumbers DEF ListInv, FirstIsIndexed
<1>11. ListFollows'
  BY <1>7, <1>8 DEF ListInv, ListFollows, IsDead
<1> QED
  BY <1>9, <1>10, <1>11 DEF ListInv

\* Time does not revive a record that is old enough to be dead.
LEMMA TickKeepsListInv ==
  ASSUME RegistryTypeOK, ListInv, RegistryTick
  PROVE  ListInv'
<1>1. \A status \in NodeStatus :
        /\ Older(status).node_id = status.node_id
        /\ Older(status).code = status.code
        /\ IsDead(status) => IsDead(Older(status))
  BY RegistryAssumption DEF Older, NodeStatus, IsDead, Ages
<1>2. /\ Registered' = Registered
      /\ \A i \in 1 .. Registered :
           /\ node_status_records[i] \in NodeStatus
           /\ node_status_records'[i] = Older(node_status_records[i])
  BY DEF RegistryTick, RegistryTypeOK, Registered
<1>3. UNCHANGED <<node_statuses_list, node_status, response>>
  BY DEF RegistryTick, nodeSide
<1>4. \A k \in Nodes : \A m \in topic'[k] :
        \E sent \in topic[k] : m.node_id = sent.node_id
  BY <1>1, IdsAreNumbers DEF RegistryTick
<1>5. KnownIds'
  BY <1>2, <1>3, <1>4 DEF ListInv, KnownIds
<1>6. FirstIsIndexed'
  BY <1>1, <1>2, IdsAreNumbers DEF ListInv, FirstIsIndexed
<1>7. ListFollows'
  <2> SUFFICES ASSUME NEW i \in 1 .. Registered
               PROVE  \/ IsDead(node_status_records'[i])
                      \/ node_statuses_list'[i].code = node_status_records'[i].code
    BY <1>2 DEF ListFollows, IsDead
  <2> QED
    BY <1>1, <1>2, <1>3 DEF ListInv, ListFollows
<1> QED
  BY <1>5, <1>6, <1>7 DEF ListInv

\* The age check writes the two alike.
LEMMA AgeCheckMatches ==
  ASSUME RegistryTypeOK, HealthInv, ListInv,
         node_status_records' = AgeChecked, node_statuses_list' = AgeCheckedList
  PROVE  /\ Registered' = Registered
         /\ \A i \in 1 .. Registered :
              /\ node_status_records'[i].node_id = node_status_records[i].node_id
              /\ node_statuses_list'[i].code = node_status_records'[i].code
<1>1. /\ DOMAIN node_status_records = 1 .. Registered
      /\ DOMAIN node_statuses_list = 1 .. Registered
      /\ \A i \in 1 .. Registered : /\ node_status_records[i] \in NodeStatus
                                    /\ node_statuses_list[i] \in NodeStatusShort
  BY DEF RegistryTypeOK, Registered
<1>2. Registered' = Registered
  BY AgeCheckedType DEF Registered
<1>3. ASSUME NEW i \in 1 .. Registered
      PROVE  /\ node_status_records'[i].node_id = node_status_records[i].node_id
             /\ node_statuses_list'[i].code = node_status_records'[i].code
  <2>1. CASE IsDead(node_status_records[i])
    <3>1. node_status_records'[i] = [node_status_records[i] EXCEPT !.code = NODE_DEAD]
      BY <1>1, <2>1 DEF AgeChecked
    <3>2. node_statuses_list'[i] = [node_statuses_list[i] EXCEPT !.code = NODE_DEAD]
      BY <1>1, <2>1, RecordsAreIndexed DEF AgeCheckedList
    <3> QED
      BY <1>1, <3>1, <3>2 DEF NodeStatus, NodeStatusShort
  <2>2. CASE ~IsDead(node_status_records[i])
    <3>1. node_status_records'[i] = node_status_records[i]
      BY <1>1, <2>2 DEF AgeChecked
    <3>2. node_statuses_list'[i] = node_statuses_list[i]
      <4>1. ~\E j \in 1 .. Registered :
               /\ IsDead(node_status_records[j])
               /\ StatusIndexById(node_status_records[j].node_id) = i
        BY <2>2, RecordsAreIndexed
      <4> QED
        BY <1>1, <4>1 DEF AgeCheckedList
    <3> QED
      BY <2>2, <3>1, <3>2 DEF ListInv, ListFollows
  <2> QED
    BY <2>1, <2>2
<1> QED
  BY <1>2, <1>3

LEMMA ListInvariant == Spec => []ListInv
<1>1. Init => ListInv
  <2> SUFFICES ASSUME Init PROVE ListInv
    OBVIOUS
  <2>1. Registered = 0
    BY DEF Init, RegistryInit, Registered
  <2>2. \A n \in Nodes : /\ node_status[n].node_id = 0
                          /\ response[n] = 0
                          /\ topic[n] = {}
    BY DEF Init, RegistryInit, FreshStatus, NoId
  <2>3. KnownIds
    <3>1. 0 <= Registered
      BY <2>1
    <3> QED
      BY <2>2, <3>1 DEF KnownIds
  <2> QED
    BY <2>1, <2>3 DEF ListInv, FirstIsIndexed, ListFollows
<1>2. TypeOK /\ HealthInv /\ ListInv /\ [Next]_vars => ListInv'
  <2> SUFFICES ASSUME RegistryTypeOK, HealthInv, ListInv, [Next]_vars
               PROVE  ListInv'
    BY DEF TypeOK
  <2>1. UNCHANGED registryVars => ListInv'
    BY SameRecordsKeepListInv
    DEF ListInv, KnownIds, Registered, registryVars, ssmRegistry, nodeSide
  <2>2. CASE SystemStatusTimer
    <3>1. /\ node_status_records' = AgeChecked
          /\ node_statuses_list' = AgeCheckedList
          /\ UNCHANGED <<node_status, response, topic>>
      BY <2>2 DEF SystemStatusTimer, nodeSide
    <3>2. KnownIds'
      BY <3>1, AgeCheckMatches DEF ListInv, KnownIds
    <3>3. FirstIsIndexed'
      BY <3>1, AgeCheckMatches, IdsAreNumbers DEF ListInv, FirstIsIndexed
    <3>4. ListFollows'
      BY <3>1, AgeCheckMatches DEF ListFollows
    <3> QED
      BY <3>2, <3>3, <3>4 DEF ListInv
  <2>3. CASE SSMNext /\ ~SystemStatusTimer
    BY <2>1, <2>3
    DEF SSMNext, CommsHeartbeatTimer, Recover, JoystickCallback,
        LocalizationStatusCallback, MissionCallback, LlDiagnosticReportCallback,
        ParametersCallback
  <2>4. CASE Tick
    BY <2>4, TickKeepsListInv DEF Tick
  <2>5. CASE NodesNext
    BY <2>5, NodeKeepsListInv, RegisterKeepsListInv, UpdateKeepsListInv
    DEF NodesNext, RegistryNext
  <2>6. CASE UNCHANGED vars
    BY <2>1, <2>6 DEF vars
  <2> QED
    BY <2>2, <2>3, <2>4, <2>5, <2>6 DEF Next
<1> QED
  BY <1>1, <1>2, TypeCorrect, HealthInvariant, PTL DEF Spec

\* Whatever was registered, lost or overwritten at the first record meanwhile: the
\* list that goes out with a SystemStatus says of every node what the registry says.
THEOREM ListIsPublishedAsKnown == Spec => PublishedListMatchesRecords
<1>1. TypeOK /\ HealthInv /\ ListInv /\ [Next]_vars =>
        [SystemStatusTimer =>
           \A i \in DOMAIN node_status_records' :
             node_statuses_list'[i].code = node_status_records'[i].code]_vars
  <2> SUFFICES ASSUME TypeOK, HealthInv, ListInv, SystemStatusTimer
               PROVE  \A i \in DOMAIN node_status_records' :
                        node_statuses_list'[i].code = node_status_records'[i].code
    OBVIOUS
  <2>1. /\ node_status_records' = AgeChecked
        /\ node_statuses_list' = AgeCheckedList
    BY DEF SystemStatusTimer
  <2>2. DOMAIN node_status_records' = 1 .. Registered
    BY <2>1 DEF AgeChecked, TypeOK, RegistryTypeOK, Registered
  <2> QED
    BY <2>1, <2>2, AgeCheckMatches DEF TypeOK
<1> QED
  BY <1>1, ListInvariant, HealthInvariant, TypeCorrect, PTL
  DEF Spec, PublishedListMatchesRecords
=============================================================================
