---------------------------- MODULE NodeRegistry ----------------------------
(***************************************************************************)
(* The node registry of the System Status Manager (SSM) and the client     *)
(* side of it that every IBaseNode carries.                                *)
(*                                                                         *)
(* A node asks for registration from its constructor and gets its id back  *)
(* in an asynchronous response.  The SSM subscribes to the node's status   *)
(* topic while it handles the request, and the node's status timer starts  *)
(* with the node: a status published before the response is processed      *)
(* carries the default id 0, which the SSM looks up like any other.        *)
(*                                                                         *)
(* This module declares the state and the handlers; the timer that ages    *)
(* the records belongs to SystemStatusManager, which EXTENDS this module.  *)
(***************************************************************************)
EXTENDS Naturals, Sequences

CONSTANTS
  Nodes,            \* names of the nodes that may register
  MaxRecords,       \* bound on the registrations the SSM handles
  NodeDeadTimeout,  \* NODE_DEAD_TIMEOUT, in ticks
  OwnCodes          \* codes a node sets as its own status

ASSUME RegistryAssumption ==
  /\ MaxRecords \in Nat
  /\ NodeDeadTimeout \in Nat \ {0}

\* Status codes, in the order the SSM compares them.  NOT_INITIALIZED and
\* INITIALIZED are folded into OK, FATAL_ERROR into ERROR.
NODE_OK       == 0
NODE_INACTIVE == 1
NODE_ERROR    == 2
NODE_DEAD     == 3
NodeCodes     == NODE_OK .. NODE_DEAD

ASSUME OwnCodesAssumption == OwnCodes \subseteq {NODE_OK, NODE_ERROR}

NoId    == 0                              \* node_id of a default message
FirstId == 1                              \* next_node_id starts at 1000
NodeIds == NoId .. MaxRecords
Ages    == 0 .. NodeDeadTimeout           \* the last age is "that or more"

NodeStatus      == [node_id : NodeIds, code : NodeCodes, age : Ages]
NodeStatusShort == [node_name : Nodes, code : NodeCodes]
OwnStatus       == [node_id : NodeIds, code : NodeCodes]

\* Of a registration request: the process that runs, or one that is gone.
Senders == {"living", "dead"}

FreshStatus == [node_id |-> NoId, code |-> NODE_OK]   \* of a new process

VARIABLES
  node_status_records,  \* SSM: the last NodeStatus of each record
  node_statuses_list,   \* SSM: the [node_name, code] list it publishes
  subscribed,           \* SSM: the nodes whose status topic it listens to
  node_up,              \* node: the process runs
  node_status,          \* node: its own [node_id, code]
  request,              \* registration requests on their way to the SSM, by sender
  response,             \* id on its way to the node, NoId for none
  topic,                \* status message not yet taken by the SSM: a set of
                        \* at most one NodeStatus for each node
  down_age              \* history: for each id, the ticks since the process
                        \* that was given it went down

ssmRegistry  == <<node_status_records, node_statuses_list, subscribed>>
nodeSide     == <<node_up, node_status, request, response>>
registryVars == <<ssmRegistry, nodeSide, topic, down_age>>

RegistryTypeOK ==
  /\ node_status_records \in Seq(NodeStatus)
  /\ node_statuses_list \in Seq(NodeStatusShort)
  /\ Len(node_statuses_list) = Len(node_status_records)
  /\ Len(node_status_records) <= MaxRecords
  /\ subscribed \in SUBSET Nodes
  /\ node_up \in [Nodes -> BOOLEAN]
  /\ node_status \in [Nodes -> OwnStatus]
  /\ request \in [Nodes -> SUBSET Senders]
  /\ response \in [Nodes -> NodeIds]
  /\ topic \in [Nodes -> SUBSET NodeStatus]
  /\ down_age \in [FirstId .. MaxRecords -> Ages]

RegistryInit ==
  /\ node_status_records = <<>>
  /\ node_statuses_list = <<>>
  /\ subscribed = {}
  /\ node_up = [n \in Nodes |-> FALSE]
  /\ node_status = [n \in Nodes |-> FreshStatus]
  /\ request = [n \in Nodes |-> {}]
  /\ response = [n \in Nodes |-> NoId]
  /\ topic = [n \in Nodes |-> {}]
  /\ down_age = [id \in FirstId .. MaxRecords |-> NodeDeadTimeout]

-----------------------------------------------------------------------------
(* The node: constructor, response callback, status timer, crash.          *)

\* The constructor sends the request and leaves; the id is still 0.  The request
\* of the process before may not have been handled.
NodeStart(n) ==
  /\ ~node_up[n]
  /\ node_up' = [node_up EXCEPT ![n] = TRUE]
  /\ request' = [request EXCEPT ![n] = @ \cup {"living"}]
  /\ UNCHANGED <<ssmRegistry, node_status, response, topic, down_age>>

\* response_received_callback -> setNodeId.
ReceiveResponse(n) ==
  /\ node_up[n]
  /\ response[n] # NoId
  /\ node_status' = [node_status EXCEPT ![n].node_id = response[n]]
  /\ response' = [response EXCEPT ![n] = NoId]
  /\ down_age' = [down_age EXCEPT ![response[n]] = 0]
  /\ UNCHANGED <<ssmRegistry, node_up, request, topic>>

\* setNodeStatus, called by the node's own callbacks.
SetNodeStatus(n, code) ==
  /\ node_up[n]
  /\ node_status' = [node_status EXCEPT ![n].code = code]
  /\ UNCHANGED <<ssmRegistry, node_up, request, response, topic, down_age>>

\* nodeStatusTimerCallback.  Nobody keeps a message for a late subscriber;
\* of the messages the SSM has not taken the newest stays.
NodeStatusTimer(n) ==
  /\ node_up[n]
  /\ topic' = IF n \in subscribed
                THEN [topic EXCEPT ![n] =
                       {[node_id |-> node_status[n].node_id,
                         code    |-> node_status[n].code,
                         age     |-> 0]}]
                ELSE topic
  /\ UNCHANGED <<ssmRegistry, nodeSide, down_age>>

\* The process dies; what it already sent is still on its way.  Of the requests
\* of processes that are gone one is remembered: no more are handled.
NodeCrash(n) ==
  /\ node_up[n]
  /\ node_up' = [node_up EXCEPT ![n] = FALSE]
  /\ node_status' = [node_status EXCEPT ![n] = FreshStatus]
  /\ request' = [request EXCEPT ![n] = IF @ = {} THEN {} ELSE {"dead"}]
  /\ response' = [response EXCEPT ![n] = NoId]
  /\ UNCHANGED <<ssmRegistry, topic, down_age>>

-----------------------------------------------------------------------------
(* The SSM.                                                                *)

\* Mutant: an unknown id is taken for the newest record.
StatusIndexByIdNewest(id) ==
  IF id \in FirstId .. Len(node_status_records) THEN id ELSE Len(node_status_records)

\* status_index_by_id[id]: operator[] answers the first record to an id
\* nobody was given.
StatusIndexById(id) ==
  IF id \in FirstId .. Len(node_status_records) THEN id ELSE 1

\* registerNodeServiceHandler and newStatusRecord.  A name that is already
\* there is reported and registered again.  The answer to a process that died
\* meanwhile goes nowhere, also when the node runs again.
RegisterNode(n, sender) ==
  /\ sender \in request[n]
  /\ Len(node_status_records) < MaxRecords
  /\ LET id == FirstId + Len(node_status_records) IN
       /\ node_status_records' =
            Append(node_status_records,
                   [node_id |-> id, code |-> NODE_OK, age |-> NodeDeadTimeout])
       /\ node_statuses_list' =
            Append(node_statuses_list, [node_name |-> n, code |-> NODE_INACTIVE])
       /\ response' =
            IF sender = "living" THEN [response EXCEPT ![n] = id] ELSE response
  /\ subscribed' = subscribed \cup {n}
  /\ request' = [request EXCEPT ![n] = @ \ {sender}]
  /\ UNCHANGED <<node_up, node_status, topic, down_age>>

\* Mutant: the record is stamped when the message is read.
StoredRestamped(msg, inactive) ==
  [msg EXCEPT !.code = IF inactive THEN NODE_INACTIVE ELSE @, !.age = 0]

\* What is stored of a message: it keeps the sender's stamp, and is marked
\* inactive when the sender last set its status too long ago.
Stored(msg, inactive) ==
  [msg EXCEPT !.code = IF inactive THEN NODE_INACTIVE ELSE @]

\* nodeStatusUpdate: the message replaces the record its id points to.
NodeStatusUpdate(n, msg, inactive) ==
  LET index  == StatusIndexById(msg.node_id)
      stored == Stored(msg, inactive)
  IN  /\ msg \in topic[n]
      /\ node_status_records' = [node_status_records EXCEPT ![index] = stored]
      /\ node_statuses_list' = [node_statuses_list EXCEPT ![index].code = stored.code]
      /\ topic' = [topic EXCEPT ![n] = @ \ {msg}]
      /\ UNCHANGED <<subscribed, nodeSide, down_age>>

\* Mutant: the age has to exceed the timeout.
IsDeadStrict(status) == status.age > NodeDeadTimeout

IsDead(status) == status.age >= NodeDeadTimeout

\* The records after nodeStatusesAgeCheck.
AgeChecked ==
  [i \in DOMAIN node_status_records |->
     IF IsDead(node_status_records[i])
       THEN [node_status_records[i] EXCEPT !.code = NODE_DEAD]
       ELSE node_status_records[i]]

\* Mutant: only the records are aged.
AgeCheckedListSkipped == node_statuses_list

\* nodeStatusesAgeCheck also writes the list, at the index of the stored id.
AgeCheckedList ==
  [j \in DOMAIN node_statuses_list |->
     IF \E i \in DOMAIN node_status_records :
          /\ IsDead(node_status_records[i])
          /\ StatusIndexById(node_status_records[i].node_id) = j
       THEN [node_statuses_list[j] EXCEPT !.code = NODE_DEAD]
       ELSE node_statuses_list[j]]

\* isSystemHealthy on the given records.
SystemHealthy(records) ==
  \A i \in DOMAIN records : records[i].code < NODE_ERROR

Older(status) ==
  IF status.age < NodeDeadTimeout THEN [status EXCEPT !.age = @ + 1] ELSE status

\* What a tick of the clock does to the stamps kept here.
RegistryTick ==
  /\ node_status_records' =
       [i \in DOMAIN node_status_records |-> Older(node_status_records[i])]
  /\ topic' = [n \in Nodes |-> {Older(m) : m \in topic[n]}]
  /\ down_age' = [id \in FirstId .. MaxRecords |->
                    IF \E n \in Nodes : node_up[n] /\ node_status[n].node_id = id
                      THEN 0
                      ELSE IF down_age[id] < NodeDeadTimeout
                             THEN down_age[id] + 1 ELSE down_age[id]]
  /\ UNCHANGED <<node_statuses_list, subscribed, nodeSide>>

RegistryNext ==
  \E n \in Nodes :
    \/ NodeStart(n)
    \/ ReceiveResponse(n)
    \/ \E code \in OwnCodes : SetNodeStatus(n, code)
    \/ NodeStatusTimer(n)
    \/ NodeCrash(n)
    \/ \E sender \in request[n] : RegisterNode(n, sender)
    \/ \E msg \in topic[n], inactive \in BOOLEAN : NodeStatusUpdate(n, msg, inactive)
=============================================================================
