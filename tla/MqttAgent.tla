------------------------------ MODULE MqttAgent ------------------------------
(***************************************************************************)
(* The MQTT agent of the firmware: tasks hand commands to one agent task   *)
(* through a pool of command structures, a FIFO of pointers and one task   *)
(* notification; the agent sends them to the broker, files those that wait *)
(* for an acknowledgment under their packet id and concludes each command  *)
(* through its callback.  Around the command loop the agent reconnects     *)
(* for ever and cancels what is left of the previous connection.           *)
(*                                                                         *)
(* Sources: Appli/Common/app/mqtt/{mqtt_agent_task,freertos_command_pool}.c*)
(* and the coreMQTT-Agent / coreMQTT libraries vendored with the firmware. *)
(*                                                                         *)
(* Data left out: topics, payloads, return codes other than success or     *)
(* failure, timing of the back-off.  The subscription table and its mutex  *)
(* are the business of other modules; what the agent itself sends after a  *)
(* lost session (one SUBSCRIBE) is here, because it uses the same queue.   *)
(***************************************************************************)
EXTENDS Naturals, Sequences, FiniteSets

CONSTANTS
    Clients,      \* the tasks that publish and subscribe
    Commands,     \* commandStructurePool
    QueueLength,  \* MQTT_AGENT_COMMAND_QUEUE_LENGTH
    MaxAcks,      \* MQTT_AGENT_MAX_OUTSTANDING_ACKS
    MaxPacketId,  \* UINT16_MAX, the width of a packet id
    Agent,        \* the agent task as the owner of its own SUBSCRIBE
    NULL

ASSUME ConstantsAssumption ==
    /\ IsFiniteSet(Commands)
    /\ QueueLength \in Nat
    /\ Cardinality(Commands) <= QueueLength   \* 32 and 32 in core_mqtt_config.h
    /\ MaxAcks \in Nat \ {0}
    /\ MaxPacketId \in Nat \ {0}
    /\ Agent \notin Clients
    /\ NULL \notin Commands \cup Clients \cup {Agent}

VARIABLES
    pool,         \* xCommandPoolQueue: the free structures
    cmd,          \* contents of the structures
    queue,        \* xAgentMessageCtx.xQueue
    notified,     \* notification bits of the agent task (index 3)
    inHand,       \* the command processCommand is working on
    pending,      \* pPendingAcks, by packet id
    records,      \* outgoingPublishRecords of coreMQTT: unacknowledged QoS 1 ids
    nextId,       \* nextPacketId
    atBroker,     \* packet ids sent on this connection that the broker still has to answer
    agent,        \* where the agent task is
    connected,    \* EVT_MASK_MQTT_CONNECTED
    cleanSession, \* xConnectInfo.cleanSession
    pc,           \* where each client is
    held,         \* the structure a client took from the pool and has not sent yet
    reply         \* notification value pending for each client

agentVars  == <<agent, inHand, connected, cleanSession>>
wireVars   == <<pending, records, nextId, atBroker>>
clientVars == <<pc, held>>
vars == <<pool, cmd, queue, notified, inHand, pending, records, nextId,
          atBroker, agent, connected, cleanSession, pc, held, reply>>

-----------------------------------------------------------------------------
(* Vocabulary *)

PacketIds == 1..MaxPacketId

\* publish0 needs no acknowledgment, publish1 also keeps a record in coreMQTT
Kinds == {"publish0", "publish1", "subscribe"}

Flags == {"SOCKET_RECV", "M_QUEUE"}

Replies == {"none", "success", "failed"}

AgentStates == {"down", "cancelOpen", "connect", "loop", "execute", "process",
                "cancelClose"}

ClientStates == {"boot", "idle", "create", "send", "notify", "wait"}

\* A released structure's stale contents are never read (createCommand clears
\* them), so the model clears them at the release.
Unused == [owner |-> NULL, kind |-> "none"]

Structures == [owner : Clients \cup {Agent}, kind : Kinds]

Queued == {queue[i] : i \in 1..Len(queue)}

PendingIds == {id \in PacketIds : pending[id] # NULL}

AwaitingAck == {pending[id] : id \in PendingIds}

IsSpaceInPendingAckList == Cardinality(PendingIds) < MaxAcks

\* (mutant) the counter wraps to MQTT_PACKET_ID_INVALID
NextPacketIdWrapsToZero(id) == (id + 1) % (MaxPacketId + 1)

\* MQTT_GetPacketId: 0 is never used
NextPacketId(id) == IF id = MaxPacketId THEN 1 ELSE id + 1

\* concludeCommand for each of the structures in S: the completion callback
\* notifies the owning task, then the structure returns to the pool.
Conclude(S, status) ==
    /\ pool' = pool \cup S
    /\ cmd' = [m \in Commands |-> IF m \in S THEN Unused ELSE cmd[m]]
    /\ reply' = [c \in Clients |-> IF \E m \in S : cmd[m].owner = c
                                      THEN status ELSE reply[c]]

\* The agent's priority (17) is above that of every task that calls it (6 to 10)
\* and the core is single: those tasks, and the one of the transport at idle
\* priority, run only while the agent waits, for the network or for a
\* notification it does not have.  MQTTAgent_CancelAll never waits.
AgentBlocked ==
    \/ agent \in {"down", "connect", "execute", "process"}
    \/ agent = "loop" /\ notified = {}

-----------------------------------------------------------------------------
(* The tasks that use the agent *)

\* vSleepUntilMQTTAgentConnected: each task waits once, before its first command
Boot(c) ==
    /\ pc[c] = "boot"
    /\ connected
    /\ pc' = [pc EXCEPT ![c] = "idle"]
    /\ UNCHANGED <<pool, cmd, queue, notified, wireVars, agentVars, held, reply>>

\* xTaskNotifyStateClear, then Agent_GetCommand.  With an empty pool the call
\* times out and the task tries again: nothing changes.
GetCommand(c) ==
    /\ pc[c] = "idle"
    /\ \E m \in pool :
          /\ pool' = pool \ {m}
          /\ held' = [held EXCEPT ![c] = m]
    /\ pc' = [pc EXCEPT ![c] = "create"]
    /\ reply' = [reply EXCEPT ![c] = "none"]
    /\ UNCHANGED <<cmd, queue, notified, wireVars, agentVars>>

\* createCommand: a command that will wait for an acknowledgment is refused
\* (and its structure released) when pPendingAcks has no free entry now.
CreateCommand(c, kind) ==
    /\ pc[c] = "create"
    /\ kind = "publish0" \/ IsSpaceInPendingAckList
    /\ cmd' = [cmd EXCEPT ![held[c]] = [owner |-> c, kind |-> kind]]
    /\ pc' = [pc EXCEPT ![c] = "send"]
    /\ UNCHANGED <<pool, queue, notified, wireVars, agentVars, held, reply>>

\* (mutant) the refusal keeps the structure
RefuseCommandLeaks(c) ==
    /\ pc[c] = "create"
    /\ ~IsSpaceInPendingAckList
    /\ held' = [held EXCEPT ![c] = NULL]
    /\ pc' = [pc EXCEPT ![c] = "idle"]
    /\ UNCHANGED <<pool, cmd, queue, notified, wireVars, agentVars, reply>>

RefuseCommand(c) ==
    /\ pc[c] = "create"
    /\ ~IsSpaceInPendingAckList
    /\ pool' = pool \cup {held[c]}
    /\ held' = [held EXCEPT ![c] = NULL]
    /\ pc' = [pc EXCEPT ![c] = "idle"]
    /\ UNCHANGED <<cmd, queue, notified, wireVars, agentVars, reply>>

\* prvAgentMessageSend posts the pointer (into a queue as long as the pool, so
\* that the failure path of the post is never taken: QueueHasRoom) ...
SendCommand(c) ==
    /\ pc[c] = "send"
    /\ Len(queue) < QueueLength
    /\ queue' = Append(queue, held[c])
    /\ held' = [held EXCEPT ![c] = NULL]
    /\ pc' = [pc EXCEPT ![c] = "notify"]
    /\ UNCHANGED <<pool, cmd, notified, wireVars, agentVars, reply>>

\* ... and then sets a bit of the agent's notification value: two messages
\* posted before the agent looks leave one bit.
NotifyAgent(c) ==
    /\ pc[c] = "notify"
    /\ notified' = notified \cup {"M_QUEUE"}
    /\ pc' = [pc EXCEPT ![c] = "wait"]
    /\ UNCHANGED <<pool, cmd, queue, wireVars, agentVars, held, reply>>

\* xTaskNotifyWait( ..., portMAX_DELAY ) returns: the call is over, and on a
\* failure the callers in the firmware start it again.
CollectReply(c) ==
    /\ pc[c] = "wait"
    /\ reply[c] # "none"
    /\ reply' = [reply EXCEPT ![c] = "none"]
    /\ pc' = [pc EXCEPT ![c] = "idle"]
    /\ UNCHANGED <<pool, cmd, queue, notified, wireVars, agentVars, held>>

-----------------------------------------------------------------------------
(* The network side of the agent *)

\* prvSocketRecvReadyCallback, from the transport's task: the socket may become
\* readable whenever it is open.
SocketReadable ==
    /\ AgentBlocked
    /\ agent # "down"
    /\ notified' = notified \cup {"SOCKET_RECV"}
    /\ UNCHANGED <<pool, cmd, queue, wireVars, agentVars, clientVars, reply>>

\* TLS connection established (each failure before it is a back-off and a retry)
TransportConnect ==
    /\ agent = "down"
    /\ agent' = "cancelOpen"
    /\ UNCHANGED <<pool, cmd, queue, notified, inHand, wireVars, connected,
                   cleanSession, clientVars, reply>>

\* MQTT_Connect fails, or a step of the session set-up after it does (the pool
\* has no structure for the SUBSCRIBE of prvHandleResubscribe): no command loop.
ConnectFails ==
    /\ agent = "connect"
    /\ agent' = "cancelClose"
    /\ records' \in {records, {}}
    /\ UNCHANGED <<pool, cmd, queue, notified, inHand, pending, nextId, atBroker,
                   connected, cleanSession, clientVars, reply>>

\* clearPendingAcknowledgments: what the session cannot complete (only its
\* publishes survive in a session that is present)
Cleared(present) == {id \in PendingIds : present => cmd[pending[id]].kind = "subscribe"}

\* resendPublishes: the records of coreMQTT whose operation is still filed
Resent(present) == IF present THEN (PendingIds \ Cleared(TRUE)) \cap records ELSE {}

\* handleSessionResumption (in MQTT_Connect) forgets the QoS 1 records of a lost
\* session; then MQTTAgent_ResumeSession
ResumeSession(present) ==
    /\ records' = IF present THEN records ELSE {}
    /\ Conclude({pending[id] : id \in Cleared(present)}, "failed")
    /\ pending' = [id \in PacketIds |-> IF id \in Cleared(present) THEN NULL ELSE pending[id]]
    /\ atBroker' = Resent(present)
    /\ UNCHANGED nextId

\* First connection of the boot: prvSubscriptionManagerCtxReset, no resumption
ConnectClean ==
    /\ agent = "connect"
    /\ cleanSession
    /\ records' = {}
    /\ cleanSession' = FALSE
    /\ connected' = TRUE
    /\ agent' = "loop"
    /\ UNCHANGED <<pool, cmd, queue, notified, inHand, pending, nextId, atBroker,
                   clientVars, reply>>

\* The broker kept the session, or it did not and nothing was subscribed
ConnectResumed(present) ==
    /\ agent = "connect"
    /\ ~cleanSession
    /\ ResumeSession(present)
    /\ connected' = TRUE
    /\ agent' = "loop"
    /\ UNCHANGED <<queue, notified, inHand, cleanSession, clientVars>>

\* prvHandleResubscribe: the broker lost the session; the agent enqueues one
\* SUBSCRIBE for its whole table before it enters the command loop.  (What
\* ResumeSession would conclude here is empty: NothingPendingOffline.)
ConnectResubscribe ==
    /\ agent = "connect"
    /\ ~cleanSession
    /\ records' = {}
    /\ \E m \in pool :
          /\ pool' = pool \ {m}
          /\ cmd' = [cmd EXCEPT ![m] = [owner |-> Agent, kind |-> "subscribe"]]
          /\ Len(queue) < QueueLength
          /\ queue' = Append(queue, m)
    /\ notified' = notified \cup {"M_QUEUE"}
    /\ connected' = TRUE
    /\ agent' = "loop"
    /\ UNCHANGED <<inHand, pending, nextId, atBroker, cleanSession, clientVars, reply>>

-----------------------------------------------------------------------------
(* MQTTAgent_CommandLoop *)

\* prvAgentMessageReceive with a 1 ms wait.  The wait clears every bit; at most
\* one command is taken per wake-up, and none when the socket bit is set or
\* when the wait times out.
ReceiveCommand ==
    /\ agent = "loop"
    /\ notified = {"M_QUEUE"}
    /\ queue # <<>>
    /\ notified' = {}
    /\ inHand' = Head(queue)
    /\ queue' = Tail(queue)
    /\ agent' = "execute"
    /\ UNCHANGED <<pool, cmd, wireVars, connected, cleanSession, clientVars, reply>>

ReceiveNothing ==
    /\ agent = "loop"
    /\ notified = {"M_QUEUE"} => queue = <<>>
    /\ notified' = {}
    /\ agent' = "process"
    /\ UNCHANGED <<pool, cmd, queue, inHand, wireVars, connected, cleanSession,
                   clientVars, reply>>

\* processCommand concludes the command at once: on success the process loop
\* runs next, on an error the command loop ends.
Finish(status) ==
    /\ Conclude({inHand}, status)
    /\ inHand' = NULL
    /\ agent' = IF status = "success" THEN "process" ELSE "cancelClose"
    /\ UNCHANGED <<queue, notified, connected, cleanSession, clientVars>>

\* MQTTAgentCommand_Publish at QoS 0
ExecutePublish0(sent) ==
    /\ agent = "execute"
    /\ cmd[inHand].kind = "publish0"
    /\ Finish(IF sent THEN "success" ELSE "failed")
    /\ UNCHANGED wireVars

\* (mutant) no look for another operation under the same packet id
AddAwaitingOperationOverwrites(id) ==
    \/ /\ IsSpaceInPendingAckList
       /\ pending' = [pending EXCEPT ![id] = inHand]
       /\ inHand' = NULL
       /\ agent' = "process"
       /\ UNCHANGED <<pool, cmd, queue, notified, connected, cleanSession,
                      clientVars, reply>>
    \/ /\ ~IsSpaceInPendingAckList
       /\ Finish("failed")
       /\ UNCHANGED pending

\* (mutant) the command fails but the command loop goes on
AddAwaitingOperationGoesOn(id) ==
    \/ /\ IsSpaceInPendingAckList
       /\ pending[id] = NULL
       /\ pending' = [pending EXCEPT ![id] = inHand]
       /\ inHand' = NULL
       /\ agent' = "process"
       /\ UNCHANGED <<pool, cmd, queue, notified, connected, cleanSession,
                      clientVars, reply>>
    \/ /\ ~IsSpaceInPendingAckList \/ pending[id] # NULL
       /\ Conclude({inHand}, "failed")
       /\ inHand' = NULL
       /\ agent' = "process"
       /\ UNCHANGED <<queue, notified, connected, cleanSession, clientVars, pending>>

\* The packet left but addAwaitingOperation refuses the entry, for want of
\* space or because the 16-bit id came round to one still in use
AddAwaitingOperation(id) ==
    \/ /\ IsSpaceInPendingAckList
       /\ pending[id] = NULL
       /\ pending' = [pending EXCEPT ![id] = inHand]
       /\ inHand' = NULL
       /\ agent' = "process"
       /\ UNCHANGED <<pool, cmd, queue, notified, connected, cleanSession,
                      clientVars, reply>>
    \/ /\ ~IsSpaceInPendingAckList \/ pending[id] # NULL
       /\ Finish("failed")
       /\ UNCHANGED pending

\* MQTTAgentCommand_Publish at QoS 1: MQTT_ReserveState, send, file the operation
ExecutePublish1(sent) ==
    /\ agent = "execute"
    /\ cmd[inHand].kind = "publish1"
    /\ nextId' = NextPacketId(nextId)
    /\ IF nextId \in records \/ Cardinality(records) >= MaxAcks
          THEN /\ Finish("failed")
               /\ UNCHANGED <<pending, records, atBroker>>
          ELSE /\ records' = records \cup {nextId}
               /\ IF sent THEN /\ atBroker' = atBroker \cup {nextId}
                               /\ AddAwaitingOperation(nextId)
                          ELSE /\ Finish("failed")
                               /\ UNCHANGED <<pending, atBroker>>

\* MQTTAgentCommand_Subscribe (and _Unsubscribe, which differs in the packet only)
ExecuteSubscribe(sent) ==
    /\ agent = "execute"
    /\ cmd[inHand].kind = "subscribe"
    /\ nextId' = NextPacketId(nextId)
    /\ IF sent THEN /\ atBroker' = atBroker \cup {nextId}
                    /\ AddAwaitingOperation(nextId)
               ELSE /\ Finish("failed")
                    /\ UNCHANGED <<pending, atBroker>>
    /\ UNCHANGED records

\* MQTT_ProcessLoop delivers an acknowledgment: mqttEventCallback, handleAcks.
\* A SUBACK may carry a refusal.
HandleAck(id, status) ==
    /\ agent = "process"
    /\ id \in atBroker
    /\ status = "failed" => cmd[pending[id]].kind = "subscribe"
    /\ atBroker' = atBroker \ {id}
    /\ records' = IF cmd[pending[id]].kind = "publish1" THEN records \ {id} ELSE records
    /\ Conclude({pending[id]}, status)
    /\ pending' = [pending EXCEPT ![id] = NULL]
    /\ UNCHANGED <<queue, notified, nextId, agentVars, clientVars>>

\* Nothing (more) to read
ProcessLoopDone ==
    /\ agent = "process"
    /\ agent' = "loop"
    /\ UNCHANGED <<pool, cmd, queue, notified, inHand, wireVars, connected,
                   cleanSession, clientVars, reply>>

\* Receive error, keep-alive timeout or malformed packet: the loop ends
ProcessLoopFails ==
    /\ agent = "process"
    /\ agent' = "cancelClose"
    /\ UNCHANGED <<pool, cmd, queue, notified, inHand, wireVars, connected,
                   cleanSession, clientVars, reply>>

-----------------------------------------------------------------------------
(* MQTTAgent_CancelAll, before MQTT_Connect and after the command loop *)

\* (mutant) the command is concluded but stays in the queue
CancelQueuedPeeks ==
    /\ agent \in {"cancelOpen", "cancelClose"}
    /\ notified = {"M_QUEUE"}
    /\ queue # <<>>
    /\ notified' = {}
    /\ Conclude({Head(queue)}, "failed")
    /\ UNCHANGED <<queue, wireVars, agentVars, clientVars>>

\* The drain goes on while recv, here with no wait, returns a command
CancelQueued ==
    /\ agent \in {"cancelOpen", "cancelClose"}
    /\ notified = {"M_QUEUE"}
    /\ queue # <<>>
    /\ notified' = {}
    /\ queue' = Tail(queue)
    /\ Conclude({Head(queue)}, "failed")
    /\ UNCHANGED <<wireVars, agentVars, clientVars>>

\* (mutant) publishes are kept for the next session
CancelPendingKeepsPublishes ==
    /\ agent \in {"cancelOpen", "cancelClose"}
    /\ notified = {"M_QUEUE"} => queue = <<>>
    /\ notified' = {}
    /\ LET lost == {id \in PendingIds : cmd[pending[id]].kind = "subscribe"}
       IN  /\ Conclude({pending[id] : id \in lost}, "failed")
           /\ pending' = [id \in PacketIds |-> IF id \in lost THEN NULL ELSE pending[id]]
    /\ atBroker' = {}
    /\ agent' = IF agent = "cancelOpen" THEN "connect" ELSE "down"
    /\ connected' = FALSE
    /\ UNCHANGED <<queue, inHand, records, nextId, cleanSession, clientVars>>

\* (mutant) the entries are cleared but their commands never concluded
CancelPendingForgets ==
    /\ agent \in {"cancelOpen", "cancelClose"}
    /\ notified = {"M_QUEUE"} => queue = <<>>
    /\ notified' = {}
    /\ pending' = [id \in PacketIds |-> NULL]
    /\ atBroker' = {}
    /\ agent' = IF agent = "cancelOpen" THEN "connect" ELSE "down"
    /\ connected' = FALSE
    /\ UNCHANGED <<pool, cmd, reply, queue, inHand, records, nextId, cleanSession,
                   clientVars>>

\* (mutant) cancelled commands are reported as done
CancelPendingSucceeds ==
    /\ agent \in {"cancelOpen", "cancelClose"}
    /\ notified = {"M_QUEUE"} => queue = <<>>
    /\ notified' = {}
    /\ Conclude(AwaitingAck, "success")
    /\ pending' = [id \in PacketIds |-> NULL]
    /\ atBroker' = {}
    /\ agent' = IF agent = "cancelOpen" THEN "connect" ELSE "down"
    /\ connected' = FALSE
    /\ UNCHANGED <<queue, inHand, records, nextId, cleanSession, clientVars>>

\* recv returns none: every pending acknowledgment is cancelled.  The second
\* call is followed by mbedtls_transport_disconnect and the end of the
\* connected event.
CancelPending ==
    /\ agent \in {"cancelOpen", "cancelClose"}
    /\ notified = {"M_QUEUE"} => queue = <<>>
    /\ notified' = {}
    /\ Conclude(AwaitingAck, "failed")
    /\ pending' = [id \in PacketIds |-> NULL]
    /\ atBroker' = {}
    /\ agent' = IF agent = "cancelOpen" THEN "connect" ELSE "down"
    /\ connected' = FALSE
    /\ UNCHANGED <<queue, inHand, records, nextId, cleanSession, clientVars>>

-----------------------------------------------------------------------------
(* The specification *)

Init ==
    /\ pool = Commands
    /\ cmd = [m \in Commands |-> Unused]
    /\ queue = <<>>
    /\ notified = {}
    /\ inHand = NULL
    /\ pending = [id \in PacketIds |-> NULL]
    /\ records = {}
    /\ nextId = 1
    /\ atBroker = {}
    /\ agent = "down"
    /\ connected = FALSE
    /\ cleanSession = TRUE
    /\ pc = [c \in Clients |-> "boot"]
    /\ held = [c \in Clients |-> NULL]
    /\ reply = [c \in Clients |-> "none"]

ClientStep(c) ==
    /\ AgentBlocked
    /\ \/ Boot(c)
       \/ GetCommand(c)
       \/ \E kind \in Kinds : CreateCommand(c, kind)
       \/ RefuseCommand(c)
       \/ SendCommand(c)
       \/ NotifyAgent(c)
       \/ CollectReply(c)

Execute(sent) == ExecutePublish0(sent) \/ ExecutePublish1(sent) \/ ExecuteSubscribe(sent)

Acknowledge(id) == \E status \in {"success", "failed"} : HandleAck(id, status)

\* The agent task's own progress
AgentStep ==
    \/ TransportConnect
    \/ ConnectFails
    \/ ConnectClean
    \/ \E present \in BOOLEAN : ConnectResumed(present)
    \/ ConnectResubscribe
    \/ ReceiveCommand
    \/ ReceiveNothing
    \/ \E sent \in BOOLEAN : Execute(sent)
    \/ ProcessLoopDone
    \/ ProcessLoopFails
    \/ CancelQueued
    \/ CancelPending

Next ==
    \/ \E c \in Clients : ClientStep(c)
    \/ SocketReadable
    \/ \E id \in PacketIds : Acknowledge(id)
    \/ AgentStep

Spec == Init /\ [][Next]_vars

-----------------------------------------------------------------------------
(* Fairness and properties *)

\* The agent task never sleeps without a timeout; the other tasks get the core
\* while it sleeps, each time round its loop, so a call that has begun goes on;
\* the broker does not withhold for ever the acknowledgment of a packet it has
\* received while the agent keeps reading (a silent one fails the keep-alive).
Fairness ==
    /\ WF_vars(AgentStep)
    /\ \A c \in Clients : SF_vars(ClientStep(c) /\ pc[c] \in {"create", "send", "notify", "wait"})
    /\ \A id \in PacketIds : SF_vars(Acknowledge(id))

FairSpec == Spec /\ Fairness

TypeOK ==
    /\ pool \in SUBSET Commands
    /\ cmd \in [Commands -> Structures \cup {Unused}]
    /\ queue \in Seq(Commands)
    /\ notified \in SUBSET Flags
    /\ inHand \in Commands \cup {NULL}
    /\ pending \in [PacketIds -> Commands \cup {NULL}]
    /\ records \in SUBSET PacketIds
    /\ nextId \in PacketIds
    /\ atBroker \in SUBSET PacketIds
    /\ agent \in AgentStates
    /\ connected \in BOOLEAN
    /\ cleanSession \in BOOLEAN
    /\ pc \in [Clients -> ClientStates]
    /\ held \in [Clients -> Commands \cup {NULL}]
    /\ reply \in [Clients -> Replies]

Held == {held[c] : c \in Clients} \ {NULL}

InHand == {inHand} \ {NULL}

Live == Queued \cup InHand \cup AwaitingAck

\* Every command structure is in exactly one place, once: in the pool, with the
\* task that is filling it, in the queue, in the agent's hands, or under one
\* packet id.  None leaks, none is concluded (released) twice: the pool of 32
\* lasts for ever through refusals, errors, collisions and cancellations.
OnePlace ==
    /\ Commands = pool \cup Held \cup Live
    /\ pool \cap (Held \cup Live) = {}
    /\ Held \cap Live = {}
    /\ Queued \cap (InHand \cup AwaitingAck) = {}
    /\ InHand \cap AwaitingAck = {}
    /\ \A i, j \in 1..Len(queue) : queue[i] = queue[j] => i = j
    /\ \A i, j \in PendingIds : pending[i] = pending[j] => i = j
    /\ \A c, d \in Clients : held[c] = held[d] /\ held[c] # NULL => c = d

\* A task that waits for its answer (its context and arguments are on its stack)
\* is owed exactly one, by a command the agent still knows of; a task that has
\* its answer, or has not sent anything, is known to no command: no callback
\* ever runs for a caller that has returned, and no caller is forgotten.
OneAnswerPerRequest ==
    \A c \in Clients :
        LET owed == {m \in Live : cmd[m].owner = c}
        IN  IF pc[c] \in {"notify", "wait"} /\ reply[c] = "none"
               THEN \E m \in Live : owed = {m}
               ELSE owed = {}

\* xQueueSendToBack never meets a full queue: whoever is about to post finds room
\* (a post that failed would notify the agent of nothing and report an error).
QueueHasRoom ==
    /\ \A c \in Clients : pc[c] = "send" => Len(queue) < QueueLength
    /\ pool # {} => Len(queue) < QueueLength

\* Whatever the order of errors and reconnections, no operation of an earlier
\* connection is left in pPendingAcks when the next session is set up: its
\* acknowledgment could only be taken for another packet's.
NothingPendingOffline ==
    agent \in {"down", "cancelOpen", "connect"} => PendingIds = {} /\ atBroker = {}

\* While commands are processed, the operations filed under packet ids are those
\* the broker has still to answer: no acknowledgment arrives for an id whose
\* operation is gone, and none is awaited that was never asked for.
BrokerOwesPending ==
    agent \in {"loop", "execute", "process"} => atBroker = PendingIds

\* The detailed agent implements CommandService: the request of a task is
\* submitted once its pointer is in the queue and at the broker once it is filed
\* under a packet id of this connection.
StageOf(c) ==
    IF pc[c] \notin {"notify", "wait"} THEN "none"
    ELSE IF reply[c] # "none" THEN reply[c]
    ELSE IF \E m \in AwaitingAck : cmd[m].owner = c THEN "atBroker"
    ELSE "submitted"

Service == INSTANCE CommandService WITH
    stage   <- [c \in Clients |-> StageOf(c)],
    unacked <- {c \in Clients : \E m \in Live : cmd[m] = [owner |-> c, kind |-> "publish0"]},
    online  <- agent \in {"loop", "execute", "process", "cancelClose"}

ImplementsService == Service!Spec

\* What the agent has taken out of the queue is always answered in the end, and
\* its structure is free again: by the acknowledgment, by the error that ends
\* the command loop, or by the cancellation that follows.
TakenIsConcluded ==
    \A m \in Commands : (m \in InHand \cup AwaitingAck) ~> (m \in pool)

-----------------------------------------------------------------------------
(* What the documentation of coreMQTT-Agent says and this agent does not do *)

\* "Process commands from the command queue in a loop": a task that has posted
\* its command and notified the agent gets its answer.
WaiterIsAnswered == \A c \in Clients : pc[c] = "wait" ~> pc[c] # "wait"

=============================================================================
