--------------------------- MODULE MqttAgentProofs ---------------------------
(***************************************************************************)
(* Safety of the MQTT agent for every number of tasks, structures, packet  *)
(* ids and outstanding acknowledgments, checked by TLAPS.                  *)
(***************************************************************************)
EXTENDS MqttAgent, FiniteSetTheorems, TLAPS

-----------------------------------------------------------------------------
(* The inductive invariant, first part: types and the local conditions they *)
(* depend on.  A task holds a structure exactly while it is filling or      *)
(* posting it, the agent exactly while it executes it, and the broker can   *)
(* only acknowledge what is filed.                                          *)

Holding ==
    /\ \A c \in Clients : held[c] # NULL <=> pc[c] \in {"create", "send"}
    /\ inHand # NULL <=> agent = "execute"

TypeInv == TypeOK /\ Holding /\ NothingPendingOffline /\ BrokerOwesPending

\* What Conclude does to the three variables it assigns, in terms of types
LEMMA ConcludeType ==
    ASSUME TypeOK, NEW S \in SUBSET Commands, NEW status \in Replies,
           Conclude(S, status)
    PROVE  /\ pool' \in SUBSET Commands
           /\ cmd' \in [Commands -> Structures \cup {Unused}]
           /\ reply' \in [Clients -> Replies]
  BY DEF TypeOK, Conclude

\* What Finish does, for a command the agent has in hand
LEMMA FinishType ==
    ASSUME TypeInv, agent = "execute", NEW status \in {"success", "failed"},
           Finish(status)
    PROVE  /\ pool' \in SUBSET Commands
           /\ cmd' \in [Commands -> Structures \cup {Unused}]
           /\ reply' \in [Clients -> Replies]
           /\ inHand' = NULL
           /\ agent' = IF status = "success" THEN "process" ELSE "cancelClose"
           /\ UNCHANGED <<queue, notified, connected, cleanSession, pc, held>>
<1>1. inHand \in Commands
  BY DEF TypeInv, TypeOK, Holding
<1>2. status \in Replies
  BY DEF Replies
<1>3. Conclude({inHand}, status)
  BY DEF Finish
<1>4. QED
  BY <1>1, <1>2, <1>3, ConcludeType DEF TypeInv, Finish, clientVars

\* A transmission that succeeds: either the operation is filed or the command fails
LEMMA AddAwaitingType ==
    ASSUME TypeInv, agent = "execute", NEW id \in PacketIds,
           AddAwaitingOperation(id), atBroker' = atBroker \cup {id}
    PROVE  /\ pool' \in SUBSET Commands
           /\ cmd' \in [Commands -> Structures \cup {Unused}]
           /\ reply' \in [Clients -> Replies]
           /\ pending' \in [PacketIds -> Commands \cup {NULL}]
           /\ inHand' = NULL
           /\ \/ agent' = "process" /\ atBroker' = PendingIds'
              \/ agent' = "cancelClose"
           /\ UNCHANGED <<queue, notified, connected, cleanSession, pc, held>>
<1>1. inHand \in Commands /\ inHand # NULL
  BY DEF TypeInv, TypeOK, Holding
<1>2. CASE Finish("failed") /\ UNCHANGED pending
  BY <1>2, FinishType DEF TypeInv, TypeOK
<1>3. CASE /\ pending[id] = NULL
           /\ pending' = [pending EXCEPT ![id] = inHand]
           /\ inHand' = NULL
           /\ agent' = "process"
           /\ UNCHANGED <<pool, cmd, queue, notified, connected, cleanSession,
                          clientVars, reply>>
  <2>1. PendingIds' = PendingIds \cup {id}
    BY <1>1, <1>3 DEF PendingIds, TypeInv, TypeOK
  <2>2. QED
    BY <1>1, <1>3, <2>1 DEF TypeInv, TypeOK, BrokerOwesPending, clientVars
<1>4. QED
  BY <1>2, <1>3 DEF AddAwaitingOperation

LEMMA NextPacketIdType ==
    ASSUME NEW id \in PacketIds
    PROVE  NextPacketId(id) \in PacketIds
  BY ConstantsAssumption DEF NextPacketId, PacketIds

LEMMA TypeInvInit == Init => TypeInv
<1> SUFFICES ASSUME Init PROVE TypeInv
  OBVIOUS
<1>1. TypeOK
  <2>1. 1 \in PacketIds
    BY ConstantsAssumption DEF PacketIds
  <2>2. queue \in Seq(Commands)
    BY DEF Init
  <2>3. cmd \in [Commands -> Structures \cup {Unused}]
    BY DEF Init
  <2>4. QED
    BY <2>1, <2>2, <2>3 DEF Init, TypeOK, AgentStates, ClientStates, Replies
<1>2. Holding
  BY DEF Init, Holding
<1>3. NothingPendingOffline /\ BrokerOwesPending
  BY DEF Init, NothingPendingOffline, BrokerOwesPending, PendingIds
<1>4. QED
  BY <1>1, <1>2, <1>3 DEF TypeInv

LEMMA ClientTypeInv ==
    ASSUME TypeInv, NEW c \in Clients, ClientStep(c)
    PROVE  TypeInv'
<1> USE DEF TypeInv, TypeOK, Holding, NothingPendingOffline, BrokerOwesPending,
            PendingIds, ClientStates, Replies, agentVars, wireVars, clientVars
<1>1. CASE Boot(c)
  BY <1>1 DEF Boot
<1>2. CASE GetCommand(c)
  BY <1>2, ConstantsAssumption DEF GetCommand
<1>3. ASSUME NEW kind \in Kinds, CreateCommand(c, kind) PROVE TypeInv'
  BY <1>3 DEF CreateCommand, Structures
<1>4. CASE RefuseCommand(c)
  BY <1>4 DEF RefuseCommand
<1>5. CASE SendCommand(c)
  BY <1>5 DEF SendCommand
<1>6. CASE NotifyAgent(c)
  BY <1>6 DEF NotifyAgent, Flags
<1>7. CASE CollectReply(c)
  BY <1>7 DEF CollectReply
<1>8. QED
  BY <1>1, <1>2, <1>3, <1>4, <1>5, <1>6, <1>7 DEF ClientStep

\* The session set-up: nothing is pending, so nothing is resumed
LEMMA ResumeSessionType ==
    ASSUME TypeInv, agent = "connect", NEW present \in BOOLEAN,
           ResumeSession(present)
    PROVE  /\ pool' = pool
           /\ cmd' = cmd
           /\ reply' = reply
           /\ pending' = pending
           /\ records' \in {records, {}}
           /\ atBroker' = {}
           /\ nextId' = nextId
<1> USE DEF TypeInv, TypeOK
<1>1. PendingIds = {}
  BY DEF NothingPendingOffline
<1>2. Cleared(present) = {} /\ Cleared(TRUE) = {} /\ Resent(present) = {}
  BY <1>1 DEF Cleared, Resent
<1>3. pool' = pool /\ cmd' = cmd /\ reply' = reply
  <2>1. Conclude({}, "failed")
    BY <1>2 DEF ResumeSession
  <2>2. QED
    BY <2>1 DEF Conclude
<1>4. pending' = pending
  BY <1>2 DEF ResumeSession
<1>5. QED
  BY <1>2, <1>3, <1>4 DEF ResumeSession

LEMMA ConnectTypeInv ==
    ASSUME TypeInv,
           \/ TransportConnect \/ ConnectFails \/ ConnectClean
           \/ \E present \in BOOLEAN : ConnectResumed(present)
           \/ ConnectResubscribe
    PROVE  TypeInv'
<1> USE DEF TypeInv, TypeOK, Holding, NothingPendingOffline, BrokerOwesPending,
            PendingIds, AgentStates, agentVars, wireVars, clientVars
<1>1. CASE TransportConnect
  BY <1>1 DEF TransportConnect
<1>2. CASE ConnectFails
  BY <1>2 DEF ConnectFails
<1>3. CASE ConnectClean
  BY <1>3 DEF ConnectClean
<1>4. ASSUME NEW present \in BOOLEAN, ConnectResumed(present) PROVE TypeInv'
  <2>1. agent = "connect" /\ ResumeSession(present)
    BY <1>4 DEF ConnectResumed
  <2>2. /\ pool' = pool /\ cmd' = cmd /\ reply' = reply /\ pending' = pending
        /\ records' \in {records, {}} /\ atBroker' = {} /\ nextId' = nextId
    BY <2>1, ResumeSessionType
  <2>3. QED
    BY <1>4, <2>1, <2>2 DEF ConnectResumed
<1>5. CASE ConnectResubscribe
  BY <1>5 DEF ConnectResubscribe, Structures, Kinds, Flags
<1>6. QED
  BY <1>1, <1>2, <1>3, <1>4, <1>5

LEMMA LoopTypeInv ==
    ASSUME TypeInv,
           ReceiveCommand \/ ReceiveNothing \/ ProcessLoopDone \/ ProcessLoopFails
    PROVE  TypeInv'
<1> USE DEF TypeInv, TypeOK, Holding, NothingPendingOffline, BrokerOwesPending,
            PendingIds, AgentStates, wireVars, clientVars
<1>1. CASE ReceiveCommand
  <2>1. Head(queue) \in Commands /\ Tail(queue) \in Seq(Commands)
    BY <1>1 DEF ReceiveCommand
  <2>2. QED
    BY <1>1, <2>1, ConstantsAssumption DEF ReceiveCommand
<1>2. CASE ReceiveNothing
  BY <1>2 DEF ReceiveNothing
<1>3. CASE ProcessLoopDone
  BY <1>3 DEF ProcessLoopDone
<1>4. CASE ProcessLoopFails
  BY <1>4 DEF ProcessLoopFails
<1>5. QED
  BY <1>1, <1>2, <1>3, <1>4

LEMMA ExecuteTypeInv ==
    ASSUME TypeInv, NEW sent \in BOOLEAN, Execute(sent)
    PROVE  TypeInv'
<1> DEFINE Typed ==
      /\ pool' \in SUBSET Commands
      /\ cmd' \in [Commands -> Structures \cup {Unused}]
      /\ reply' \in [Clients -> Replies]
      /\ pending' \in [PacketIds -> Commands \cup {NULL}]
      /\ records' \in SUBSET PacketIds
      /\ atBroker' \in SUBSET PacketIds
      /\ nextId' \in PacketIds
      /\ inHand' = NULL
      /\ \/ agent' = "process" /\ atBroker' = PendingIds'
         \/ agent' = "cancelClose"
      /\ UNCHANGED <<queue, notified, connected, cleanSession, pc, held>>
<1>1. agent = "execute" /\ nextId \in PacketIds /\ NextPacketId(nextId) \in PacketIds
  BY NextPacketIdType
  DEF Execute, ExecutePublish0, ExecutePublish1, ExecuteSubscribe, TypeInv, TypeOK
<1>2. ASSUME Finish("failed"), UNCHANGED <<pending, atBroker>>,
             nextId' \in PacketIds, records' \in SUBSET PacketIds
      PROVE  Typed
  BY <1>1, <1>2, FinishType DEF TypeInv, TypeOK
<1>3. ASSUME AddAwaitingOperation(nextId), atBroker' = atBroker \cup {nextId},
             nextId' \in PacketIds, records' \in SUBSET PacketIds
      PROVE  Typed
  BY <1>1, <1>3, AddAwaitingType DEF TypeInv, TypeOK
<1>4. ASSUME ExecutePublish0(sent) PROVE Typed
  <2>1. PICK status \in {"success", "failed"} : Finish(status)
    BY <1>4 DEF ExecutePublish0
  <2>2. UNCHANGED <<pending, records, nextId, atBroker>>
    BY <1>4 DEF ExecutePublish0, wireVars
  <2>3. atBroker' = PendingIds'
    BY <1>1, <2>2 DEF TypeInv, BrokerOwesPending, PendingIds
  <2>4. QED
    BY <1>1, <2>1, <2>2, <2>3, FinishType DEF TypeInv, TypeOK
<1>5. ASSUME ExecutePublish1(sent) PROVE Typed
  <2>1. nextId' \in PacketIds /\ records' \in SUBSET PacketIds
    BY <1>1, <1>5 DEF ExecutePublish1, TypeInv, TypeOK
  <2>2. \/ Finish("failed") /\ UNCHANGED <<pending, atBroker>>
        \/ AddAwaitingOperation(nextId) /\ atBroker' = atBroker \cup {nextId}
    BY <1>5 DEF ExecutePublish1
  <2>3. QED
    BY <1>2, <1>3, <2>1, <2>2
<1>6. ASSUME ExecuteSubscribe(sent) PROVE Typed
  <2>1. nextId' \in PacketIds /\ records' \in SUBSET PacketIds
    BY <1>1, <1>6 DEF ExecuteSubscribe, TypeInv, TypeOK
  <2>2. \/ Finish("failed") /\ UNCHANGED <<pending, atBroker>>
        \/ AddAwaitingOperation(nextId) /\ atBroker' = atBroker \cup {nextId}
    BY <1>6 DEF ExecuteSubscribe
  <2>3. QED
    BY <1>2, <1>3, <2>1, <2>2
<1>7. Typed
  BY <1>4, <1>5, <1>6 DEF Execute
<1>8. TypeOK'
  BY <1>7 DEF TypeInv, TypeOK, AgentStates
<1>9. Holding' /\ NothingPendingOffline' /\ BrokerOwesPending'
  BY <1>7 DEF TypeInv, Holding, NothingPendingOffline, BrokerOwesPending
<1>10. QED
  BY <1>8, <1>9 DEF TypeInv

LEMMA AckTypeInv ==
    ASSUME TypeInv, NEW id \in PacketIds, Acknowledge(id)
    PROVE  TypeInv'
<1>1. PICK status \in {"success", "failed"} : HandleAck(id, status)
  BY DEF Acknowledge
<1>2. pending[id] \in Commands
  BY <1>1 DEF HandleAck, TypeInv, TypeOK, BrokerOwesPending, PendingIds
<1>3. /\ pool' \in SUBSET Commands
      /\ cmd' \in [Commands -> Structures \cup {Unused}]
      /\ reply' \in [Clients -> Replies]
  <2>1. Conclude({pending[id]}, status) /\ status \in Replies
    BY <1>1 DEF HandleAck, Replies
  <2>2. QED
    BY <1>2, <2>1, ConcludeType DEF TypeInv
<1>4. PendingIds' = PendingIds \ {id}
  BY <1>1 DEF HandleAck, PendingIds, TypeInv, TypeOK
<1>5. TypeOK'
  BY <1>1, <1>3 DEF HandleAck, TypeInv, TypeOK, agentVars, clientVars
<1>6. Holding' /\ NothingPendingOffline' /\ BrokerOwesPending'
  BY <1>1, <1>4 DEF HandleAck, TypeInv, Holding, NothingPendingOffline,
                    BrokerOwesPending, agentVars, clientVars
<1>7. QED
  BY <1>5, <1>6 DEF TypeInv

LEMMA CancelTypeInv ==
    ASSUME TypeInv, CancelQueued \/ CancelPending
    PROVE  TypeInv'
<1>1. "failed" \in Replies
  BY DEF Replies
<1>2. CASE CancelQueued
  <2>1. Head(queue) \in Commands /\ Tail(queue) \in Seq(Commands)
    BY <1>2 DEF CancelQueued, TypeInv, TypeOK
  <2>2. /\ pool' \in SUBSET Commands
        /\ cmd' \in [Commands -> Structures \cup {Unused}]
        /\ reply' \in [Clients -> Replies]
    BY <1>1, <1>2, <2>1, ConcludeType DEF CancelQueued, TypeInv
  <2>3. TypeOK'
    BY <1>2, <2>1, <2>2
    DEF CancelQueued, TypeInv, TypeOK, agentVars, wireVars, clientVars
  <2>4. QED
    BY <1>2, <2>3
    DEF CancelQueued, TypeInv, Holding, NothingPendingOffline, BrokerOwesPending,
        PendingIds, agentVars, wireVars, clientVars
<1>3. CASE CancelPending
  <2>1. AwaitingAck \in SUBSET Commands
    BY DEF AwaitingAck, PendingIds, TypeInv, TypeOK
  <2>2. /\ pool' \in SUBSET Commands
        /\ cmd' \in [Commands -> Structures \cup {Unused}]
        /\ reply' \in [Clients -> Replies]
    BY <1>1, <1>3, <2>1, ConcludeType DEF CancelPending, TypeInv
  <2>3. PendingIds' = {}
    BY <1>3 DEF CancelPending, PendingIds
  <2>4. TypeOK'
    BY <1>3, <2>2 DEF CancelPending, TypeInv, TypeOK, AgentStates, clientVars
  <2>5. QED
    BY <1>3, <2>3, <2>4
    DEF CancelPending, TypeInv, TypeOK, Holding, NothingPendingOffline,
        BrokerOwesPending, clientVars
<1>4. QED
  BY <1>2, <1>3

LEMMA TypeInvStep == TypeInv /\ [Next]_vars => TypeInv'
<1> SUFFICES ASSUME TypeInv, [Next]_vars PROVE TypeInv'
  OBVIOUS
<1>1. ASSUME NEW c \in Clients, ClientStep(c) PROVE TypeInv'
  BY <1>1, ClientTypeInv
<1>2. CASE SocketReadable
  BY <1>2 DEF SocketReadable, TypeInv, TypeOK, Holding, NothingPendingOffline,
              BrokerOwesPending, PendingIds, Flags, agentVars, wireVars, clientVars
<1>3. ASSUME NEW id \in PacketIds, Acknowledge(id) PROVE TypeInv'
  BY <1>3, AckTypeInv
<1>4. CASE AgentStep
  BY <1>4, ConnectTypeInv, LoopTypeInv, ExecuteTypeInv, CancelTypeInv DEF AgentStep
<1>5. CASE UNCHANGED vars
  BY <1>5 DEF vars, TypeInv, TypeOK, Holding, NothingPendingOffline,
              BrokerOwesPending, PendingIds
<1>6. QED
  BY <1>1, <1>2, <1>3, <1>4, <1>5 DEF Next

LEMMA AlwaysTypeInv == Spec => []TypeInv
  BY TypeInvInit, TypeInvStep, PTL DEF Spec

\* Every variable keeps its type: packet ids stay within 16 bits and off zero, and
\* no NULL is put into the pool, the queue or the table of acknowledgments.
THEOREM TypeCorrect == Spec => []TypeOK
<1>1. TypeInv => TypeOK
  BY DEF TypeInv
<1>2. QED
  BY <1>1, AlwaysTypeInv, PTL

\* mqtt_agent_task.c cancels everything on both sides of a connection, so
\* pPendingAcks is empty whenever a session is set up.
THEOREM CleanBetweenConnections == Spec => []NothingPendingOffline
<1>1. TypeInv => NothingPendingOffline
  BY DEF TypeInv
<1>2. QED
  BY <1>1, AlwaysTypeInv, PTL

\* While the command loop runs, pPendingAcks names exactly the packets the broker
\* has still to acknowledge.
THEOREM PendingMatchesBroker == Spec => []BrokerOwesPending
<1>1. TypeInv => BrokerOwesPending
  BY DEF TypeInv
<1>2. QED
  BY <1>1, AlwaysTypeInv, PTL

-----------------------------------------------------------------------------
(* The places of a command structure.  Each action moves structures between *)
(* two places, so each case states which sets change and by what.           *)

Elements(q) == {q[i] : i \in 1..Len(q)}

Distinct(q) == \A i, j \in 1..Len(q) : q[i] = q[j] => i = j

LEMMA AppendElements ==
    ASSUME NEW T, NEW q \in Seq(T), NEW m \in T
    PROVE  /\ Elements(Append(q, m)) = Elements(q) \cup {m}
           /\ Distinct(q) /\ m \notin Elements(q) => Distinct(Append(q, m))
  BY DEF Elements, Distinct

LEMMA TailElements ==
    ASSUME NEW T, NEW q \in Seq(T), q # <<>>, Distinct(q)
    PROVE  /\ Elements(q) = Elements(Tail(q)) \cup {Head(q)}
           /\ Head(q) \notin Elements(Tail(q))
           /\ Distinct(Tail(q))
<1>1. /\ Len(q) \in Nat \ {0}
      /\ Len(Tail(q)) = Len(q) - 1
      /\ \A i \in 1..Len(Tail(q)) : Tail(q)[i] = q[i + 1]
      /\ Head(q) = q[1]
  OBVIOUS
<1>2. ASSUME NEW i \in 1..Len(q), i # 1 PROVE q[i] \in Elements(Tail(q))
  <2>1. i - 1 \in 1..Len(Tail(q)) /\ Tail(q)[i - 1] = q[i]
    BY <1>1, <1>2
  <2>2. QED
    BY <2>1 DEF Elements
<1>3. ASSUME NEW i \in 1..Len(Tail(q)) PROVE Tail(q)[i] \in Elements(q)
  <2>1. i + 1 \in 1..Len(q) /\ Tail(q)[i] = q[i + 1]
    BY <1>1
  <2>2. QED
    BY <2>1 DEF Elements
<1>4. Head(q) \in Elements(q)
  BY <1>1 DEF Elements
<1>5. Elements(q) = Elements(Tail(q)) \cup {Head(q)}
  BY <1>1, <1>2, <1>3, <1>4 DEF Elements
<1>6. Head(q) \notin Elements(Tail(q)) /\ Distinct(Tail(q))
  BY <1>1 DEF Elements, Distinct
<1>7. QED
  BY <1>5, <1>6

OneHolder == \A c, d \in Clients : held[c] = held[d] /\ held[c] # NULL => c = d

OneEntry == \A i, j \in PendingIds : pending[i] = pending[j] => i = j

\* OnePlace, with the names the proof uses
Placed ==
    /\ Commands = pool \cup Held \cup Queued \cup InHand \cup AwaitingAck
    /\ pool \cap (Held \cup Queued \cup InHand \cup AwaitingAck) = {}
    /\ Held \cap (Queued \cup InHand \cup AwaitingAck) = {}
    /\ Queued \cap (InHand \cup AwaitingAck) = {}
    /\ InHand \cap AwaitingAck = {}
    /\ Distinct(queue) /\ OneEntry /\ OneHolder

LEMMA QueuedElements == Queued = Elements(queue)
  BY DEF Queued, Elements

LEMMA PlacedInit == Init => Placed
<1> SUFFICES ASSUME Init PROVE Placed
  OBVIOUS
<1>1. Held = {} /\ Queued = {} /\ InHand = {} /\ PendingIds = {} /\ AwaitingAck = {}
  BY DEF Init, Held, Queued, InHand, PendingIds, AwaitingAck
<1>2. Distinct(queue) /\ OneEntry /\ OneHolder
  BY <1>1 DEF Init, Distinct, OneEntry, OneHolder
<1>3. QED
  BY <1>1, <1>2 DEF Init, Placed

\* What happens to the structures the tasks hold
LEMMA HeldTaken ==
    ASSUME TypeInv, OneHolder, NEW c \in Clients, NEW m \in Commands,
           held[c] = NULL, m \notin Held, held' = [held EXCEPT ![c] = m]
    PROVE  Held' = Held \cup {m} /\ OneHolder'
<1>1. m # NULL
  BY ConstantsAssumption
<1>2. QED
  BY <1>1 DEF TypeInv, TypeOK, Held, OneHolder

LEMMA HeldGiven ==
    ASSUME TypeInv, OneHolder, NEW c \in Clients, held[c] # NULL,
           held' = [held EXCEPT ![c] = NULL]
    PROVE  Held' = Held \ {held[c]} /\ OneHolder' /\ held[c] \in Held
  BY DEF TypeInv, TypeOK, Held, OneHolder

\* Placed depends on these variables only
LEMMA PlacedFrame ==
    ASSUME Placed, UNCHANGED <<pool, queue, inHand, pending, held>>
    PROVE  Placed'
<1>1. UNCHANGED <<Queued, InHand, PendingIds, Held>>
  BY DEF Queued, InHand, PendingIds, Held
<1>2. UNCHANGED AwaitingAck
  BY <1>1 DEF AwaitingAck
<1>3. Distinct(queue)' /\ OneEntry' /\ OneHolder'
  BY <1>1 DEF Placed, Distinct, OneEntry, OneHolder
<1>4. QED
  BY <1>1, <1>2, <1>3 DEF Placed

LEMMA ClientPlaced ==
    ASSUME TypeInv, Placed, NEW c \in Clients, ClientStep(c)
    PROVE  Placed'
<1> USE DEF Placed
<1>1. CASE GetCommand(c)
  <2>1. PICK m \in pool : pool' = pool \ {m} /\ held' = [held EXCEPT ![c] = m]
    BY <1>1 DEF GetCommand
  <2>2. held[c] = NULL /\ m \in Commands /\ m \notin Held
    BY <1>1, <2>1 DEF GetCommand, TypeInv, TypeOK, Holding
  <2>3. Held' = Held \cup {m} /\ OneHolder'
    BY <2>1, <2>2, HeldTaken
  <2>4. UNCHANGED <<queue, Queued, InHand, AwaitingAck, PendingIds, pending>>
    BY <1>1 DEF GetCommand, agentVars, wireVars, Queued, InHand, AwaitingAck,
                PendingIds
  <2>5. QED
    BY <2>1, <2>2, <2>3, <2>4 DEF Distinct, OneEntry
<1>2. CASE RefuseCommand(c)
  <2>1. held[c] # NULL
    BY <1>2 DEF RefuseCommand, TypeInv, Holding
  <2>2. Held' = Held \ {held[c]} /\ OneHolder' /\ held[c] \in Held
    BY <1>2, <2>1, HeldGiven DEF RefuseCommand
  <2>3. UNCHANGED <<queue, Queued, InHand, AwaitingAck, PendingIds, pending>>
    BY <1>2 DEF RefuseCommand, agentVars, wireVars, Queued, InHand, AwaitingAck,
                PendingIds
  <2>4. QED
    BY <1>2, <2>2, <2>3 DEF RefuseCommand, Distinct, OneEntry
<1>3. CASE SendCommand(c)
  <2>1. held[c] # NULL
    BY <1>3 DEF SendCommand, TypeInv, Holding
  <2>2. Held' = Held \ {held[c]} /\ OneHolder' /\ held[c] \in Held
    BY <1>3, <2>1, HeldGiven DEF SendCommand
  <2>3. held[c] \in Commands /\ held[c] \notin Queued
    BY <2>1, <2>2 DEF TypeInv, TypeOK
  <2>4. Queued' = Queued \cup {held[c]} /\ Distinct(queue')
    BY <1>3, <2>3, AppendElements, QueuedElements
    DEF SendCommand, TypeInv, TypeOK, Elements, Queued
  <2>5. UNCHANGED <<pool, InHand, AwaitingAck, PendingIds, pending>>
    BY <1>3 DEF SendCommand, agentVars, wireVars, InHand, AwaitingAck,
                PendingIds
  <2>6. QED
    BY <2>2, <2>4, <2>5 DEF OneEntry
<1>4. ASSUME UNCHANGED <<pool, queue, inHand, pending, held>> PROVE Placed'
  BY <1>4, PlacedFrame
<1>5. QED
  BY <1>1, <1>2, <1>3, <1>4
  DEF ClientStep, Boot, CreateCommand, NotifyAgent, CollectReply, agentVars, wireVars

\* A command concluded while the agent executes it goes back to the pool
LEMMA FinishPlaced ==
    ASSUME TypeInv, Placed, agent = "execute", NEW status \in {"success", "failed"},
           Finish(status), UNCHANGED pending
    PROVE  Placed'
<1>1. pool' = pool \cup {inHand} /\ inHand' = NULL
  BY DEF Finish, Conclude
<1>2. InHand = {inHand} /\ InHand' = {}
  BY <1>1 DEF InHand, TypeInv, Holding
<1>3. UNCHANGED <<queue, Queued, held, Held, pending, PendingIds, AwaitingAck>>
  BY DEF Finish, clientVars, Queued, Held, PendingIds, AwaitingAck
<1>4. Distinct(queue)' /\ OneEntry' /\ OneHolder'
  BY <1>3 DEF Placed, Distinct, OneEntry, OneHolder
<1>5. QED
  BY <1>1, <1>2, <1>3, <1>4 DEF Placed

LEMMA AddAwaitingPlaced ==
    ASSUME TypeInv, Placed, agent = "execute", NEW id \in PacketIds,
           AddAwaitingOperation(id)
    PROVE  Placed'
<1>1. CASE Finish("failed") /\ UNCHANGED pending
  BY <1>1, FinishPlaced
<1>2. CASE /\ pending[id] = NULL
           /\ pending' = [pending EXCEPT ![id] = inHand]
           /\ inHand' = NULL
           /\ UNCHANGED <<pool, queue, clientVars>>
  <2>1. InHand = {inHand} /\ InHand' = {} /\ inHand \notin AwaitingAck /\ inHand # NULL
    BY <1>2 DEF InHand, TypeInv, Holding, Placed
  <2>2. PendingIds' = PendingIds \cup {id}
    BY <1>2, <2>1 DEF PendingIds, TypeInv, TypeOK
  <2>3. /\ pending'[id] = inHand
        /\ \A i \in PendingIds : pending'[i] = pending[i] /\ i # id
    BY <1>2 DEF PendingIds, TypeInv, TypeOK
  <2>4. AwaitingAck' = AwaitingAck \cup {inHand}
    BY <2>2, <2>3 DEF AwaitingAck
  <2>5. OneEntry'
    BY <2>1, <2>2, <2>3 DEF OneEntry, AwaitingAck, Placed
  <2>6. UNCHANGED <<queue, Queued, held, Held>>
    BY <1>2 DEF clientVars, Queued, Held
  <2>7. Distinct(queue)' /\ OneHolder'
    BY <2>6 DEF Placed, Distinct, OneHolder
  <2>8. QED
    BY <1>2, <2>1, <2>4, <2>5, <2>6, <2>7 DEF Placed
<1>3. QED
  BY <1>1, <1>2 DEF AddAwaitingOperation

LEMMA ExecutePlaced ==
    ASSUME TypeInv, Placed, NEW sent \in BOOLEAN, Execute(sent)
    PROVE  Placed'
<1>1. agent = "execute" /\ nextId \in PacketIds
  BY DEF Execute, ExecutePublish0, ExecutePublish1, ExecuteSubscribe, TypeInv, TypeOK
<1>2. \/ \E status \in {"success", "failed"} : Finish(status) /\ UNCHANGED pending
      \/ AddAwaitingOperation(nextId)
  BY DEF Execute, ExecutePublish0, ExecutePublish1, ExecuteSubscribe, wireVars
<1>3. QED
  BY <1>1, <1>2, FinishPlaced, AddAwaitingPlaced

\* The agent takes the first command of the queue, to execute it or to cancel it
LEMMA DequeuePlaced ==
    ASSUME TypeInv, Placed, queue # <<>>, queue' = Tail(queue)
    PROVE  /\ Queued = Queued' \cup {Head(queue)}
           /\ Head(queue) \notin Queued'
           /\ Distinct(queue)'
<1>1. queue \in Seq(Commands) /\ Distinct(queue)
  BY DEF TypeInv, TypeOK, Placed
<1>2. Distinct(Tail(queue))
  BY <1>1, TailElements
<1>3. Distinct(queue)'
  BY <1>2 DEF Distinct
<1>4. Elements(queue)' = Elements(Tail(queue))
  BY DEF Elements
<1>5. Queued' = Elements(queue)'
  BY QueuedElements DEF Queued, Elements
<1>6. QED
  BY <1>1, <1>3, <1>4, <1>5, TailElements, QueuedElements

LEMMA ReceivePlaced ==
    ASSUME TypeInv, Placed, ReceiveCommand
    PROVE  Placed'
<1>1. /\ queue # <<>> /\ queue' = Tail(queue) /\ inHand' = Head(queue)
      /\ inHand = NULL
      /\ UNCHANGED <<pool, held, pending>>
  BY DEF ReceiveCommand, wireVars, clientVars, TypeInv, Holding
<1>2. Head(queue) \in Commands /\ Head(queue) # NULL
  BY <1>1, ConstantsAssumption DEF TypeInv, TypeOK
<1>3. InHand = {} /\ InHand' = {Head(queue)}
  BY <1>1, <1>2 DEF InHand
<1>4. UNCHANGED <<held, Held, pending, PendingIds, AwaitingAck>>
  BY <1>1 DEF Held, PendingIds, AwaitingAck
<1>5. OneEntry' /\ OneHolder'
  BY <1>4 DEF Placed, OneEntry, OneHolder
<1>6. QED
  BY <1>1, <1>3, <1>4, <1>5, DequeuePlaced DEF Placed

LEMMA CancelQueuedPlaced ==
    ASSUME TypeInv, Placed, CancelQueued
    PROVE  Placed'
<1>1. /\ queue # <<>> /\ queue' = Tail(queue)
      /\ pool' = pool \cup {Head(queue)}
      /\ UNCHANGED <<inHand, held, pending>>
  BY DEF CancelQueued, Conclude, agentVars, wireVars, clientVars
<1>2. UNCHANGED <<held, Held, pending, PendingIds, AwaitingAck, InHand>>
  BY <1>1 DEF Held, PendingIds, AwaitingAck, InHand
<1>3. OneEntry' /\ OneHolder'
  BY <1>2 DEF Placed, OneEntry, OneHolder
<1>4. QED
  BY <1>1, <1>2, <1>3, DequeuePlaced DEF Placed

LEMMA CancelPendingPlaced ==
    ASSUME Placed, CancelPending
    PROVE  Placed'
<1>1. /\ pool' = pool \cup AwaitingAck
      /\ pending' = [id \in PacketIds |-> NULL]
      /\ UNCHANGED <<queue, inHand, held>>
  BY DEF CancelPending, Conclude, clientVars
<1>2. PendingIds' = {} /\ AwaitingAck' = {}
  BY <1>1 DEF PendingIds, AwaitingAck
<1>3. UNCHANGED <<Held, Queued, InHand>>
  BY <1>1 DEF Held, Queued, InHand
<1>4. Distinct(queue)' /\ OneEntry' /\ OneHolder'
  BY <1>1, <1>2 DEF Placed, Distinct, OneEntry, OneHolder
<1>5. QED
  BY <1>1, <1>2, <1>3, <1>4 DEF Placed

\* An acknowledgment takes one entry out of the table
LEMMA AckPlaced ==
    ASSUME TypeInv, Placed, NEW id \in PacketIds, Acknowledge(id)
    PROVE  Placed'
<1>1. /\ agent = "process" /\ id \in atBroker
      /\ pool' = pool \cup {pending[id]}
      /\ pending' = [pending EXCEPT ![id] = NULL]
      /\ UNCHANGED <<queue, inHand, held>>
  BY DEF Acknowledge, HandleAck, Conclude, agentVars, clientVars
<1>2. id \in PendingIds
  BY <1>1 DEF TypeInv, BrokerOwesPending
<1>3. PendingIds' = PendingIds \ {id}
  BY <1>1 DEF PendingIds, TypeInv, TypeOK
<1>4. \A i \in PendingIds' : pending'[i] = pending[i] /\ pending[i] # pending[id]
  BY <1>1, <1>2, <1>3 DEF Placed, OneEntry, PendingIds, TypeInv, TypeOK
<1>5. AwaitingAck = AwaitingAck' \cup {pending[id]} /\ pending[id] \notin AwaitingAck'
  BY <1>2, <1>3, <1>4 DEF AwaitingAck
<1>6. UNCHANGED <<Held, Queued, InHand>>
  BY <1>1 DEF Held, Queued, InHand
<1>7. Distinct(queue)' /\ OneEntry' /\ OneHolder'
  BY <1>1, <1>3, <1>4 DEF Placed, Distinct, OneEntry, OneHolder
<1>8. QED
  BY <1>1, <1>5, <1>6, <1>7 DEF Placed

LEMMA ResubscribePlaced ==
    ASSUME TypeInv, Placed, ConnectResubscribe
    PROVE  Placed'
<1>1. PICK m \in pool : pool' = pool \ {m} /\ queue' = Append(queue, m)
  BY DEF ConnectResubscribe
<1>2. m \in Commands /\ m \notin Queued /\ queue \in Seq(Commands) /\ Distinct(queue)
  BY DEF TypeInv, TypeOK, Placed
<1>3. UNCHANGED <<inHand, held, pending>>
  BY DEF ConnectResubscribe, clientVars
<1>4. UNCHANGED <<InHand, Held, PendingIds, AwaitingAck>>
  BY <1>3 DEF InHand, Held, PendingIds, AwaitingAck
<1>5. Queued' = Queued \cup {m}
  BY <1>1, <1>2, AppendElements DEF Queued, Elements
<1>6. Distinct(queue')
  BY <1>1, <1>2, AppendElements, QueuedElements
<1>7. Distinct(queue)' /\ OneEntry' /\ OneHolder'
  BY <1>3, <1>4, <1>6 DEF Placed, Distinct, OneEntry, OneHolder
<1>8. QED
  BY <1>1, <1>2, <1>4, <1>5, <1>7 DEF Placed

LEMMA PlacedStep == TypeInv /\ Placed /\ [Next]_vars => Placed'
<1> SUFFICES ASSUME TypeInv, Placed, [Next]_vars PROVE Placed'
  OBVIOUS
<1>1. ASSUME NEW c \in Clients, ClientStep(c) PROVE Placed'
  BY <1>1, ClientPlaced
<1>2. ASSUME NEW id \in PacketIds, Acknowledge(id) PROVE Placed'
  BY <1>2, AckPlaced
<1>3. ASSUME NEW sent \in BOOLEAN, Execute(sent) PROVE Placed'
  BY <1>3, ExecutePlaced
<1>4. ASSUME NEW present \in BOOLEAN, ConnectResumed(present) PROVE Placed'
  <2>1. pool' = pool /\ pending' = pending
    BY <1>4, ResumeSessionType DEF ConnectResumed
  <2>2. QED
    BY <1>4, <2>1, PlacedFrame DEF ConnectResumed, clientVars
<1>5. CASE ConnectResubscribe \/ ReceiveCommand \/ CancelQueued \/ CancelPending
  BY <1>5, ResubscribePlaced, ReceivePlaced, CancelQueuedPlaced, CancelPendingPlaced
<1>6. ASSUME \/ SocketReadable \/ TransportConnect \/ ConnectFails \/ ConnectClean
             \/ ReceiveNothing \/ ProcessLoopDone \/ ProcessLoopFails
             \/ UNCHANGED vars
      PROVE  Placed'
  <2>1. UNCHANGED <<pool, queue, inHand, pending, held>>
    BY <1>6 DEF SocketReadable, TransportConnect, ConnectFails, ConnectClean,
                ReceiveNothing, ProcessLoopDone, ProcessLoopFails, vars,
                agentVars, wireVars, clientVars
  <2>2. QED
    BY <2>1, PlacedFrame
<1>7. QED
  BY <1>1, <1>2, <1>3, <1>4, <1>5, <1>6 DEF Next, AgentStep

\* freertos_command_pool.c and core_mqtt_agent.c between them neither leak a
\* command structure nor release one twice, for any pool, any number of tasks and
\* any sequence of errors, packet id collisions, cancellations and reconnections.
THEOREM StructuresHaveOnePlace == Spec => []OnePlace
<1>1. Placed => OnePlace
  BY DEF Placed, OnePlace, Live, Distinct, OneEntry, OneHolder
<1>2. Spec => []Placed
  BY AlwaysTypeInv, PlacedInit, PlacedStep, PTL DEF Spec
<1>3. QED
  BY <1>1, <1>2, PTL

-----------------------------------------------------------------------------
(* Room in the queue: its pointers are distinct structures, and whoever is  *)
(* about to post another has one that is not among them.                    *)

LEMMA DistinctLength ==
    ASSUME NEW T, IsFiniteSet(T), NEW q \in Seq(T), Distinct(q)
    PROVE  Elements(q) \subseteq T /\ Len(q) <= Cardinality(Elements(q))
<1>1. Elements(q) \subseteq T
  BY DEF Elements
<1>2. IsFiniteSet(Elements(q))
  BY <1>1, FS_Subset
<1>3. q \in Injection(1..Len(q), Elements(q))
  BY DEF Elements, Distinct, Injection, IsInjective
<1>4. Cardinality(1..Len(q)) <= Cardinality(Elements(q))
  BY <1>2, <1>3, FS_Injection
<1>5. Cardinality(1..Len(q)) = Len(q)
  <2>1. Len(q) \in Nat
    OBVIOUS
  <2>2. Cardinality(1..Len(q)) = IF 1 > Len(q) THEN 0 ELSE Len(q) - 1 + 1
    BY <2>1, FS_Interval
  <2>3. QED
    BY <2>1, <2>2
<1>6. QED
  BY <1>1, <1>4, <1>5

LEMMA RoomForOneMore ==
    ASSUME TypeInv, Placed, NEW m \in Commands, m \notin Queued
    PROVE  Len(queue) < QueueLength
<1>1. IsFiniteSet(Commands) /\ queue \in Seq(Commands) /\ Distinct(queue)
  BY ConstantsAssumption DEF TypeInv, TypeOK, Placed
<1>2. Elements(queue) \subseteq Commands /\ Len(queue) <= Cardinality(Elements(queue))
  BY <1>1, DistinctLength
<1>3. /\ Cardinality(Elements(queue)) <= Cardinality(Commands)
      /\ Cardinality(Elements(queue)) # Cardinality(Commands)
  BY <1>1, <1>2, FS_Subset, QueuedElements
<1>4. /\ Cardinality(Commands) \in Nat /\ Cardinality(Elements(queue)) \in Nat
      /\ Len(queue) \in Nat /\ QueueLength \in Nat /\ Cardinality(Commands) <= QueueLength
  BY <1>1, <1>2, FS_CardinalityType, FS_Subset, ConstantsAssumption
<1>5. QED
  BY <1>2, <1>3, <1>4

\* xQueueSendToBack of prvAgentMessageSend never finds the queue full, with a pool and a
\* queue of any length as long as the queue is no shorter.
THEOREM PostsFindRoom == Spec => []QueueHasRoom
<1>1. TypeInv /\ Placed => QueueHasRoom
  <2> SUFFICES ASSUME TypeInv, Placed PROVE QueueHasRoom
    OBVIOUS
  <2>1. ASSUME NEW c \in Clients, pc[c] = "send" PROVE Len(queue) < QueueLength
    <3>1. held[c] \in Commands /\ held[c] \in Held
      BY <2>1 DEF TypeInv, TypeOK, Holding, Held
    <3>2. held[c] \notin Queued
      BY <3>1 DEF Placed
    <3>3. QED
      BY <3>1, <3>2, RoomForOneMore
  <2>2. ASSUME pool # {} PROVE Len(queue) < QueueLength
    <3>1. PICK m \in pool : m \in Commands /\ m \notin Queued
      BY <2>2 DEF TypeInv, TypeOK, Placed
    <3>2. QED
      BY <3>1, RoomForOneMore
  <2>3. QED
    BY <2>1, <2>2 DEF QueueHasRoom
<1>2. Spec => [](TypeInv /\ Placed)
  BY AlwaysTypeInv, PlacedInit, PlacedStep, PTL DEF Spec
<1>3. QED
  BY <1>1, <1>2, PTL

-----------------------------------------------------------------------------
(* One answer per request.  The structures the agent still knows of are     *)
(* those that are neither free nor with a task, so that each action changes *)
(* them by what it does to the other two.                                   *)

Waiting(c) == pc[c] \in {"notify", "wait"} /\ reply[c] = "none"

Owed(c, m) == m \in Live /\ cmd[m].owner = c

\* OneAnswerPerRequest, and what it depends on: the structure that is about to be posted
\* is marked as its task's, and no answer is left from an earlier request
Answering ==
    \A c \in Clients :
        /\ Waiting(c) => \E m \in Live : Owed(c, m) /\ \A n \in Live : Owed(c, n) => n = m
        /\ ~Waiting(c) => \A m \in Live : ~Owed(c, m)
        /\ pc[c] = "send" => cmd[held[c]].owner = c
        /\ pc[c] \notin {"notify", "wait"} => reply[c] = "none"

LEMMA LiveRest == ASSUME Placed PROVE Live = Commands \ (pool \cup Held)
  BY DEF Placed, Live

LEMMA LiveRestNext == ASSUME Placed' PROVE Live' = Commands \ (pool' \cup Held')
  BY DEF Placed, Live

LEMMA HeldIsNotLive ==
    ASSUME TypeInv, Placed, NEW c \in Clients, pc[c] \in {"create", "send"}
    PROVE  held[c] \in Commands /\ held[c] \in Held /\ held[c] \notin Live
<1>1. held[c] \in Commands /\ held[c] \in Held
  BY DEF TypeInv, TypeOK, Holding, Held
<1>2. QED
  BY <1>1, LiveRest

LEMMA AnsweringInit == Init => Answering
<1> SUFFICES ASSUME Init PROVE Answering
  OBVIOUS
<1>1. Live = {}
  BY DEF Init, Live, Queued, InHand, PendingIds, AwaitingAck
<1>2. QED
  BY <1>1 DEF Init, Answering, Waiting, Owed

LEMMA AnsweringFrame ==
    ASSUME Placed, Placed', Answering, UNCHANGED <<pool, cmd, held, pc, reply>>
    PROVE  Answering'
<1>1. Live' = Live
  BY LiveRest, LiveRestNext DEF Held
<1>2. QED
  BY <1>1 DEF Answering, Waiting, Owed

\* Conclude answers exactly the tasks whose commands are concluded
LEMMA ConcludeAnswers ==
    ASSUME TypeInv, Placed, Placed', Answering, NEW S \in SUBSET Live,
           NEW status \in {"success", "failed"}, Conclude(S, status), UNCHANGED <<pc, held>>
    PROVE  Answering'
<1>1. Live' = Live \ S /\ Live \subseteq Commands
  <2>1. pool' = pool \cup S /\ Held' = Held
    BY DEF Conclude, Held
  <2>2. Live = Commands \ (pool \cup Held) /\ Live' = Commands \ (pool' \cup Held')
    BY LiveRest, LiveRestNext
  <2>3. QED
    BY <2>1, <2>2
<1>2. \A m \in Commands \ S : cmd'[m] = cmd[m]
  BY DEF Conclude
<1>3. \A c \in Clients : reply'[c] = IF \E m \in S : cmd[m].owner = c THEN status ELSE reply[c]
  BY DEF Conclude
<1> SUFFICES ASSUME NEW c \in Clients
             PROVE  /\ Waiting(c)' => \E m \in Live' : Owed(c, m)'
                                          /\ \A n \in Live' : Owed(c, n)' => n = m
                    /\ ~Waiting(c)' => \A m \in Live' : ~Owed(c, m)'
                    /\ pc'[c] = "send" => cmd'[held'[c]].owner = c
                    /\ pc'[c] \notin {"notify", "wait"} => reply'[c] = "none"
  BY DEF Answering
<1>4. pc'[c] = "send" => cmd'[held'[c]].owner = c
  BY <1>1, <1>2, HeldIsNotLive DEF Answering
<1>5. \A m \in Live' : Owed(c, m)' <=> Owed(c, m)
  BY <1>1, <1>2 DEF Owed
<1>6. CASE \E m \in S : cmd[m].owner = c
  <2>1. PICK m \in S : cmd[m].owner = c /\ Owed(c, m)
    BY <1>6 DEF Owed
  <2>2. Waiting(c) /\ \A n \in Live : Owed(c, n) => n = m
    BY <2>1 DEF Answering
  <2>3. reply'[c] # "none" /\ pc'[c] \in {"notify", "wait"}
    BY <1>3, <1>6, <2>2 DEF Waiting
  <2>4. \A n \in Live' : ~Owed(c, n)'
    BY <1>1, <1>5, <2>1, <2>2
  <2>5. QED
    BY <1>4, <2>3, <2>4 DEF Waiting
<1>7. CASE ~\E m \in S : cmd[m].owner = c
  <2>1. reply'[c] = reply[c] /\ (Waiting(c)' <=> Waiting(c))
    BY <1>3, <1>7 DEF Waiting
  <2>2. \A m \in Live : Owed(c, m) => m \in Live'
    BY <1>1, <1>7 DEF Owed
  <2>3. QED
    BY <1>1, <1>4, <1>5, <2>1, <2>2 DEF Answering
<1>8. QED
  BY <1>6, <1>7

LEMMA ClientAnswers ==
    ASSUME TypeInv, Placed, Placed', Answering, NEW c \in Clients, ClientStep(c)
    PROVE  Answering'
<1> USE DEF Answering, Waiting, Owed
<1>1. Live = Commands \ (pool \cup Held) /\ Live' = Commands \ (pool' \cup Held')
  BY LiveRest, LiveRestNext
<1>2. CASE Boot(c) \/ NotifyAgent(c) \/ CollectReply(c)
  <2>1. Live' = Live /\ UNCHANGED <<cmd, held>>
    BY <1>1, <1>2 DEF Boot, NotifyAgent, CollectReply, agentVars, wireVars, Held
  <2>2. QED
    BY <1>2, <2>1 DEF Boot, NotifyAgent, CollectReply, TypeInv, TypeOK, agentVars, wireVars
<1>3. CASE GetCommand(c)
  <2>1. PICK m \in pool : pool' = pool \ {m} /\ held' = [held EXCEPT ![c] = m]
    BY <1>3 DEF GetCommand
  <2>2. held[c] = NULL /\ m \in Commands /\ m \notin Held
    BY <1>3, <2>1 DEF GetCommand, TypeInv, TypeOK, Holding, Placed
  <2>3. Held' = Held \cup {m}
    BY <2>1, <2>2, HeldTaken DEF Placed
  <2>4. Live' = Live /\ UNCHANGED cmd
    BY <1>1, <1>3, <2>1, <2>3 DEF GetCommand
  <2>5. QED
    BY <1>3, <2>1, <2>4 DEF GetCommand, TypeInv, TypeOK
<1>4. ASSUME NEW kind \in Kinds, CreateCommand(c, kind) PROVE Answering'
  <2>1. held[c] \in Commands /\ held[c] \in Held /\ held[c] \notin Live
    BY <1>4, HeldIsNotLive DEF CreateCommand
  <2>2. Live' = Live
    BY <1>1, <1>4 DEF CreateCommand, clientVars, Held
  <2>3. /\ cmd'[held[c]].owner = c /\ \A m \in Commands \ {held[c]} : cmd'[m] = cmd[m]
        /\ pc' = [pc EXCEPT ![c] = "send"] /\ UNCHANGED <<held, reply>>
    BY <1>4, <2>1 DEF CreateCommand, TypeInv, TypeOK
  <2>4. \A m \in Live : cmd'[m] = cmd[m]
    BY <1>1, <2>1, <2>3
  <2>5. ASSUME NEW d \in Clients, d # c, pc[d] = "send" PROVE cmd'[held[d]] = cmd[held[d]]
    <3>1. held[d] \in Commands /\ held[d] # held[c]
      BY <2>1, <2>5 DEF TypeInv, TypeOK, Holding, Placed, OneHolder
    <3>2. QED
      BY <2>3, <3>1
  <2>6. /\ pc[c] = "create" /\ pc'[c] = "send"
        /\ \A d \in Clients : d # c => pc'[d] = pc[d]
        /\ \A d \in Clients : Waiting(d)' <=> Waiting(d)
    BY <1>4, <2>3 DEF CreateCommand, TypeInv, TypeOK
  <2>7. \A d \in Clients, m \in Live : Owed(d, m)' <=> Owed(d, m)
    BY <2>2, <2>4
  <2>8. \A d \in Clients : pc'[d] = "send" => cmd'[held'[d]].owner = d
    BY <2>3, <2>5, <2>6
  <2>9. \A d \in Clients : pc'[d] \notin {"notify", "wait"} => reply'[d] = "none"
    BY <2>3, <2>6
  <2> HIDE DEF Waiting, Owed
  <2>10. QED
    BY <2>2, <2>6, <2>7, <2>8, <2>9
<1>5. CASE RefuseCommand(c)
  <2>1. held[c] # NULL
    BY <1>5 DEF RefuseCommand, TypeInv, Holding
  <2>2. Held' = Held \ {held[c]} /\ held[c] \in Held
    BY <1>5, <2>1, HeldGiven DEF RefuseCommand, Placed
  <2>3. Live' = Live /\ UNCHANGED <<cmd, reply>>
    BY <1>1, <1>5, <2>2 DEF RefuseCommand
  <2>4. QED
    BY <1>5, <2>3 DEF RefuseCommand, TypeInv, TypeOK
<1>6. CASE SendCommand(c)
  <2>1. held[c] \in Commands /\ held[c] \in Held /\ held[c] \notin Live /\ cmd[held[c]].owner = c
    BY <1>6, HeldIsNotLive DEF SendCommand
  <2>2. Held' = Held \ {held[c]}
    <3>1. held[c] # NULL
      BY <1>6 DEF SendCommand, TypeInv, Holding
    <3>2. QED
      BY <1>6, <3>1, HeldGiven DEF SendCommand, Placed
  <2>3. pool' = pool /\ held[c] \notin pool
    BY <1>6, <2>1 DEF SendCommand, Placed
  <2>4. Live' = Live \cup {held[c]}
    BY <1>1, <2>1, <2>2, <2>3
  <2>5. /\ pc[c] = "send" /\ pc' = [pc EXCEPT ![c] = "notify"]
        /\ held' = [held EXCEPT ![c] = NULL] /\ UNCHANGED <<cmd, reply>>
    BY <1>6 DEF SendCommand
  <2>6. QED
    BY <2>1, <2>4, <2>5 DEF TypeInv, TypeOK
<1>7. QED
  BY <1>2, <1>3, <1>4, <1>5, <1>6 DEF ClientStep

\* The agent's own SUBSCRIBE is no task's
LEMMA ResubscribeAnswers ==
    ASSUME TypeInv, Placed, Placed', Answering, ConnectResubscribe
    PROVE  Answering'
<1>1. PICK m \in pool : /\ pool' = pool \ {m}
                        /\ cmd' = [cmd EXCEPT ![m] = [owner |-> Agent, kind |-> "subscribe"]]
  BY DEF ConnectResubscribe
<1>2. UNCHANGED <<held, pc, reply>>
  BY DEF ConnectResubscribe, clientVars
<1>3. m \in Commands /\ m \notin Held /\ m \notin Live
  BY LiveRest DEF Placed, TypeInv, TypeOK
<1>4. Live' = Live \cup {m}
  BY <1>1, <1>2, <1>3, LiveRest, LiveRestNext DEF Held
<1>5. /\ cmd'[m].owner \notin Clients
      /\ \A n \in Commands \ {m} : cmd'[n] = cmd[n]
  BY <1>1, <1>3, ConstantsAssumption DEF TypeInv, TypeOK
<1>6. \A c \in Clients : pc[c] = "send" => held[c] # m /\ held[c] \in Commands
  BY <1>3, HeldIsNotLive
<1>7. Live \subseteq Commands
  BY LiveRest
<1>8. QED
  BY <1>2, <1>3, <1>4, <1>5, <1>6, <1>7 DEF Answering, Waiting, Owed

LEMMA AnsweringStep ==
    TypeInv /\ Placed /\ Placed' /\ Answering /\ [Next]_vars => Answering'
<1> SUFFICES ASSUME TypeInv, Placed, Placed', Answering, [Next]_vars PROVE Answering'
  OBVIOUS
<1>1. ASSUME NEW c \in Clients, ClientStep(c) PROVE Answering'
  BY <1>1, ClientAnswers
<1>2. ASSUME NEW id \in PacketIds, Acknowledge(id) PROVE Answering'
  <2>1. PICK status \in {"success", "failed"} : HandleAck(id, status)
    BY <1>2 DEF Acknowledge
  <2>2. {pending[id]} \in SUBSET Live
    BY <2>1 DEF HandleAck, TypeInv, BrokerOwesPending, AwaitingAck, Live
  <2>3. QED
    BY <2>1, <2>2, ConcludeAnswers DEF HandleAck, clientVars
<1>3. ASSUME NEW sent \in BOOLEAN, Execute(sent) PROVE Answering'
  <2>1. agent = "execute" /\ {inHand} \in SUBSET Live
    BY <1>3 DEF Execute, ExecutePublish0, ExecutePublish1, ExecuteSubscribe, TypeInv, Holding,
                InHand, Live
  <2>2. \/ \E status \in {"success", "failed"} : Finish(status)
        \/ UNCHANGED <<pool, cmd, clientVars, reply>>
    BY <1>3 DEF Execute, ExecutePublish0, ExecutePublish1, ExecuteSubscribe,
                AddAwaitingOperation
  <2>3. ASSUME NEW status \in {"success", "failed"}, Finish(status) PROVE Answering'
    BY <2>1, <2>3, ConcludeAnswers DEF Finish, clientVars
  <2>4. QED
    BY <2>2, <2>3, AnsweringFrame DEF clientVars
<1>4. ASSUME NEW present \in BOOLEAN, ConnectResumed(present) PROVE Answering'
  <2>1. {pending[id] : id \in Cleared(present)} = {}
    BY <1>4 DEF ConnectResumed, TypeInv, NothingPendingOffline, Cleared
  <2>2. Conclude({}, "failed") /\ UNCHANGED <<pc, held>>
    BY <1>4, <2>1 DEF ConnectResumed, ResumeSession, clientVars
  <2>3. QED
    BY <2>2, ConcludeAnswers
<1>5. CASE ConnectResubscribe
  BY <1>5, ResubscribeAnswers
<1>6. CASE CancelQueued
  <2>1. {Head(queue)} \in SUBSET Live
    <3>1. queue \in Seq(Commands) /\ queue # <<>>
      BY <1>6 DEF CancelQueued, TypeInv, TypeOK
    <3>2. Head(queue) = queue[1] /\ 1 \in 1..Len(queue)
      BY <3>1
    <3>3. QED
      BY <3>2 DEF Queued, Live
  <2>2. QED
    BY <1>6, <2>1, ConcludeAnswers DEF CancelQueued, clientVars
<1>7. CASE CancelPending
  <2>1. AwaitingAck \in SUBSET Live
    BY DEF Live
  <2>2. QED
    BY <1>7, <2>1, ConcludeAnswers DEF CancelPending, clientVars
<1>8. CASE \/ SocketReadable \/ TransportConnect \/ ConnectFails \/ ConnectClean
           \/ ReceiveCommand \/ ReceiveNothing \/ ProcessLoopDone \/ ProcessLoopFails
           \/ UNCHANGED vars
  <2>1. UNCHANGED <<pool, cmd, held, pc, reply>>
    BY <1>8 DEF SocketReadable, TransportConnect, ConnectFails, ConnectClean, ReceiveCommand,
                ReceiveNothing, ProcessLoopDone, ProcessLoopFails, vars, agentVars, wireVars,
                clientVars
  <2>2. QED
    BY <2>1, AnsweringFrame
<1>9. QED
  BY <1>1, <1>2, <1>3, <1>4, <1>5, <1>6, <1>7, <1>8 DEF Next, AgentStep

LEMMA AlwaysPlacedAnswering == Spec => [](Placed /\ Answering)
<1>1. Spec => [](TypeInv /\ Placed)
  BY AlwaysTypeInv, PlacedInit, PlacedStep, PTL DEF Spec
<1>2. TypeInv /\ Placed /\ (TypeInv /\ Placed)' /\ Answering /\ [Next]_vars => Answering'
  BY AnsweringStep
<1>3. QED
  BY <1>1, <1>2, AnsweringInit, PTL DEF Spec

\* A task that waits in MqttAgent_PublishSync or _SubscribeSync is known to exactly one
\* command of the agent, and a task that does not wait to none: through errors, full tables,
\* packet id collisions, cancellations and reconnections, for any number of tasks.
THEOREM EachRequestAnsweredOnce == Spec => []OneAnswerPerRequest
<1>1. Answering => OneAnswerPerRequest
  <2> SUFFICES ASSUME Answering, NEW c \in Clients
               PROVE  LET owed == {m \in Live : cmd[m].owner = c}
                      IN  IF pc[c] \in {"notify", "wait"} /\ reply[c] = "none"
                             THEN \E m \in Live : owed = {m}
                             ELSE owed = {}
    BY DEF OneAnswerPerRequest
  <2>1. CASE Waiting(c)
    <3>1. PICK m \in Live : Owed(c, m) /\ \A n \in Live : Owed(c, n) => n = m
      BY <2>1 DEF Answering
    <3>2. {n \in Live : cmd[n].owner = c} = {m}
      BY <3>1 DEF Owed
    <3>3. QED
      BY <2>1, <3>2 DEF Waiting
  <2>2. CASE ~Waiting(c)
    <3>1. {m \in Live : cmd[m].owner = c} = {}
      BY <2>2 DEF Answering, Owed
    <3>2. QED
      BY <2>2, <3>1 DEF Waiting
  <2>3. QED
    BY <2>1, <2>2
<1>2. QED
  BY <1>1, AlwaysPlacedAnswering, PTL

-----------------------------------------------------------------------------
(* The agent implements CommandService.  A step of the agent changes the    *)
(* stage of one task at most, but for the cancellation of everything that   *)
(* is filed.                                                                *)

Unacked == {c \in Clients : \E m \in Live : cmd[m] = [owner |-> c, kind |-> "publish0"]}

Online == agent \in {"loop", "execute", "process", "cancelClose"}

\* Only what waits for an acknowledgment is filed
Filed == \A m \in AwaitingAck : cmd[m].kind # "publish0"

AgentInv == TypeInv /\ Placed /\ Answering /\ Filed

AtBroker(c) == \E m \in AwaitingAck : cmd[m].owner = c

LEMMA StageIs ==
    ASSUME NEW c \in Clients
    PROVE  /\ Waiting(c) => StageOf(c) = IF AtBroker(c) THEN "atBroker" ELSE "submitted"
           /\ pc[c] \notin {"notify", "wait"} => StageOf(c) = "none"
  BY DEF StageOf, Waiting, AtBroker

LEMMA ServiceStutters ==
    ASSUME \A c \in Clients : StageOf(c)' = StageOf(c), Unacked' = Unacked, Online' = Online
    PROVE  UNCHANGED Service!vars
  BY DEF Service!vars, Unacked, Online

\* What the service sees depends on these variables and on the structures that are live
LEMMA SameService ==
    ASSUME UNCHANGED <<pc, reply, Live, AwaitingAck>>, Online' = Online,
           \A m \in Live : cmd'[m] = cmd[m]
    PROVE  UNCHANGED Service!vars
<1>1. AwaitingAck \subseteq Live
  BY DEF Live
<1>2. ASSUME NEW c \in Clients PROVE StageOf(c)' = StageOf(c)
  BY <1>1 DEF StageOf
<1>3. Unacked' = Unacked
  BY DEF Unacked
<1>4. QED
  BY <1>2, <1>3, ServiceStutters

LEMMA ServiceInit == Init => Service!Init
<1> SUFFICES ASSUME Init PROVE Service!Init
  OBVIOUS
<1>1. Live = {}
  BY DEF Init, Live, Queued, InHand, PendingIds, AwaitingAck
<1>2. \A c \in Clients : StageOf(c) = "none"
  BY DEF Init, StageOf
<1>3. QED
  BY <1>1, <1>2 DEF Init, Service!Init

LEMMA ConcludedLeave ==
    ASSUME Placed, Placed', NEW S \in SUBSET Live, NEW status, Conclude(S, status),
           UNCHANGED held
    PROVE  Live' = Live \ S /\ Live \subseteq Commands
<1>1. pool' = pool \cup S /\ Held' = Held
  BY DEF Conclude, Held
<1>2. Live = Commands \ (pool \cup Held) /\ Live' = Commands \ (pool' \cup Held')
  BY LiveRest, LiveRestNext
<1>3. QED
  BY <1>1, <1>2

\* Conclude and the tasks whose commands are not concluded
LEMMA OthersStay ==
    ASSUME AgentInv, Placed', NEW S \in SUBSET Live, NEW status, Conclude(S, status),
           UNCHANGED <<pc, held>>, AwaitingAck' = AwaitingAck \ S,
           NEW c \in Clients, \A m \in S : cmd[m].owner # c
    PROVE  StageOf(c)' = StageOf(c) /\ (c \in Unacked' <=> c \in Unacked)
<1>1. Live' = Live \ S /\ Live \subseteq Commands
  BY ConcludedLeave DEF AgentInv
<1>2. \A m \in Live \ S : cmd'[m] = cmd[m]
  BY <1>1 DEF Conclude
<1>3. reply'[c] = reply[c]
  BY DEF Conclude
<1>4. AtBroker(c)' <=> AtBroker(c)
  BY <1>1, <1>2 DEF AtBroker, Live
<1>5. StageOf(c)' = StageOf(c)
  BY <1>3, <1>4 DEF StageOf, AtBroker
<1>6. c \in Unacked' <=> c \in Unacked
  BY <1>1, <1>2 DEF Unacked
<1>7. QED
  BY <1>5, <1>6

\* One command is concluded: its task, if it is not the agent's own, has its answer
LEMMA ConcludeOneRefines ==
    ASSUME AgentInv, Placed', NEW m \in Live, NEW status \in {"success", "failed"},
           Conclude({m}, status), UNCHANGED <<pc, held>>, AwaitingAck' = AwaitingAck \ {m},
           Online' = Online,
           status = "success" => Online /\ (m \in AwaitingAck \/ cmd[m].kind = "publish0")
    PROVE  [Service!Next]_(Service!vars)
<1>1. Live' = Live \ {m} /\ Live \subseteq Commands
  BY ConcludedLeave DEF AgentInv
<1>2. \A d \in Clients \ {cmd[m].owner} :
        StageOf(d)' = StageOf(d) /\ (d \in Unacked' <=> d \in Unacked)
  BY OthersStay
<1>3. CASE cmd[m].owner \notin Clients
  <2>1. \A d \in Clients : StageOf(d)' = StageOf(d)
    BY <1>2, <1>3
  <2>2. Unacked' = Unacked
    BY <1>2, <1>3 DEF Unacked
  <2>3. QED
    BY <2>1, <2>2, ServiceStutters
<1>4. ASSUME NEW c \in Clients, cmd[m].owner = c PROVE [Service!Next]_(Service!vars)
  <2>1. Waiting(c) /\ \A n \in Live : Owed(c, n) => n = m
    BY <1>4 DEF AgentInv, Answering, Owed
  <2>2. StageOf(c) = IF m \in AwaitingAck THEN "atBroker" ELSE "submitted"
    BY <1>4, <2>1, StageIs DEF AtBroker, Live, Owed
  <2>3. reply'[c] = status /\ pc'[c] \in {"notify", "wait"}
    BY <1>4, <2>1 DEF Conclude, Waiting
  <2>4. StageOf(c)' = status
    BY <2>3 DEF StageOf
  <2>5. c \notin Unacked'
    <3>1. \A n \in Live' : cmd'[n] = cmd[n] /\ cmd[n].owner # c
      BY <1>1, <2>1 DEF Conclude, Owed
    <3>2. \A n \in Live' : cmd'[n] # [owner |-> c, kind |-> "publish0"]
      BY <3>1
    <3>3. QED
      BY <3>2 DEF Unacked
  <2>6. Unacked' = Unacked \ {c}
    <3>1. \A d \in Clients \ {c} : d \in Unacked' <=> d \in Unacked
      BY <1>2, <1>4
    <3>2. Unacked \subseteq Clients /\ Unacked' \subseteq Clients
      BY DEF Unacked
    <3>3. QED
      BY <2>5, <3>1, <3>2
  <2>7. [d \in Clients |-> StageOf(d)]' = [[d \in Clients |-> StageOf(d)] EXCEPT ![c] = status]
    BY <1>2, <1>4, <2>4
  <2>8. CASE status = "failed"
    BY <1>4, <2>2, <2>6, <2>7, <2>8 DEF Service!Next, Service!Fail, Unacked, Online
  <2>9. CASE status = "success"
    <3>1. m \in AwaitingAck \/ c \in Unacked
      <4>1. cmd[m] \in Structures \cup {Unused}
        BY <1>1 DEF AgentInv, TypeInv, TypeOK
      <4>2. c # NULL
        BY <1>4, ConstantsAssumption
      <4>3. cmd[m] \in Structures
        BY <1>4, <4>1, <4>2 DEF Unused
      <4>4. cmd[m].kind = "publish0" => cmd[m] = [owner |-> c, kind |-> "publish0"]
        BY <1>4, <4>3 DEF Structures
      <4>5. QED
        BY <1>4, <2>9, <4>4 DEF Unacked
    <3>2. Service!Succeed(c)
      BY <1>4, <2>2, <2>6, <2>7, <2>9, <3>1 DEF Service!Succeed, Unacked, Online
    <3>3. QED
      BY <1>4, <3>2 DEF Service!Next
  <2>10. QED
    BY <2>8, <2>9
<1>5. QED
  BY <1>3, <1>4

\* Everything that is filed is cancelled: that is the end of the service's connection
LEMMA CancelPendingRefines ==
    ASSUME AgentInv, Placed', CancelPending
    PROVE  [Service!Next]_(Service!vars) /\ AwaitingAck' = {}
<1>1. /\ Conclude(AwaitingAck, "failed") /\ UNCHANGED <<queue, inHand, pc, held>>
      /\ agent \in {"cancelOpen", "cancelClose"}
      /\ agent' = IF agent = "cancelOpen" THEN "connect" ELSE "down"
  BY DEF CancelPending, clientVars
<1>2. AwaitingAck' = {}
  BY DEF CancelPending, PendingIds, AwaitingAck
<1>3. AwaitingAck \in SUBSET Live
  BY DEF Live
<1>4. \A c \in Clients : AtBroker(c) =>
        StageOf(c) = "atBroker" /\ StageOf(c)' = "failed"
  <2> SUFFICES ASSUME NEW c \in Clients, AtBroker(c)
               PROVE  StageOf(c) = "atBroker" /\ StageOf(c)' = "failed"
    OBVIOUS
  <2>1. PICK m \in AwaitingAck : cmd[m].owner = c
    BY DEF AtBroker
  <2>2. Waiting(c)
    BY <1>3, <2>1 DEF AgentInv, Answering, Owed
  <2>3. reply'[c] = "failed" /\ pc'[c] \in {"notify", "wait"}
    BY <1>1, <2>1, <2>2 DEF Conclude, Waiting
  <2>4. QED
    BY <2>2, <2>3, StageIs DEF StageOf
<1>5. ASSUME NEW c \in Clients, ~AtBroker(c)
      PROVE  StageOf(c) # "atBroker" /\ StageOf(c)' = StageOf(c)
  <2>1. StageOf(c)' = StageOf(c)
    BY <1>1, <1>2, <1>3, <1>5, OthersStay DEF AtBroker
  <2>2. StageOf(c) # "atBroker"
    BY <1>5 DEF StageOf, AtBroker, AgentInv, TypeInv, TypeOK, Replies
  <2>3. QED
    BY <2>1, <2>2
<1>6. Unacked' = Unacked
  <2>1. Live' = Live \ AwaitingAck /\ Live \subseteq Commands
    BY <1>1, <1>3, ConcludedLeave DEF AgentInv
  <2>2. \A m \in Live' : cmd'[m] = cmd[m]
    BY <1>1, <2>1 DEF Conclude
  <2>3. \A m \in Live, c \in Clients :
          cmd[m] = [owner |-> c, kind |-> "publish0"] => m \in Live'
    BY <2>1 DEF AgentInv, Filed
  <2>4. QED
    BY <2>1, <2>2, <2>3 DEF Unacked
<1>7. CASE agent = "cancelOpen"
  <2>1. AwaitingAck = {}
    BY <1>7 DEF AgentInv, TypeInv, NothingPendingOffline, AwaitingAck
  <2>2. \A c \in Clients : StageOf(c)' = StageOf(c)
    BY <1>5, <2>1 DEF AtBroker
  <2>3. Online' = Online
    BY <1>1, <1>7 DEF Online
  <2>4. QED
    BY <1>2, <1>6, <2>2, <2>3, ServiceStutters
<1>8. CASE agent = "cancelClose"
  <2>1. Online /\ ~Online'
    BY <1>1, <1>8 DEF Online
  <2>2. [c \in Clients |-> StageOf(c)]'
          = [c \in Clients |-> IF StageOf(c) = "atBroker" THEN "failed" ELSE StageOf(c)]
    BY <1>4, <1>5
  <2>3. Service!GoOffline
    BY <1>6, <2>1, <2>2 DEF Service!GoOffline, Unacked, Online
  <2>4. QED
    BY <1>2, <2>3 DEF Service!Next
<1>9. QED
  BY <1>1, <1>7, <1>8

\* A packet that has left and is filed is a transmission
LEMMA FilingRefines ==
    ASSUME AgentInv, Placed', agent = "execute", NEW id \in PacketIds,
           cmd[inHand].kind # "publish0",
           pending[id] = NULL, pending' = [pending EXCEPT ![id] = inHand],
           inHand' = NULL, agent' = "process",
           UNCHANGED <<pool, cmd, queue, reply, pc, held>>
    PROVE  [Service!Next]_(Service!vars) /\ AwaitingAck' = AwaitingAck \cup {inHand}
<1>1. InHand = {inHand} /\ inHand \in Live /\ inHand \notin AwaitingAck /\ inHand # NULL
  BY DEF InHand, AgentInv, TypeInv, Holding, Placed, Live
<1>2. AwaitingAck' = AwaitingAck \cup {inHand}
  <2>1. PendingIds' = PendingIds \cup {id}
    BY <1>1 DEF PendingIds, AgentInv, TypeInv, TypeOK
  <2>2. /\ pending'[id] = inHand
        /\ \A i \in PendingIds : pending'[i] = pending[i] /\ i # id
    BY DEF PendingIds, AgentInv, TypeInv, TypeOK
  <2>3. QED
    BY <2>1, <2>2 DEF AwaitingAck
<1>3. Live' = Live
  BY LiveRest, LiveRestNext DEF AgentInv, Held
<1>4. Unacked' = Unacked
  BY <1>3 DEF Unacked
<1>5. Online /\ Online'
  BY DEF Online
<1>6. ASSUME NEW c \in Clients, cmd[inHand].owner # c PROVE StageOf(c)' = StageOf(c)
  BY <1>2, <1>6 DEF StageOf
<1>7. ASSUME NEW c \in Clients, cmd[inHand].owner = c PROVE [Service!Next]_(Service!vars)
  <2>1. Waiting(c) /\ \A n \in Live : Owed(c, n) => n = inHand
    BY <1>1, <1>7 DEF AgentInv, Answering, Owed
  <2>2. StageOf(c) = "submitted"
    BY <1>1, <2>1, StageIs DEF AtBroker, Live, Owed
  <2>3. StageOf(c)' = "atBroker"
    BY <1>2, <1>7, <2>1 DEF StageOf, Waiting
  <2>4. c \notin Unacked
    BY <1>7, <2>1 DEF Unacked, Owed
  <2>5. [d \in Clients |-> StageOf(d)]' = [[d \in Clients |-> StageOf(d)] EXCEPT ![c] = "atBroker"]
    BY <1>6, <1>7, <2>3
  <2>6. Service!Transmit(c)
    BY <1>4, <1>5, <2>2, <2>4, <2>5 DEF Service!Transmit, Unacked, Online
  <2>7. QED
    BY <2>6 DEF Service!Next
<1>8. ASSUME cmd[inHand].owner \notin Clients PROVE [Service!Next]_(Service!vars)
  <2>1. \A c \in Clients : StageOf(c)' = StageOf(c)
    BY <1>6, <1>8
  <2>2. QED
    BY <1>4, <1>5, <2>1, ServiceStutters
<1>9. QED
  BY <1>2, <1>7, <1>8

LEMMA ClientRefines ==
    ASSUME AgentInv, Placed', NEW c \in Clients, ClientStep(c)
    PROVE  [Service!Next]_(Service!vars) /\ UNCHANGED AwaitingAck
<1>1. UNCHANGED AwaitingAck /\ Online' = Online /\ AwaitingAck \subseteq Live
  <2>1. UNCHANGED <<pending, agent>>
    BY DEF ClientStep, Boot, GetCommand, CreateCommand, RefuseCommand, SendCommand, NotifyAgent,
           CollectReply, wireVars, agentVars
  <2>2. QED
    BY <2>1 DEF AwaitingAck, PendingIds, Online, Live
<1>2. Live = Commands \ (pool \cup Held) /\ Live' = Commands \ (pool' \cup Held')
  BY LiveRest, LiveRestNext DEF AgentInv
<1>3. CASE Boot(c) \/ NotifyAgent(c) \/ GetCommand(c) \/ RefuseCommand(c) \/ CollectReply(c)
  <2>1. Live' = Live /\ UNCHANGED cmd
    <3>1. CASE GetCommand(c)
      <4>1. PICK m \in pool : pool' = pool \ {m} /\ held' = [held EXCEPT ![c] = m]
        BY <3>1 DEF GetCommand
      <4>2. held[c] = NULL /\ m \in Commands /\ m \notin Held
        BY <3>1, <4>1 DEF GetCommand, AgentInv, TypeInv, TypeOK, Holding, Placed
      <4>3. Held' = Held \cup {m}
        BY <4>1, <4>2, HeldTaken DEF Placed, AgentInv
      <4>4. QED
        BY <1>2, <3>1, <4>1, <4>3 DEF GetCommand
    <3>2. CASE RefuseCommand(c)
      <4>1. held[c] # NULL
        BY <3>2 DEF RefuseCommand, AgentInv, TypeInv, Holding
      <4>2. Held' = Held \ {held[c]} /\ held[c] \in Held
        BY <3>2, <4>1, HeldGiven DEF RefuseCommand, Placed, AgentInv
      <4>3. QED
        BY <1>2, <3>2, <4>2 DEF RefuseCommand
    <3>3. QED
      BY <1>2, <1>3, <3>1, <3>2 DEF Boot, NotifyAgent, CollectReply, Held
  <2>2. Unacked' = Unacked
    BY <2>1 DEF Unacked
  <2>3. ASSUME NEW d \in Clients, d # c PROVE StageOf(d)' = StageOf(d)
    BY <1>1, <1>3, <2>1, <2>3
       DEF StageOf, Boot, NotifyAgent, GetCommand, RefuseCommand, CollectReply, AgentInv,
           TypeInv, TypeOK
  <2>4. CASE ~CollectReply(c)
    <3>1. StageOf(c)' = StageOf(c)
      BY <1>1, <1>3, <2>1, <2>4
         DEF StageOf, Boot, NotifyAgent, GetCommand, RefuseCommand, AgentInv, TypeInv, TypeOK
    <3>2. QED
      BY <1>1, <2>2, <2>3, <3>1, ServiceStutters
  <2>5. CASE CollectReply(c)
    <3>1. StageOf(c) \in {"success", "failed"} /\ StageOf(c)' = "none"
      BY <2>5 DEF CollectReply, StageOf, AgentInv, TypeInv, TypeOK, Replies
    <3>2. [d \in Clients |-> StageOf(d)]' = [[d \in Clients |-> StageOf(d)] EXCEPT ![c] = "none"]
      BY <2>3, <3>1
    <3>3. Service!Collect(c)
      BY <1>1, <2>2, <3>1, <3>2 DEF Service!Collect, Service!Answered, Unacked, Online
    <3>4. QED
      BY <1>1, <3>3 DEF Service!Next
  <2>6. QED
    BY <2>4, <2>5
<1>4. ASSUME NEW kind \in Kinds, CreateCommand(c, kind) PROVE [Service!Next]_(Service!vars)
  <2>1. held[c] \in Commands /\ held[c] \notin Live
    BY <1>4, HeldIsNotLive DEF CreateCommand, AgentInv
  <2>2. Live' = Live
    BY <1>2, <1>4 DEF CreateCommand, clientVars, Held
  <2>3. \A m \in Live : cmd'[m] = cmd[m]
    BY <1>2, <1>4, <2>1 DEF CreateCommand, AgentInv, TypeInv, TypeOK
  <2>4. Unacked' = Unacked
    BY <2>2, <2>3 DEF Unacked
  <2>5. ASSUME NEW d \in Clients PROVE StageOf(d)' = StageOf(d)
    <3>1. pc'[d] = pc[d] \/ {pc[d], pc'[d]} \cap {"notify", "wait"} = {}
      BY <1>4 DEF CreateCommand, AgentInv, TypeInv, TypeOK
    <3>2. UNCHANGED reply
      BY <1>4 DEF CreateCommand
    <3>3. QED
      BY <1>1, <2>3, <3>1, <3>2 DEF StageOf
  <2>6. QED
    BY <1>1, <2>4, <2>5, ServiceStutters
<1>5. CASE SendCommand(c)
  <2>1. held[c] \in Commands /\ held[c] \in Held /\ held[c] \notin Live /\ cmd[held[c]].owner = c
    BY <1>5, HeldIsNotLive DEF SendCommand, AgentInv, Answering
  <2>2. Held' = Held \ {held[c]}
    <3>1. held[c] # NULL
      BY <1>5 DEF SendCommand, AgentInv, TypeInv, Holding
    <3>2. QED
      BY <1>5, <3>1, HeldGiven DEF SendCommand, Placed, AgentInv
  <2>3. Live' = Live \cup {held[c]}
    BY <1>2, <1>5, <2>1, <2>2 DEF SendCommand, Placed, AgentInv
  <2>4. /\ pc[c] = "send" /\ pc' = [pc EXCEPT ![c] = "notify"]
        /\ UNCHANGED <<cmd, reply>>
    BY <1>5 DEF SendCommand
  <2>5. reply[c] = "none" /\ ~Waiting(c) /\ \A m \in Live : cmd[m].owner # c
    BY <2>4 DEF AgentInv, Answering, Owed, Waiting
  <2>6. StageOf(c) = "none" /\ StageOf(c)' = "submitted"
    BY <1>1, <2>4, <2>5 DEF StageOf, AgentInv, TypeInv, TypeOK
  <2>7. ASSUME NEW d \in Clients, d # c PROVE StageOf(d)' = StageOf(d)
    BY <1>1, <2>4, <2>7 DEF StageOf, AgentInv, TypeInv, TypeOK
  <2>8. Unacked' = Unacked \/ Unacked' = Unacked \cup {c}
    <3>1. ASSUME NEW d \in Clients, d # c PROVE d \in Unacked' <=> d \in Unacked
      BY <2>1, <2>3, <2>4, <3>1 DEF Unacked
    <3>2. c \notin Unacked
      BY <2>5 DEF Unacked
    <3>3. Unacked \subseteq Clients /\ Unacked' \subseteq Clients
      BY DEF Unacked
    <3>4. QED
      BY <3>1, <3>2, <3>3
  <2>9. [d \in Clients |-> StageOf(d)]'
          = [[d \in Clients |-> StageOf(d)] EXCEPT ![c] = "submitted"]
    BY <2>6, <2>7
  <2>10. Service!Submit(c)
    BY <1>1, <2>6, <2>8, <2>9 DEF Service!Submit, Unacked, Online
  <2>11. QED
    BY <1>1, <2>10 DEF Service!Next
<1>6. QED
  BY <1>1, <1>3, <1>4, <1>5 DEF ClientStep

\* Filed is kept when nothing new is filed and what stays is not changed
LEMMA FiledFrame ==
    ASSUME Filed, AwaitingAck' \subseteq AwaitingAck, \A m \in AwaitingAck' : cmd'[m] = cmd[m]
    PROVE  Filed'
  BY DEF Filed

LEMMA ConcludeKeepsFiled ==
    ASSUME AgentInv, Placed', NEW S \in SUBSET Live, NEW status, Conclude(S, status),
           UNCHANGED held, AwaitingAck' = AwaitingAck \ S
    PROVE  Filed'
<1>1. \A m \in Live \ S : cmd'[m] = cmd[m]
  BY ConcludedLeave DEF Conclude, AgentInv
<1>2. QED
  BY <1>1, FiledFrame DEF AgentInv, Live

LEMMA ClientKeepsFiled ==
    ASSUME AgentInv, Placed', NEW c \in Clients, ClientStep(c)
    PROVE  Filed'
<1>1. UNCHANGED AwaitingAck
  BY ClientRefines
<1>2. \A m \in AwaitingAck : cmd'[m] = cmd[m]
  <2>1. ASSUME NEW kind \in Kinds, CreateCommand(c, kind), NEW m \in AwaitingAck
        PROVE  cmd'[m] = cmd[m]
    <3>1. held[c] \notin Live
      BY <2>1, HeldIsNotLive DEF CreateCommand, AgentInv
    <3>2. m \in Live /\ m \in Commands
      BY <2>1, LiveRest DEF Live, AgentInv
    <3>3. QED
      BY <2>1, <3>1, <3>2 DEF CreateCommand, AgentInv, TypeInv, TypeOK
  <2>2. CASE UNCHANGED cmd
    BY <2>2
  <2>3. QED
    BY <2>1, <2>2 DEF ClientStep, Boot, GetCommand, RefuseCommand, SendCommand, NotifyAgent,
                      CollectReply
<1>3. QED
  BY <1>1, <1>2, FiledFrame DEF AgentInv

\* The command in hand is concluded
LEMMA FinishRefines ==
    ASSUME AgentInv, Placed', agent = "execute", NEW status \in {"success", "failed"},
           Finish(status), UNCHANGED pending,
           status = "success" => cmd[inHand].kind = "publish0"
    PROVE  [Service!Next]_(Service!vars) /\ Filed'
<1>1. Conclude({inHand}, status) /\ UNCHANGED <<pc, held>>
      /\ agent' = IF status = "success" THEN "process" ELSE "cancelClose"
  BY DEF Finish, clientVars
<1>2. inHand \in Live /\ inHand \notin AwaitingAck
  BY DEF InHand, AgentInv, TypeInv, Holding, Placed, Live
<1>3. AwaitingAck' = AwaitingAck \ {inHand}
  BY <1>2 DEF AwaitingAck, PendingIds
<1>4. Online /\ Online'
  BY <1>1 DEF Online
<1>5. [Service!Next]_(Service!vars)
  BY <1>1, <1>2, <1>3, <1>4, ConcludeOneRefines
<1>6. Filed'
  BY <1>1, <1>2, <1>3, ConcludeKeepsFiled
<1>7. QED
  BY <1>5, <1>6

LEMMA ExecuteRefines ==
    ASSUME AgentInv, Placed', NEW sent \in BOOLEAN, Execute(sent)
    PROVE  [Service!Next]_(Service!vars) /\ Filed'
<1>1. agent = "execute" /\ nextId \in PacketIds
  BY DEF Execute, ExecutePublish0, ExecutePublish1, ExecuteSubscribe, AgentInv, TypeInv, TypeOK
<1>2. \/ /\ cmd[inHand].kind = "publish0" /\ UNCHANGED pending
         /\ \E status \in {"success", "failed"} : Finish(status)
      \/ Finish("failed") /\ UNCHANGED pending
      \/ cmd[inHand].kind # "publish0" /\ AddAwaitingOperation(nextId)
  BY DEF Execute, ExecutePublish0, ExecutePublish1, ExecuteSubscribe, wireVars
<1>3. CASE cmd[inHand].kind # "publish0" /\ AddAwaitingOperation(nextId)
  <2>1. CASE Finish("failed") /\ UNCHANGED pending
    BY <1>1, <2>1, FinishRefines
  <2>2. CASE /\ pending[nextId] = NULL
             /\ pending' = [pending EXCEPT ![nextId] = inHand]
             /\ inHand' = NULL /\ agent' = "process"
             /\ UNCHANGED <<pool, cmd, queue, reply, pc, held>>
    <3>1. [Service!Next]_(Service!vars) /\ AwaitingAck' = AwaitingAck \cup {inHand}
      BY <1>1, <1>3, <2>2, FilingRefines
    <3>2. Filed'
      BY <1>3, <2>2, <3>1 DEF AgentInv, Filed
    <3>3. QED
      BY <3>1, <3>2
  <2>3. QED
    BY <1>3, <2>1, <2>2 DEF AddAwaitingOperation, clientVars
<1>4. QED
  BY <1>1, <1>2, <1>3, FinishRefines

LEMMA AckRefines ==
    ASSUME AgentInv, Placed', NEW id \in PacketIds, Acknowledge(id)
    PROVE  [Service!Next]_(Service!vars) /\ Filed'
<1>1. PICK status \in {"success", "failed"} : HandleAck(id, status)
  BY DEF Acknowledge
<1>2. /\ agent = "process" /\ id \in atBroker
      /\ Conclude({pending[id]}, status)
      /\ pending' = [pending EXCEPT ![id] = NULL]
      /\ UNCHANGED <<agent, pc, held>>
  BY <1>1 DEF HandleAck, agentVars, clientVars
<1>3. id \in PendingIds /\ pending[id] \in AwaitingAck /\ pending[id] \in Live
  BY <1>2 DEF AgentInv, TypeInv, BrokerOwesPending, AwaitingAck, Live
<1>4. AwaitingAck' = AwaitingAck \ {pending[id]}
  <2>1. PendingIds' = PendingIds \ {id}
    BY <1>2 DEF PendingIds, AgentInv, TypeInv, TypeOK
  <2>2. \A i \in PendingIds' : pending'[i] = pending[i] /\ pending[i] # pending[id]
    BY <1>2, <1>3, <2>1 DEF AgentInv, Placed, OneEntry, PendingIds, TypeInv, TypeOK
  <2>3. QED
    BY <1>3, <2>1, <2>2 DEF AwaitingAck
<1>5. Online /\ Online'
  BY <1>2 DEF Online
<1>6. [Service!Next]_(Service!vars)
  BY <1>2, <1>3, <1>4, <1>5, ConcludeOneRefines
<1>7. Filed'
  BY <1>2, <1>3, <1>4, ConcludeKeepsFiled
<1>8. QED
  BY <1>6, <1>7

LEMMA CancelQueuedRefines ==
    ASSUME AgentInv, Placed', CancelQueued
    PROVE  [Service!Next]_(Service!vars) /\ Filed'
<1>1. /\ queue # <<>> /\ Conclude({Head(queue)}, "failed")
      /\ UNCHANGED <<pending, agent, pc, held>>
  BY DEF CancelQueued, wireVars, agentVars, clientVars
<1>2. Head(queue) \in Queued
  <2>1. queue \in Seq(Commands)
    BY DEF AgentInv, TypeInv, TypeOK
  <2>2. Head(queue) = queue[1] /\ 1 \in 1..Len(queue)
    BY <1>1, <2>1
  <2>3. QED
    BY <2>2 DEF Queued
<1>3. Head(queue) \in Live /\ AwaitingAck' = AwaitingAck \ {Head(queue)} /\ Online' = Online
  BY <1>1, <1>2 DEF AgentInv, Placed, Live, AwaitingAck, PendingIds, Online
<1>4. [Service!Next]_(Service!vars)
  BY <1>1, <1>3, ConcludeOneRefines
<1>5. Filed'
  BY <1>1, <1>3, ConcludeKeepsFiled
<1>6. QED
  BY <1>4, <1>5

\* The set-up of a session is the beginning of the service's connection
LEMMA GoesOnline ==
    ASSUME UNCHANGED <<pc, reply, Live, AwaitingAck>>, \A m \in Live : cmd'[m] = cmd[m],
           ~Online, Online'
    PROVE  Service!Next
<1>1. AwaitingAck \subseteq Live
  BY DEF Live
<1>2. \A c \in Clients : StageOf(c)' = StageOf(c)
  BY <1>1 DEF StageOf
<1>3. Unacked' = Unacked
  BY DEF Unacked
<1>4. Service!GoOnline
  BY <1>2, <1>3 DEF Service!GoOnline, Unacked, Online
<1>5. QED
  BY <1>4 DEF Service!Next

LEMMA ConnectRefines ==
    ASSUME AgentInv, Placed',
           \/ ConnectFails \/ ConnectClean \/ ConnectResubscribe
           \/ \E present \in BOOLEAN : ConnectResumed(present)
    PROVE  Service!Next /\ Filed'
<1>1. agent = "connect" /\ agent' \in {"loop", "cancelClose"} /\ UNCHANGED <<pc, held, reply>>
  <2>1. ASSUME NEW present \in BOOLEAN, ConnectResumed(present) PROVE UNCHANGED reply
    <3>1. {pending[id] : id \in Cleared(present)} = {}
      BY <2>1 DEF ConnectResumed, AgentInv, TypeInv, NothingPendingOffline, Cleared
    <3>2. Conclude({}, "failed")
      BY <2>1, <3>1 DEF ConnectResumed, ResumeSession
    <3>3. QED
      BY <3>2 DEF Conclude, AgentInv, TypeInv, TypeOK
  <2>2. QED
    BY <2>1 DEF ConnectFails, ConnectClean, ConnectResubscribe, ConnectResumed, clientVars
<1>2. ~Online /\ Online'
  BY <1>1 DEF Online
<1>3. AwaitingAck = {} /\ AwaitingAck' = {}
  <2>1. pending' = pending
    BY ResumeSessionType
       DEF ConnectFails, ConnectClean, ConnectResubscribe, ConnectResumed, AgentInv
  <2>2. QED
    BY <1>1, <2>1 DEF AgentInv, TypeInv, NothingPendingOffline, AwaitingAck, PendingIds
<1>4. Filed'
  BY <1>3 DEF Filed
<1>5. CASE ConnectFails \/ ConnectClean \/ \E present \in BOOLEAN : ConnectResumed(present)
  <2>1. UNCHANGED <<pool, cmd>>
    <3>1. ASSUME NEW present \in BOOLEAN, ConnectResumed(present) PROVE UNCHANGED <<pool, cmd>>
      <4>1. {pending[id] : id \in Cleared(present)} = {}
        BY <3>1 DEF ConnectResumed, AgentInv, TypeInv, NothingPendingOffline, Cleared
      <4>2. Conclude({}, "failed")
        BY <3>1, <4>1 DEF ConnectResumed, ResumeSession
      <4>3. QED
        BY <4>2 DEF Conclude, AgentInv, TypeInv, TypeOK
    <3>2. QED
      BY <1>5, <3>1 DEF ConnectFails, ConnectClean
  <2>2. Live' = Live
    BY <1>1, <2>1, LiveRest, LiveRestNext DEF AgentInv, Held
  <2>3. QED
    BY <1>1, <1>2, <1>3, <1>4, <2>1, <2>2, GoesOnline
<1>6. CASE ConnectResubscribe
  <2>1. PICK m \in pool : /\ pool' = pool \ {m}
                          /\ cmd' = [cmd EXCEPT ![m] = [owner |-> Agent, kind |-> "subscribe"]]
    BY <1>6 DEF ConnectResubscribe
  <2>2. m \in Commands /\ m \notin Live /\ Live' = Live \cup {m}
    BY <1>1, <2>1, LiveRest, LiveRestNext DEF AgentInv, Placed, Held, TypeInv, TypeOK
  <2>3. Live \subseteq Commands
    BY LiveRest DEF AgentInv
  <2>4. \A n \in Live : cmd'[n] = cmd[n]
    BY <2>1, <2>2, <2>3 DEF AgentInv, TypeInv, TypeOK
  <2>5. cmd'[m].owner \notin Clients
    BY <2>1, <2>2, ConstantsAssumption DEF AgentInv, TypeInv, TypeOK
  <2>6. \A c \in Clients : StageOf(c)' = StageOf(c)
    BY <1>1, <1>3 DEF StageOf
  <2>7. \A c \in Clients : cmd'[m] # [owner |-> c, kind |-> "publish0"]
    BY <2>5
  <2>8. Unacked' = Unacked
    BY <2>2, <2>4, <2>7 DEF Unacked
  <2>9. Service!GoOnline
    BY <1>2, <2>6, <2>8 DEF Service!GoOnline, Unacked, Online
  <2>10. QED
    BY <1>4, <2>9 DEF Service!Next
<1>7. QED
  BY <1>5, <1>6

\* The rest of the agent moves structures between places the service does not tell apart
LEMMA AgentMovesRefine ==
    ASSUME AgentInv, Placed',
           \/ SocketReadable \/ TransportConnect \/ ReceiveCommand \/ ReceiveNothing
           \/ ProcessLoopDone \/ ProcessLoopFails \/ UNCHANGED vars
    PROVE  UNCHANGED Service!vars /\ Filed'
<1>1. UNCHANGED <<pool, cmd, pending, pc, held, reply>> /\ Online' = Online
  BY DEF SocketReadable, TransportConnect, ReceiveCommand, ReceiveNothing, ProcessLoopDone,
         ProcessLoopFails, vars, agentVars, wireVars, clientVars, Online
<1>2. UNCHANGED AwaitingAck
  BY <1>1 DEF AwaitingAck, PendingIds
<1>3. Live' = Live
  BY <1>1, LiveRest, LiveRestNext DEF AgentInv, Held
<1>4. Filed'
  BY <1>1, <1>2, FiledFrame DEF AgentInv
<1>5. QED
  BY <1>1, <1>2, <1>3, <1>4, SameService

LEMMA AgentStepRefines ==
    AgentInv /\ Placed' /\ [Next]_vars => [Service!Next]_(Service!vars) /\ Filed'
<1> SUFFICES ASSUME AgentInv, Placed', [Next]_vars
             PROVE  [Service!Next]_(Service!vars) /\ Filed'
  OBVIOUS
<1>1. ASSUME NEW c \in Clients, ClientStep(c) PROVE [Service!Next]_(Service!vars) /\ Filed'
  BY <1>1, ClientRefines, ClientKeepsFiled
<1>2. ASSUME NEW id \in PacketIds, Acknowledge(id) PROVE [Service!Next]_(Service!vars) /\ Filed'
  BY <1>2, AckRefines
<1>3. ASSUME NEW sent \in BOOLEAN, Execute(sent) PROVE [Service!Next]_(Service!vars) /\ Filed'
  BY <1>3, ExecuteRefines
<1>4. ASSUME \/ ConnectFails \/ ConnectClean \/ ConnectResubscribe
             \/ \E present \in BOOLEAN : ConnectResumed(present)
      PROVE  [Service!Next]_(Service!vars) /\ Filed'
  BY <1>4, ConnectRefines
<1>5. CASE CancelQueued
  BY <1>5, CancelQueuedRefines
<1>6. CASE CancelPending
  BY <1>6, CancelPendingRefines DEF Filed
<1>7. ASSUME \/ SocketReadable \/ TransportConnect \/ ReceiveCommand \/ ReceiveNothing
             \/ ProcessLoopDone \/ ProcessLoopFails \/ UNCHANGED vars
      PROVE  [Service!Next]_(Service!vars) /\ Filed'
  BY <1>7, AgentMovesRefine
<1>8. QED
  BY <1>1, <1>2, <1>3, <1>4, <1>5, <1>6, <1>7 DEF Next, AgentStep

\* mqtt_agent_task.c, its command pool and coreMQTT-Agent together do what CommandService
\* promises to their callers: each step of the agent is a step of the service or none, for
\* any number of tasks, structures, packet ids and acknowledgments.
THEOREM AgentImplementsService == Spec => ImplementsService
<1>1. Init => Filed
  BY DEF Init, Filed, AwaitingAck, PendingIds
<1>2. Spec => [](TypeInv /\ Placed /\ Answering)
  BY AlwaysTypeInv, AlwaysPlacedAnswering, PTL
<1>3. TypeInv /\ Placed /\ Answering /\ (TypeInv /\ Placed /\ Answering)' /\ Filed /\ [Next]_vars
        => Filed' /\ [Service!Next]_(Service!vars)
  BY AgentStepRefines DEF AgentInv
<1>4. Spec => Service!Init /\ [][Service!Next]_(Service!vars)
  BY <1>1, <1>2, <1>3, ServiceInit, PTL DEF Spec
<1>5. QED
  BY <1>4 DEF ImplementsService, Service!Spec

=============================================================================
