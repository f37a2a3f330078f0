------------------------- MODULE CommandEventsProofs --------------------------
(***************************************************************************)
(* Safety of commands and their acknowledgments, for event queues of any   *)
(* length and any number of commands, checked by TLAPS.                    *)
(***************************************************************************)
EXTENDS CommandEvents, SequenceTheorems, FiniteSetTheorems, TLAPS

-----------------------------------------------------------------------------
(* The inductive invariant.                                                *)

Event == [command : Nat, mask : SUBSET Leds, on : BOOLEAN]

QueueTyped == events \in Seq(Event) /\ Len(events) <= EventQueueLength

\* A command is in hand only while its acknowledgment is being published; where
\* vIoTConnectDemoTask waits for the next event, or publishes telemetry, none is
HandInProgress == demoAt # "ack" => hand = 0

\* prvDemoCommandCallback numbers from 1; 0 stands for no command
NumberedFromOne == commands \in Nat /\ 0 \notin asked

AckInv == QueueTyped /\ HandInProgress /\ NumberedFromOne /\ AckAccounted

-----------------------------------------------------------------------------
(* The event queue.                                                        *)

LEMMA AppendQueues ==
    ASSUME NEW queue \in Seq(Event), NEW e \in Event
    PROVE  /\ Append(queue, e) \in Seq(Event) /\ Len(Append(queue, e)) = Len(queue) + 1
           /\ {Append(queue, e)[i].command : i \in DOMAIN Append(queue, e)}
                = {queue[i].command : i \in DOMAIN queue} \cup {e.command}
<1>1. /\ Append(queue, e) \in Seq(Event) /\ Len(Append(queue, e)) = Len(queue) + 1
      /\ \A i \in 1..Len(queue) : Append(queue, e)[i] = queue[i]
      /\ Append(queue, e)[Len(queue) + 1] = e
  BY AppendProperties
<1>2. /\ DOMAIN queue = 1..Len(queue) /\ Len(queue) \in Nat
      /\ DOMAIN Append(queue, e) = 1..(Len(queue) + 1)
  BY <1>1
<1>3. \A i : i \in 1..(Len(queue) + 1) <=> i \in 1..Len(queue) \/ i = Len(queue) + 1
  BY <1>2
<1>4. \A c : c \in {Append(queue, e)[i].command : i \in DOMAIN Append(queue, e)}
              <=> c \in {queue[i].command : i \in DOMAIN queue} \cup {e.command}
  BY <1>1, <1>2, <1>3
<1>5. QED
  BY <1>1, <1>4

LEMMA TailTakesHead ==
    ASSUME NEW queue \in Seq(Event), queue # << >>
    PROVE  /\ Tail(queue) \in Seq(Event) /\ Len(Tail(queue)) <= Len(queue)
           /\ Head(queue) \in Event
           /\ {queue[i].command : i \in DOMAIN queue}
                = {Tail(queue)[i].command : i \in DOMAIN Tail(queue)} \cup {Head(queue).command}
<1>1. /\ Tail(queue) \in Seq(Event) /\ Len(Tail(queue)) = Len(queue) - 1
      /\ \A i \in 1..Len(Tail(queue)) : Tail(queue)[i] = queue[i + 1]
      /\ Head(queue) \in Event
  BY HeadTailProperties
<1>2. /\ Len(queue) \in Nat \ {0} /\ Head(queue) = queue[1]
      /\ DOMAIN queue = 1..Len(queue) /\ DOMAIN Tail(queue) = 1..(Len(queue) - 1)
  BY <1>1
<1>3. \A i \in 1..Len(queue) : i = 1 \/ (i - 1 \in 1..(Len(queue) - 1) /\ i = (i - 1) + 1)
  BY <1>2
<1>4. \A i \in 1..(Len(queue) - 1) : i + 1 \in 1..Len(queue)
  BY <1>2
<1>5. 1 \in 1..Len(queue)
  BY <1>2
<1>6. ASSUME NEW i \in DOMAIN queue
      PROVE  queue[i].command
               \in {Tail(queue)[j].command : j \in DOMAIN Tail(queue)} \cup {Head(queue).command}
  <2>1. CASE i = 1
    BY <1>2, <2>1
  <2>2. CASE i # 1
    <3>1. i - 1 \in DOMAIN Tail(queue) /\ Tail(queue)[i - 1] = queue[i]
      BY <1>1, <1>2, <1>3, <2>2
    <3>2. QED
      BY <3>1
  <2>3. QED
    BY <2>1, <2>2
<1>7. ASSUME NEW j \in DOMAIN Tail(queue)
      PROVE  Tail(queue)[j].command \in {queue[i].command : i \in DOMAIN queue}
  BY <1>1, <1>2, <1>4
<1>8. Head(queue).command \in {queue[i].command : i \in DOMAIN queue}
  BY <1>2, <1>5
<1>9. QED
  BY <1>1, <1>6, <1>7, <1>8

-----------------------------------------------------------------------------

LEMMA AckInvInit == EventsInit => AckInv
BY EventsAssumption DEF EventsInit, AckInv, QueueTyped, HandInProgress, NumberedFromOne,
   AckAccounted, Queued

\* A step that touches neither commands nor acknowledgments
LEMMA OthersKeep ==
    ASSUME AckInv, UNCHANGED <<cloudVars, events, offline, ackedCommands, hand>>,
           demoAt' = "ack" <=> demoAt = "ack"
    PROVE  AckInv'
BY DEF AckInv, QueueTyped, HandInProgress, NumberedFromOne, AckAccounted, Queued, cloudVars

\* The command goes into the queue, or is counted as lost
LEMMA ArrivalKeeps == ASSUME AckInv, CommandArrives PROVE AckInv'
<1> DEFINE c == commands + 1
<1>1. PICK mask \in Masks \cup {{}}, on \in BOOLEAN, ack \in BOOLEAN :
        /\ asked' = IF ack THEN asked \cup {c} ELSE asked
        /\ IF Len(events) < EventQueueLength
           THEN /\ events' = Append(events, [command |-> c, mask |-> mask, on |-> on])
                /\ UNCHANGED overflow
           ELSE overflow' = overflow \cup {c} /\ UNCHANGED events
  BY DEF CommandArrives, QueuedLast
<1>2. /\ commands' = c /\ c \in Nat \ {0} /\ asked' \subseteq asked \cup {c}
      /\ UNCHANGED <<demoAt, hand, offline, ackedCommands>>
  BY <1>1 DEF CommandArrives, AckInv, NumberedFromOne, brokerVars
<1>3. HandInProgress' /\ NumberedFromOne'
  BY <1>2 DEF AckInv, HandInProgress, NumberedFromOne
<1> DEFINE e == [command |-> c, mask |-> mask, on |-> on]
<1>4. CASE Len(events) < EventQueueLength
  <2>1. e \in Event /\ e.command = c
    BY <1>2, EventsAssumption DEF Event
  <2>2. events' = Append(events, e) /\ UNCHANGED overflow
    BY <1>1, <1>4
  <2> HIDE DEF e
  <2>3. QueueTyped'
    BY <1>4, <2>1, <2>2, AppendQueues, EventsAssumption DEF AckInv, QueueTyped
  <2>4. Queued' = Queued \cup {c}
    BY <2>1, <2>2, AppendQueues DEF AckInv, QueueTyped, Queued
  <2>5. AckAccounted'
    BY <1>2, <2>2, <2>4 DEF AckInv, AckAccounted
  <2>6. QED
    BY <1>3, <2>3, <2>5 DEF AckInv
<1>5. CASE ~(Len(events) < EventQueueLength)
  <2>1. UNCHANGED events /\ overflow' = overflow \cup {c}
    BY <1>1, <1>5
  <2>2. QueueTyped' /\ Queued' = Queued
    BY <2>1 DEF AckInv, QueueTyped, Queued
  <2>3. AckAccounted'
    BY <1>2, <2>1, <2>2 DEF AckInv, AckAccounted
  <2>4. QED
    BY <1>3, <2>2, <2>3 DEF AckInv
<1>6. QED
  BY <1>4, <1>5

\* The command at the head goes into hand, is given up, or asks for no acknowledgment
LEMMA TakingKeeps == ASSUME AckInv, TakesEvent PROVE AckInv'
<1> DEFINE e == Head(events)
<1>1. /\ demoAt = "receive" /\ hand = 0 /\ events # << >> /\ events' = Tail(events)
      /\ UNCHANGED <<cloudVars, ackedCommands>>
      /\ IF e.command \in asked /\ online
         THEN demoAt' = "ack" /\ hand' = e.command /\ UNCHANGED offline
         ELSE /\ demoAt' = "button" /\ UNCHANGED hand
              /\ offline' = IF e.command \in asked THEN offline \cup {e.command} ELSE offline
  BY DEF TakesEvent, AckInv, HandInProgress, brokerVars
<1>2. QueueTyped' /\ Queued = Queued' \cup {e.command}
  <2>1. /\ events \in Seq(Event) /\ Len(events) \in Nat /\ Len(events) <= EventQueueLength
        /\ events' \in Seq(Event) /\ Len(events') \in Nat /\ Len(events') <= Len(events)
    BY <1>1, TailTakesHead DEF AckInv, QueueTyped
  <2>2. QueueTyped'
    BY <2>1, EventsAssumption DEF QueueTyped
  <2>3. Queued = {events'[i].command : i \in DOMAIN events'} \cup {e.command}
    BY <1>1, <2>1, TailTakesHead DEF Queued
  <2>4. QED
    BY <2>2, <2>3 DEF Queued
<1>3. HandInProgress' /\ NumberedFromOne'
  BY <1>1 DEF AckInv, HandInProgress, NumberedFromOne, cloudVars
<1>4. AckAccounted'
  BY <1>1, <1>2 DEF AckInv, AckAccounted, NumberedFromOne, cloudVars
<1>5. QED
  BY <1>2, <1>3, <1>4 DEF AckInv

\* What leaves the hand is with the broker
LEMMA BrokerKeeps ==
    ASSUME AckInv, BrokerTakes, UNCHANGED <<cloudVars, events, offline>>,
           Returns \/ UNCHANGED <<demoAt, hand>>
    PROVE  AckInv'
<1>1. CASE demoAt = "ack"
  <2>1. ackedCommands' = ackedCommands \cup {hand} /\ (hand' = 0 \/ UNCHANGED hand)
    BY <1>1 DEF BrokerTakes, Returns
  <2>2. QueueTyped' /\ NumberedFromOne' /\ AckAccounted'
    BY <2>1 DEF AckInv, QueueTyped, NumberedFromOne, AckAccounted, Queued, cloudVars
  <2>3. HandInProgress'
    BY <1>1 DEF AckInv, HandInProgress, Returns
  <2>4. QED
    BY <2>2, <2>3 DEF AckInv
<1>2. CASE demoAt # "ack"
  <2>1. hand = 0 /\ UNCHANGED ackedCommands /\ UNCHANGED hand /\ demoAt' # "ack"
    BY <1>2 DEF BrokerTakes, Returns, AckInv, HandInProgress
  <2>2. QED
    BY <1>2, <2>1, OthersKeep
<1>3. QED
  BY <1>1, <1>2

LEMMA AckInvStep == AckInv /\ [EventsNext]_eventVars => AckInv'
<1> SUFFICES ASSUME AckInv, [EventsNext]_eventVars PROVE AckInv'
  OBVIOUS
<1>1. CASE CommandArrives
  BY <1>1, ArrivalKeeps
<1>2. CASE ButtonEdge \/ Connection
  BY <1>2, OthersKeep DEF ButtonEdge, Connection, brokerVars
<1>3. CASE AckIsLost
  BY <1>3, BrokerKeeps DEF AckIsLost
<1>4. CASE BeginsTelemetry
  BY <1>4, OthersKeep DEF BeginsTelemetry, brokerVars
<1>5. CASE DemoStep
  <2>1. CASE TakesEvent
    BY <2>1, TakingKeeps
  <2>2. CASE PublishSucceeds
    BY <2>2, BrokerKeeps DEF PublishSucceeds
  <2>3. CASE FindsNoEvent \/ Posts \/ PublishFails \/ ReadsButton \/ SkipsTelemetry
    BY <2>3, OthersKeep
       DEF FindsNoEvent, Posts, PublishFails, ReadsButton, SkipsTelemetry, brokerVars
  <2>4. QED
    BY <1>5, <2>1, <2>2, <2>3 DEF DemoStep, DemoTurn, PublishTurn
<1>6. CASE UNCHANGED eventVars
  BY <1>6, OthersKeep DEF eventVars, brokerVars
<1>7. QED
  BY <1>1, <1>2, <1>3, <1>4, <1>5, <1>6 DEF EventsNext

\* A command that asks for an acknowledgment is never forgotten on its way from the callback
\* over the queue to the publish: it is acknowledged, or was given up where the queue was
\* full or the agent was not connected.
THEOREM NoAckForgotten == EventsSpec => []AckAccounted
<1>1. EventsInit => AckInv
  BY AckInvInit
<1>2. AckInv /\ [EventsNext]_eventVars => AckInv'
  BY AckInvStep
<1>3. AckInv => AckAccounted
  BY DEF AckInv
<1>4. QED
  BY <1>1, <1>2, <1>3, PTL DEF EventsSpec

-----------------------------------------------------------------------------
(* The types.                                                              *)

SwitchesTyped ==
    /\ online \in BOOLEAN /\ posted \in BOOLEAN /\ button \in BOOLEAN
    /\ buttonBit \in BOOLEAN /\ pressed \in BOOLEAN /\ telemetryDue \in BOOLEAN
    /\ led \in [Leds -> BOOLEAN]
    /\ reported \in {<< >>} \cup [led : [Leds -> BOOLEAN], pressed : BOOLEAN]
    /\ demoAt \in {"receive", "ack", "button", "decide", "telemetry"}

\* The commands named anywhere are commands that have arrived
CommandsNumbered ==
    /\ commands \in 0..MaxCommands /\ edges \in 0..MaxEdges
    /\ asked \subseteq 1..commands /\ overflow \subseteq 1..commands
    /\ offline \subseteq 1..commands /\ ackedCommands \subseteq 1..commands
    /\ \A i \in 1..Len(events) : events[i].command \in 1..commands
    /\ demoAt = "ack" => hand \in 1..commands

LEMMA TypesFromParts == AckInv /\ SwitchesTyped /\ CommandsNumbered => EventsTypeOK
<1> SUFFICES ASSUME AckInv, SwitchesTyped, CommandsNumbered PROVE EventsTypeOK
  OBVIOUS
<1>1. {online, posted, button, buttonBit, pressed, telemetryDue} \subseteq BOOLEAN
  BY Zenon DEF SwitchesTyped
<1>2. UNION {asked, overflow, offline, ackedCommands} \subseteq 1..commands
  BY DEF CommandsNumbered
<1>3. ASSUME NEW i \in DOMAIN events
      PROVE  events[i] \in [command : 1..commands, mask : SUBSET Leds, on : BOOLEAN]
  <2>1. i \in 1..Len(events) /\ events[i] \in Event
    BY DEF AckInv, QueueTyped
  <2>2. events[i].command \in 1..commands
    BY <2>1 DEF CommandsNumbered
  <2>3. QED
    BY <2>1, <2>2 DEF Event
<1>4. hand \in 0..commands
  BY DEF AckInv, HandInProgress, CommandsNumbered
<1>5. Len(events) <= EventQueueLength
  BY DEF AckInv, QueueTyped
<1>6. QED
  BY <1>1, <1>2, <1>3, <1>4, <1>5, Zenon DEF EventsTypeOK, SwitchesTyped, CommandsNumbered

LEMMA SwitchesStep == AckInv /\ SwitchesTyped /\ [EventsNext]_eventVars => SwitchesTyped'
<1> SUFFICES ASSUME AckInv, SwitchesTyped, [EventsNext]_eventVars PROVE SwitchesTyped'
  OBVIOUS
<1>0. DeviceState \in [led : [Leds -> BOOLEAN], pressed : BOOLEAN]
  BY Zenon DEF SwitchesTyped, DeviceState
<1> USE DEF SwitchesTyped, cloudVars, buttonVars, brokerVars
<1>1. CASE CommandArrives
  BY <1>1, Zenon DEF CommandArrives
<1>2. CASE ButtonEdge \/ Connection
  BY <1>2, Zenon DEF ButtonEdge, Connection
<1>3. CASE AckIsLost
  BY <1>0, <1>3, Zenon DEF AckIsLost, BrokerTakes
<1>4. CASE BeginsTelemetry
  BY <1>4, Zenon DEF BeginsTelemetry
<1>5. CASE TakesEvent
  <2>1. Head(events) \in Event
    BY <1>5, TailTakesHead DEF TakesEvent, AckInv, QueueTyped
  <2>2. Head(events).on \in BOOLEAN
    BY <2>1, Zenon DEF Event
  <2>3. led' \in [Leds -> BOOLEAN]
    BY <1>5, <2>2, Zenon DEF TakesEvent
  <2>4. demoAt' \in {"ack", "button"} /\ telemetryDue' \in BOOLEAN /\ posted' \in BOOLEAN
    BY <1>5, Zenon DEF TakesEvent
  <2>5. QED
    BY <1>5, <2>3, <2>4, Zenon DEF TakesEvent
<1>6. CASE PublishSucceeds
  BY <1>0, <1>6, Zenon DEF PublishSucceeds, BrokerTakes, Returns
<1>7. CASE FindsNoEvent \/ Posts \/ PublishFails \/ ReadsButton \/ SkipsTelemetry
  BY <1>7, Zenon DEF FindsNoEvent, Posts, PublishFails, ReadsButton, SkipsTelemetry
<1>8. CASE UNCHANGED eventVars
  BY <1>8, Zenon DEF eventVars
<1>9. QED
  BY <1>1, <1>2, <1>3, <1>4, <1>5, <1>6, <1>7, <1>8 DEF EventsNext, DemoStep, DemoTurn, PublishTurn

LEMMA NumbersArrive ==
    ASSUME AckInv, CommandsNumbered, CommandArrives
    PROVE  CommandsNumbered'
<1> DEFINE c == commands + 1
<1>1. PICK mask \in Masks \cup {{}}, on \in BOOLEAN, ack \in BOOLEAN :
        /\ asked' = IF ack THEN asked \cup {c} ELSE asked
        /\ IF Len(events) < EventQueueLength
           THEN /\ events' = Append(events, [command |-> c, mask |-> mask, on |-> on])
                /\ UNCHANGED overflow
           ELSE overflow' = overflow \cup {c} /\ UNCHANGED events
  BY DEF CommandArrives, QueuedLast
<1>2. /\ commands' = c /\ c \in 1..MaxCommands /\ 1..commands \subseteq 1..c /\ c \in 1..c
      /\ UNCHANGED <<demoAt, hand, offline, ackedCommands, edges>>
  BY EventsAssumption DEF CommandArrives, CommandsNumbered, brokerVars, buttonVars
<1>3. asked' \subseteq 1..c /\ overflow' \subseteq 1..c
  BY <1>1, <1>2 DEF CommandsNumbered
<1>4. \A i \in 1..Len(events') : events'[i].command \in 1..c
  <2> DEFINE e == [command |-> c, mask |-> mask, on |-> on]
  <2>1. CASE Len(events) < EventQueueLength
    <3>1. e \in Event /\ e.command = c
      BY <1>2, EventsAssumption DEF Event
    <3>2. events' = Append(events, e)
      BY <1>1, <2>1
    <3> HIDE DEF e
    <3>3. /\ Len(events') = Len(events) + 1 /\ Len(events) \in Nat
          /\ \A i \in 1..Len(events) : events'[i] = events[i]
          /\ events'[Len(events) + 1] = e
      BY <3>1, <3>2, AppendProperties DEF AckInv, QueueTyped
    <3>4. \A i \in 1..(Len(events) + 1) : i \in 1..Len(events) \/ i = Len(events) + 1
      BY <3>3
    <3>5. QED
      BY <1>2, <3>1, <3>3, <3>4 DEF CommandsNumbered
  <2>2. CASE ~(Len(events) < EventQueueLength)
    BY <1>1, <1>2, <2>2 DEF CommandsNumbered
  <2>3. QED
    BY <2>1, <2>2
<1>5. QED
  BY <1>2, <1>3, <1>4 DEF CommandsNumbered

LEMMA NumbersTaken ==
    ASSUME AckInv, CommandsNumbered, TakesEvent
    PROVE  CommandsNumbered'
<1> DEFINE e == Head(events)
<1>1. /\ events # << >> /\ events' = Tail(events)
      /\ UNCHANGED <<commands, edges, asked, overflow, ackedCommands>>
      /\ IF e.command \in asked /\ online
         THEN demoAt' = "ack" /\ hand' = e.command /\ UNCHANGED offline
         ELSE /\ demoAt' = "button" /\ UNCHANGED hand
              /\ offline' = IF e.command \in asked THEN offline \cup {e.command} ELSE offline
  BY DEF TakesEvent, cloudVars, buttonVars, brokerVars
<1>2. /\ Len(events) \in Nat \ {0} /\ Len(events') = Len(events) - 1 /\ e = events[1]
      /\ \A i \in 1..Len(events') : events'[i] = events[i + 1]
  BY <1>1, HeadTailProperties DEF AckInv, QueueTyped
<1>3. /\ 1 \in 1..Len(events)
      /\ \A i \in 1..Len(events') : i + 1 \in 1..Len(events)
  BY <1>2
<1>4. e.command \in 1..commands /\ \A i \in 1..Len(events') : events'[i].command \in 1..commands
  BY <1>2, <1>3 DEF CommandsNumbered
<1>5. QED
  BY <1>1, <1>4 DEF CommandsNumbered

LEMMA NumbersKept ==
    ASSUME CommandsNumbered, UNCHANGED <<cloudVars, events, offline>>, edges' \in 0..MaxEdges,
           demoAt' = "ack" => demoAt = "ack" /\ UNCHANGED hand,
           \/ UNCHANGED ackedCommands
           \/ demoAt = "ack" /\ ackedCommands' = ackedCommands \cup {hand}
    PROVE  CommandsNumbered'
BY DEF CommandsNumbered, cloudVars

LEMMA CommandsStep ==
    AckInv /\ CommandsNumbered /\ [EventsNext]_eventVars => CommandsNumbered'
<1> SUFFICES ASSUME AckInv, CommandsNumbered, [EventsNext]_eventVars PROVE CommandsNumbered'
  OBVIOUS
<1>0. edges \in 0..MaxEdges
  BY DEF CommandsNumbered
<1>1. CASE CommandArrives
  BY <1>1, NumbersArrive
<1>2. CASE ButtonEdge
  <2>1. edges' \in 0..MaxEdges
    BY <1>2, <1>0, EventsAssumption DEF ButtonEdge
  <2>2. QED
    BY <1>2, <2>1, NumbersKept DEF ButtonEdge, brokerVars
<1>3. CASE AckIsLost
  BY <1>3, <1>0, NumbersKept DEF AckIsLost, BrokerTakes, buttonVars
<1>4. CASE PublishSucceeds
  BY <1>4, <1>0, NumbersKept DEF PublishSucceeds, BrokerTakes, Returns, buttonVars
<1>5. CASE TakesEvent
  BY <1>5, NumbersTaken
<1>6. CASE Connection \/ BeginsTelemetry \/ FindsNoEvent \/ Posts \/ PublishFails \/ ReadsButton
           \/ SkipsTelemetry
  BY <1>6, <1>0, NumbersKept
     DEF Connection, BeginsTelemetry, FindsNoEvent, Posts, PublishFails, ReadsButton,
         SkipsTelemetry, brokerVars, buttonVars
<1>7. CASE UNCHANGED eventVars
  BY <1>7, <1>0, NumbersKept DEF eventVars, brokerVars, buttonVars
<1>8. QED
  BY <1>1, <1>2, <1>3, <1>4, <1>5, <1>6, <1>7 DEF EventsNext, DemoStep, DemoTurn, PublishTurn

EventsInv == AckInv /\ SwitchesTyped /\ CommandsNumbered

LEMMA EventsInvInit == EventsInit => EventsInv
<1> SUFFICES ASSUME EventsInit PROVE EventsInv
  OBVIOUS
<1>1. SwitchesTyped
  BY Zenon DEF EventsInit, SwitchesTyped
<1>2. CommandsNumbered
  BY EventsAssumption DEF EventsInit, CommandsNumbered
<1>3. QED
  BY <1>1, <1>2, AckInvInit DEF EventsInv

LEMMA EventsInvStep == EventsInv /\ [EventsNext]_eventVars => EventsInv'
BY AckInvStep, SwitchesStep, CommandsStep DEF EventsInv

\* The queue never holds more than IOTCONNECT_EVENT_QUEUE_LENGTH events, and every command
\* that the queue, the task or the broker knows of is one that has arrived.
THEOREM EventsTypeCorrect == EventsSpec => []EventsTypeOK
<1>1. EventsInv => EventsTypeOK
  BY TypesFromParts DEF EventsInv
<1>2. QED
  BY <1>1, EventsInvInit, EventsInvStep, PTL DEF EventsSpec

-----------------------------------------------------------------------------
(* The refinement of CommandLedger.  Its set of waiting commands is the    *)
(* queue, which can be said of the set only because the queue holds each   *)
(* command once and in the order of arrival.                               *)

InOrder == \A i, j \in 1..Len(events) : i < j => events[i].command < events[j].command

LEMMA OrderArrives ==
    ASSUME EventsInv, InOrder, CommandArrives
    PROVE  InOrder'
<1> USE DEF EventsInv, AckInv
<1> DEFINE c == commands + 1
<1>1. PICK mask \in Masks \cup {{}}, on \in BOOLEAN :
        \/ events' = Append(events, [command |-> c, mask |-> mask, on |-> on])
        \/ UNCHANGED events
  BY DEF CommandArrives, QueuedLast
<1> DEFINE e == [command |-> c, mask |-> mask, on |-> on]
<1>2. c \in Nat /\ \A i \in 1..Len(events) : events[i].command \in Nat /\ events[i].command < c
  BY DEF CommandsNumbered, NumberedFromOne
<1>3. CASE events' = Append(events, e)
  <2>1. e \in Event /\ e.command = c
    BY <1>2, EventsAssumption DEF Event
  <2> HIDE DEF e
  <2>2. /\ Len(events') = Len(events) + 1 /\ Len(events) \in Nat
        /\ \A i \in 1..Len(events) : events'[i] = events[i]
        /\ events'[Len(events) + 1] = e
    BY <1>3, <2>1, AppendProperties DEF QueueTyped
  <2>3. \A i, j \in 1..(Len(events) + 1) :
          i < j => i \in 1..Len(events) /\ (j \in 1..Len(events) \/ j = Len(events) + 1)
    BY <2>2
  <2>4. QED
    BY <1>2, <2>1, <2>2, <2>3 DEF InOrder
<1>4. CASE UNCHANGED events
  BY <1>4 DEF InOrder
<1>5. QED
  BY <1>1, <1>3, <1>4

\* The head is the first of those that wait, and the tail is the others
LEMMA HeadIsFirst ==
    ASSUME EventsInv, InOrder, events # << >>, events' = Tail(events)
    PROVE  /\ InOrder'
           /\ Head(events).command \in Queued
           /\ \A d \in Queued : Head(events).command <= d
           /\ Queued' = Queued \ {Head(events).command}
<1> USE DEF EventsInv, AckInv
<1>1. /\ Len(events) \in Nat \ {0} /\ Len(events') = Len(events) - 1 /\ Head(events) = events[1]
      /\ \A i \in 1..Len(events') : events'[i] = events[i + 1]
      /\ DOMAIN events = 1..Len(events) /\ DOMAIN events' = 1..Len(events')
  BY HeadTailProperties DEF QueueTyped
<1>2. \A i \in 1..Len(events') : i + 1 \in 1..Len(events) /\ 1 < i + 1
  BY <1>1
<1>3. \A i, j \in 1..Len(events') : i < j => i + 1 < j + 1
  BY <1>1
<1>4. InOrder'
  BY <1>1, <1>2, <1>3 DEF InOrder
<1>5. \A i \in 1..Len(events) : events[i].command \in Nat
  BY DEF CommandsNumbered, NumberedFromOne
<1>6. 1 \in 1..Len(events) /\ \A i \in 1..Len(events) : i = 1 \/ 1 < i
  BY <1>1
<1>7. \A d \in Queued : Head(events).command <= d
  BY <1>1, <1>5, <1>6 DEF InOrder, Queued
<1>8. Queued = Queued' \cup {Head(events).command}
  BY <1>1, TailTakesHead DEF QueueTyped, Queued
<1>9. Head(events).command \notin Queued'
  <2>1. \A i \in 1..Len(events') : events'[i].command \in Nat /\ events[1].command \in Nat
                                   /\ events[1].command < events'[i].command
    BY <1>1, <1>2, <1>5, <1>6 DEF InOrder
  <2>2. QED
    BY <1>1, <2>1 DEF Queued
<1>10. QED
  BY <1>4, <1>7, <1>8, <1>9

LEMMA OneEntryPerCommand ==
    ASSUME EventsInv, InOrder
    PROVE  Cardinality(Queued) = Len(events)
<1> USE DEF EventsInv, AckInv
<1> DEFINE f == [i \in 1..Len(events) |-> events[i].command]
<1>1. Len(events) \in Nat /\ DOMAIN events = 1..Len(events)
  BY DEF QueueTyped
<1>2. \A i, j \in 1..Len(events) : events[i].command = events[j].command => i = j
  <2>1. \A i \in 1..Len(events) : events[i].command \in Nat
    BY DEF CommandsNumbered, NumberedFromOne
  <2>2. \A i, j \in 1..Len(events) : i < j \/ j < i \/ i = j
    BY <1>1
  <2>3. QED
    BY <2>1, <2>2 DEF InOrder
<1>3. f \in [1..Len(events) -> Queued]
  BY <1>1 DEF Queued
<1>4. \A c \in Queued : \E i \in 1..Len(events) : f[i] = c
  BY <1>1 DEF Queued
<1>5. f \in Bijection(1..Len(events), Queued)
  BY <1>2, <1>3, <1>4 DEF Bijection, Injection, IsInjective, Surjection
<1>6. QED
  BY <1>1, <1>5, FS_CountingElements DEF ExistsBijection

LEMMA OrderStep == EventsInv /\ InOrder /\ [EventsNext]_eventVars => InOrder'
<1> SUFFICES ASSUME EventsInv, InOrder, [EventsNext]_eventVars PROVE InOrder'
  OBVIOUS
<1>1. CASE CommandArrives
  BY <1>1, OrderArrives
<1>2. CASE TakesEvent
  BY <1>2, HeadIsFirst DEF TakesEvent
<1>3. CASE UNCHANGED events
  BY <1>3 DEF InOrder
<1>4. QED
  BY <1>1, <1>2, <1>3
     DEF EventsNext, DemoStep, DemoTurn, PublishTurn, ButtonEdge, Connection, AckIsLost,
         BeginsTelemetry, FindsNoEvent, Posts, PublishSucceeds, PublishFails, ReadsButton,
         SkipsTelemetry, eventVars

\* Both modules count with the same definition
LEMMA LedgerCounts == \A S : Ledger!Cardinality(S) = Cardinality(S)
BY DEF Ledger!Cardinality, Cardinality

LEMMA ArrivalRefines ==
    ASSUME EventsInv, InOrder, CommandArrives
    PROVE  Ledger!Arrive
<1> USE DEF EventsInv, AckInv
<1> DEFINE c == commands + 1
<1>1. PICK mask \in Masks \cup {{}}, on \in BOOLEAN, ack \in BOOLEAN :
        /\ asked' = IF ack THEN asked \cup {c} ELSE asked
        /\ IF Len(events) < EventQueueLength
           THEN /\ events' = Append(events, [command |-> c, mask |-> mask, on |-> on])
                /\ UNCHANGED overflow
           ELSE overflow' = overflow \cup {c} /\ UNCHANGED events
  BY DEF CommandArrives, QueuedLast
<1>2. /\ online /\ commands' = c /\ asked' \in {asked, asked \cup {c}}
      /\ UNCHANGED <<online, hand, offline, ackedCommands>>
  BY <1>1 DEF CommandArrives, brokerVars
<1>3. Ledger!Cardinality(Queued) < EventQueueLength <=> Len(events) < EventQueueLength
  BY OneEntryPerCommand, LedgerCounts
<1>4. CASE Len(events) < EventQueueLength
  <2> DEFINE e == [command |-> c, mask |-> mask, on |-> on]
  <2>1. e \in Event /\ e.command = c
    BY <1>2, EventsAssumption DEF Event, CommandsNumbered, NumberedFromOne
  <2>2. events' = Append(events, e) /\ UNCHANGED overflow
    BY <1>1, <1>4
  <2> HIDE DEF e
  <2>3. Queued' = Queued \cup {c}
    BY <2>1, <2>2, AppendQueues DEF QueueTyped, Queued
  <2>4. QED
    BY <1>2, <1>3, <1>4, <2>2, <2>3 DEF Ledger!Arrive
<1>5. CASE ~(Len(events) < EventQueueLength)
  <2>1. overflow' = overflow \cup {c} /\ Queued' = Queued
    BY <1>1, <1>5 DEF Queued
  <2>2. QED
    BY <1>2, <1>3, <1>5, <2>1 DEF Ledger!Arrive
<1>6. QED
  BY <1>4, <1>5

LEMMA TakingRefines ==
    ASSUME EventsInv, InOrder, TakesEvent
    PROVE  Ledger!Handle
<1> USE DEF EventsInv, AckInv
<1>1. PICK c \in Queued : c = Head(events).command
  BY HeadIsFirst DEF TakesEvent
<1>2. /\ hand = 0
      /\ \A d \in Queued : c <= d
      /\ Queued' = Queued \ {c}
      /\ UNCHANGED <<commands, asked, overflow, ackedCommands, online>>
  BY <1>1, HeadIsFirst DEF TakesEvent, HandInProgress, cloudVars, brokerVars
<1>3. CASE c \in asked /\ online
  <2>1. hand' = c /\ UNCHANGED offline
    BY <1>1, <1>3 DEF TakesEvent
  <2>2. Ledger!TakeInHand(c)
    BY <1>2, <1>3, <2>1 DEF Ledger!TakeInHand
  <2>3. QED
    BY <1>2, <2>2 DEF Ledger!Handle
<1>4. CASE ~(c \in asked /\ online)
  <2>1. UNCHANGED hand /\ offline' = offline \cup (asked \cap {c})
    BY <1>1, <1>4 DEF TakesEvent
  <2>2. Ledger!PassOver(c)
    BY <1>2, <1>4, <2>1 DEF Ledger!PassOver
  <2>3. QED
    BY <1>2, <2>2 DEF Ledger!Handle
<1>5. QED
  BY <1>3, <1>4

\* A publish that gets through is the acknowledgment, or telemetry, of which the ledger sees
\* at most that the connection ends
LEMMA PublishRefines ==
    ASSUME EventsInv, PublishSucceeds \/ AckIsLost
    PROVE  Ledger!Next \/ UNCHANGED Ledger!vars
<1> USE DEF EventsInv, AckInv
<1>1. /\ online /\ BrokerTakes
      /\ UNCHANGED <<commands, asked, overflow, events, offline>> /\ Queued' = Queued
      /\ \/ Returns /\ UNCHANGED online
         \/ UNCHANGED hand /\ online' = FALSE
  BY DEF PublishSucceeds, AckIsLost, cloudVars, Queued
<1>2. CASE demoAt = "ack"
  <2>1. hand # 0 /\ ackedCommands' = ackedCommands \cup {hand}
    BY <1>1, <1>2 DEF BrokerTakes, CommandsNumbered
  <2>2. QED
    BY <1>1, <2>1 DEF Ledger!Next, Ledger!Acknowledge, Returns
<1>3. CASE demoAt # "ack"
  <2>1. UNCHANGED <<hand, ackedCommands>>
    BY <1>1, <1>3 DEF BrokerTakes, Returns, HandInProgress
  <2>2. QED
    BY <1>1, <2>1 DEF Ledger!Next, Ledger!Reconnect, Ledger!vars
<1>4. QED
  BY <1>2, <1>3

LEMMA LedgerInit == EventsInit => InOrder /\ Ledger!Init
BY DEF EventsInit, InOrder, Queued, Ledger!Init

LEMMA LedgerStep ==
    EventsInv /\ InOrder /\ [EventsNext]_eventVars => [Ledger!Next]_(Ledger!vars)
<1> SUFFICES ASSUME EventsInv, InOrder, [EventsNext]_eventVars
             PROVE  Ledger!Next \/ UNCHANGED Ledger!vars
  OBVIOUS
<1>1. CASE CommandArrives
  BY <1>1, ArrivalRefines DEF Ledger!Next
<1>2. CASE TakesEvent
  BY <1>2, TakingRefines DEF Ledger!Next
<1>3. CASE PublishSucceeds \/ AckIsLost
  BY <1>3, PublishRefines
<1>4. CASE Connection
  BY <1>4 DEF Connection, cloudVars, brokerVars, Queued, Ledger!Next, Ledger!Reconnect
<1>5. CASE ButtonEdge \/ BeginsTelemetry \/ FindsNoEvent \/ Posts \/ PublishFails \/ ReadsButton
           \/ SkipsTelemetry \/ UNCHANGED eventVars
  <2>1. UNCHANGED <<cloudVars, events, hand, offline, ackedCommands, online>>
    BY <1>5 DEF ButtonEdge, BeginsTelemetry, FindsNoEvent, Posts, PublishFails, ReadsButton,
                SkipsTelemetry, eventVars, brokerVars
  <2>2. QED
    BY <2>1 DEF Ledger!vars, cloudVars, Queued
<1>6. QED
  BY <1>1, <1>2, <1>3, <1>4, <1>5 DEF EventsNext, DemoStep, DemoTurn, PublishTurn

\* Commands are acknowledged in the order in which they arrived, each before the next is
\* looked at, and given up only on arrival at a full queue or in their turn without a
\* connection: whatever the length of the queue, and however often a publish is cancelled and
\* begun again.
THEOREM EventsImplementLedger == EventsSpec => ImplementsLedger
BY LedgerInit, EventsInvInit, EventsInvStep, OrderStep, LedgerStep, PTL
   DEF EventsSpec, ImplementsLedger, Ledger!Spec

=============================================================================
