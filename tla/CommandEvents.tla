---------------------------- MODULE CommandEvents -----------------------------
(***************************************************************************)
(* Commands from the cloud, and what the IOTCONNECT task makes of them.    *)
(* The agent's task parses a command while it holds the subscription mutex *)
(* and so only posts an event, without waiting; the IOTCONNECT task takes  *)
(* the events one by one, switches LEDs, publishes the acknowledgment, and *)
(* publishes telemetry when something has changed or five seconds have     *)
(* passed.  A publish is repeated until it succeeds, but not begun while   *)
(* the agent is not connected.                                             *)
(*                                                                         *)
(* Source: vIoTConnectDemoTask, its callbacks and                          *)
(* xIoTConnectPublishPayload in Appli/Common/app/iotconnect/               *)
(* iotconnect_runtime.c.                                                   *)
(*                                                                         *)
(* Commands that only ask for an acknowledgment (video, preview, OTA,      *)
(* malformed, unknown) are those with an empty mask.  The callbacks of the *)
(* sample mode, which know no others, are a part of this.                  *)
(***************************************************************************)
EXTENDS Naturals, Sequences

CONSTANTS
    EventQueueLength,  \* IOTCONNECT_EVENT_QUEUE_LENGTH
    Leds,              \* the LEDs of the board
    Masks,             \* the sets of LEDs commands name
    MaxCommands,       \* bound on the commands of the cloud
    MaxEdges           \* bound on the edges of the button

ASSUME EventsAssumption ==
    /\ EventQueueLength \in Nat \ {0}
    /\ Masks \subseteq SUBSET Leds
    /\ MaxCommands \in Nat
    /\ MaxEdges \in Nat

VARIABLES
    online,        \* xIsMqttAgentConnected()
    commands,      \* commands the cloud has sent so far
    asked,         \* (history) those of them that carry an acknowledgment id
    events,        \* xEventQueue
    overflow,      \* (history) commands dropped because it was full
    demoAt,        \* where vIoTConnectDemoTask is
    hand,          \* the command it handles, 0 for none
    posted,        \* its publish command is with the agent
    offline,       \* (history) acknowledgments not begun for want of a connection
    led,           \* xLedRedOn, xLedGreenOn
    button,        \* the pin
    edges,         \* edges of the button so far
    buttonBit,     \* IOTCONNECT_DEMO_BUTTON_EVENT
    pressed,       \* xButtonPressed
    telemetryDue,  \* xPublishTelemetry
    ackedCommands, \* acknowledgments the broker has got
    reported       \* the last telemetry the broker has got

cloudVars  == <<commands, asked, overflow>>
buttonVars == <<button, edges>>
brokerVars == <<ackedCommands, reported>>
eventVars  == <<online, cloudVars, events, demoAt, hand, posted, offline, led, buttonVars,
                buttonBit, pressed, telemetryDue, brokerVars>>

-----------------------------------------------------------------------------

DeviceState == [led |-> led, pressed |-> pressed]

EventsInit ==
    /\ online = TRUE
    /\ commands = 0 /\ asked = {} /\ events = << >> /\ overflow = {}
    /\ demoAt = "receive" /\ hand = 0 /\ posted = FALSE /\ offline = {}
    /\ led \in [Leds -> BOOLEAN]
    /\ button \in BOOLEAN /\ edges = 0 /\ pressed = button
    /\ buttonBit = TRUE /\ telemetryDue = TRUE
    /\ ackedCommands = {} /\ reported = << >>

-----------------------------------------------------------------------------
(* The agent's task, the cloud and the button. *)

\* (mutant) the event goes to the front of the queue
QueuedFirst(e) == <<e>> \o events

\* xQueueSendToBack
QueuedLast(e) == Append(events, e)

\* prvDemoCommandCallback, prvDemoOtaCallback: one event, or none when the queue is full
CommandArrives ==
    /\ online /\ commands < MaxCommands
    /\ LET c == commands + 1 IN
         /\ commands' = c
         /\ \E mask \in Masks \cup {{}}, on \in BOOLEAN, ack \in BOOLEAN :
              /\ mask = {} => ~on
              /\ asked' = IF ack THEN asked \cup {c} ELSE asked
              /\ IF Len(events) < EventQueueLength
                 THEN /\ events' = QueuedLast([command |-> c, mask |-> mask, on |-> on])
                      /\ UNCHANGED overflow
                 ELSE /\ overflow' = overflow \cup {c}
                      /\ UNCHANGED events
    /\ UNCHANGED <<online, demoAt, hand, posted, offline, led, buttonVars, buttonBit, pressed,
                   telemetryDue, brokerVars>>

\* prvDemoButtonEdgeCallback
ButtonEdge ==
    /\ edges < MaxEdges
    /\ edges' = edges + 1 /\ button' = ~button /\ buttonBit' = TRUE
    /\ UNCHANGED <<online, cloudVars, events, demoAt, hand, posted, offline, led, pressed,
                   telemetryDue, brokerVars>>

Connection ==
    /\ online' = ~online
    /\ UNCHANGED <<cloudVars, events, demoAt, hand, posted, offline, led, buttonVars, buttonBit,
                   pressed, telemetryDue, brokerVars>>

-----------------------------------------------------------------------------
(* The IOTCONNECT task. *)

\* prvHandleQueuedCommandEvent, up to the publish of the acknowledgment
TakesEvent ==
    /\ demoAt = "receive" /\ events # << >>
    /\ LET e == Head(events) IN
         /\ led' = [l \in Leds |-> IF l \in e.mask THEN e.on ELSE led[l]]
         /\ IF e.command \in asked /\ online
            THEN demoAt' = "ack" /\ hand' = e.command /\ UNCHANGED offline
            ELSE /\ demoAt' = "button" /\ UNCHANGED hand
                 /\ offline' = IF e.command \in asked THEN offline \cup {e.command} ELSE offline
         /\ telemetryDue' = (telemetryDue \/ e.mask # {})
    /\ events' = Tail(events)
    /\ posted' = FALSE
    /\ UNCHANGED <<online, cloudVars, buttonVars, buttonBit, pressed, brokerVars>>

\* xQueueReceive times out
FindsNoEvent ==
    /\ demoAt = "receive" /\ events = << >>
    /\ demoAt' = "button"
    /\ UNCHANGED <<online, cloudVars, events, hand, posted, offline, led, buttonVars, buttonBit,
                   pressed, telemetryDue, brokerVars>>

\* MQTTAgent_Publish
Posts ==
    /\ demoAt \in {"ack", "telemetry"} /\ ~posted
    /\ posted' = TRUE
    /\ UNCHANGED <<online, cloudVars, events, demoAt, hand, offline, led, buttonVars, buttonBit,
                   pressed, telemetryDue, brokerVars>>

BrokerTakes ==
    IF demoAt = "ack"
    THEN ackedCommands' = ackedCommands \cup {hand} /\ UNCHANGED reported
    ELSE reported' = DeviceState /\ UNCHANGED ackedCommands

\* Where xIoTConnectPublishPayload returns to
Returns == demoAt' = (IF demoAt = "ack" THEN "button" ELSE "receive") /\ hand' = 0

\* The broker acknowledges the publish (QoS 1)
PublishSucceeds ==
    /\ posted /\ online
    /\ BrokerTakes
    /\ Returns /\ posted' = FALSE
    /\ UNCHANGED <<online, cloudVars, events, offline, led, buttonVars, buttonBit, pressed,
                   telemetryDue>>

\* The broker has it, but the connection ends before the acknowledgment
AckIsLost ==
    /\ posted /\ online
    /\ BrokerTakes
    /\ online' = FALSE
    /\ UNCHANGED <<cloudVars, events, demoAt, hand, posted, offline, led, buttonVars, buttonBit,
                   pressed, telemetryDue>>

\* (mutant) no second attempt
PublishFailsOnce ==
    /\ posted /\ ~online
    /\ posted' = FALSE
    /\ Returns
    /\ UNCHANGED <<online, cloudVars, events, offline, led, buttonVars, buttonBit,
                   pressed, telemetryDue, brokerVars>>

\* The agent cancels the publish: the loop goes round
PublishFails ==
    /\ posted /\ ~online
    /\ posted' = FALSE
    /\ UNCHANGED <<online, cloudVars, events, demoAt, hand, offline, led, buttonVars, buttonBit,
                   pressed, telemetryDue, brokerVars>>

ReadsButton ==
    /\ demoAt = "button"
    /\ IF buttonBit
       THEN pressed' = button /\ telemetryDue' = TRUE /\ buttonBit' = FALSE
       ELSE UNCHANGED <<pressed, telemetryDue, buttonBit>>
    /\ demoAt' = "decide"
    /\ UNCHANGED <<online, cloudVars, events, hand, posted, offline, led, buttonVars, brokerVars>>

\* (mutant) no heartbeat
BeginsTelemetryIfDue ==
    /\ demoAt = "decide" /\ telemetryDue
    /\ telemetryDue' = FALSE
    /\ demoAt' = IF online THEN "telemetry" ELSE "receive"
    /\ UNCHANGED <<online, cloudVars, events, hand, posted, offline, led, buttonVars, buttonBit,
                   pressed, brokerVars>>

\* xPublishTelemetry, or IOTCONNECT_DEMO_PUBLISH_PERIOD_MS have passed.  What is due counts
\* as done whether or not there is a connection.
BeginsTelemetry ==
    /\ demoAt = "decide"
    /\ telemetryDue' = FALSE
    /\ demoAt' = IF online THEN "telemetry" ELSE "receive"
    /\ UNCHANGED <<online, cloudVars, events, hand, posted, offline, led, buttonVars, buttonBit,
                   pressed, brokerVars>>

SkipsTelemetry ==
    /\ demoAt = "decide" /\ ~telemetryDue
    /\ demoAt' = "receive"
    /\ UNCHANGED <<online, cloudVars, events, hand, posted, offline, led, buttonVars, buttonBit,
                   pressed, telemetryDue, brokerVars>>

-----------------------------------------------------------------------------

\* The turns of vIoTConnectDemoTask's loop
DemoTurn == TakesEvent \/ FindsNoEvent \/ ReadsButton \/ SkipsTelemetry

\* The loop of xIoTConnectPublishPayload, which waits for the agent without a timeout
PublishTurn == Posts \/ PublishSucceeds \/ PublishFails

DemoStep == DemoTurn \/ PublishTurn

EventsNext ==
    \/ CommandArrives \/ ButtonEdge \/ Connection \/ AckIsLost
    \/ DemoStep \/ BeginsTelemetry

\* The task runs, and the heartbeat falls due again and again.  Nothing is said of the agent: a
\* publish may be without an answer for ever.
EventsFairness == WF_eventVars(DemoTurn) /\ SF_eventVars(BeginsTelemetry)

EventsSpec == EventsInit /\ [][EventsNext]_eventVars

-----------------------------------------------------------------------------
(* Properties. *)

EventsTypeOK ==
    /\ {online, posted, button, buttonBit, pressed, telemetryDue} \subseteq BOOLEAN
    /\ commands \in 0..MaxCommands
    /\ UNION {asked, overflow, offline, ackedCommands} \subseteq 1..commands
    /\ \A i \in DOMAIN events :
         events[i] \in [command : 1..commands, mask : SUBSET Leds, on : BOOLEAN]
    /\ Len(events) <= EventQueueLength
    /\ demoAt \in {"receive", "ack", "button", "decide", "telemetry"}
    /\ hand \in 0..commands
    /\ led \in [Leds -> BOOLEAN]
    /\ edges \in 0..MaxEdges
    /\ reported \in {<< >>} \cup [led : [Leds -> BOOLEAN], pressed : BOOLEAN]

Queued == {events[i].command : i \in DOMAIN events}

\* A command that asks for an acknowledgment is still queued or in hand, or the broker has
\* the acknowledgment, or it is one of the two ways the code gives one up: the queue was
\* full, or there was no connection when its turn came.
AckAccounted == asked \subseteq Queued \cup {hand} \cup ackedCommands \cup overflow \cup offline

Publishing == demoAt \in {"ack", "telemetry"}

\* Once the connection holds, every event is handled and the cloud comes to know the state
\* of the LEDs and the button, whatever was published or given up while it did not: unless the
\* task waits for ever for one publish, since its command is never taken by the agent (the
\* command that WaiterIsAnswered of MqttAgent is about) or never answered.  Nothing else, no
\* event, edge or failure at any moment, keeps the cloud from catching up.
CloudCatchesUp ==
    (EventsFairness /\ <>[]online) =>
        \/ <>[]Publishing
        \/ <>[](events = << >> /\ reported = DeviceState /\ pressed = button)

Ledger == INSTANCE CommandLedger WITH
    Capacity  <- EventQueueLength,
    arrived   <- commands,
    asking    <- asked,
    waiting   <- Queued,
    inHand    <- hand,
    acked     <- ackedCommands,
    abandoned <- overflow \cup offline,
    connected <- online

\* Whatever happens to a publish and to the connection, a command that asks for an
\* acknowledgment is acknowledged in its turn, after those that came before it and before
\* vIoTConnectDemoTask looks at the next, and given up only at a full queue or without a
\* connection.
ImplementsLedger == Ledger!Spec

=============================================================================
