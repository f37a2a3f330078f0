----------------------------- MODULE SocketNotify -----------------------------
(***************************************************************************)
(* The TLS transport and the thread it keeps per connection to tell the    *)
(* MQTT agent that the socket has something to read.  The agent creates    *)
(* the thread when it has connected, in a stack and a task buffer that are *)
(* part of the context; it re-arms the thread after each read, and stops   *)
(* it before it closes the socket.  The thread alternates between a select *)
(* without a timeout, a callback, and a wait for a notification.           *)
(*                                                                         *)
(* Sources: Appli/Common/net/lwip_port/mbedtls_transport.c, and its calls  *)
(* in Appli/Common/app/mqtt/mqtt_agent_task.c.                             *)
(*                                                                         *)
(* One core, and the thread has idle priority: the agent's own calls are   *)
(* single steps up to the point where it sleeps.  Only the agent uses this *)
(* context, and it sets the callback once, before it first connects.       *)
(***************************************************************************)
EXTENDS Naturals

CONSTANT MaxConnections  \* bound on the connections made

ASSUME MaxConnectionsAssumption == MaxConnections \in Nat

VARIABLES
    agentAt,       \* "running", "delay" (in connect), or in vStopSocketNotifyTask
                   \*   before it closes ("stopToClose") or creates ("stopToCreate")
    tlsState,      \* xConnectionState
    connections,   \* connections made so far
    openSocket,    \* xSockHandle: the connection whose socket is open, or 0
    incoming,      \* what the open socket holds: nothing, part of a record, a record,
                   \*   a close-notify, or the end or the reset of the connection
    wake,          \* MQTT_AGENT_NOTIFY_FLAG_SOCKET_RECV
    handle,        \* xTaskHandle is not NULL
    thread,        \* where the notification thread is
    threadSocket,  \* its copy of the socket handle
    mustExit,      \* its xExitFlag
    note           \* its pending notification: "none", "rearm" (0) or "stop" (0xFFFFFFFF)

transportVars == <<tlsState, connections, openSocket>>
threadVars    == <<threadSocket, mustExit>>
notifyVars    == <<agentAt, transportVars, incoming, wake, handle, thread, threadVars, note>>

-----------------------------------------------------------------------------

\* "new": created and not yet run; "clear": about to clear its handle; "delete": about to
\* call vTaskDelete; "listed": on the kernel's list of tasks to be cleaned up; "none": the
\* stack and the task buffer are nobody's
ThreadStates == {"none", "new", "select", "call", "wait", "clear", "delete", "listed"}

Closing == agentAt = "stopToClose"

\* The idle priority has nothing left to do: no cleaning-up, and the thread is blocked
IdleWorkDone ==
    \/ thread = "none"
    \/ thread = "select" /\ incoming = "nothing"
    \/ thread = "wait" /\ note = "none"

NotifyInit ==
    /\ agentAt = "running" /\ tlsState = "configured"
    /\ connections = 0 /\ openSocket = 0 /\ incoming = "nothing" /\ wake = FALSE
    /\ handle = FALSE /\ thread = "none" /\ threadSocket = 0
    /\ mustExit = FALSE /\ note = "none"

-----------------------------------------------------------------------------
(* The agent. *)

\* mbedtls_transport_connect, up to its vTaskDelay( 500 )
StartConnect ==
    /\ agentAt = "running" /\ tlsState = "configured" /\ connections < MaxConnections
    /\ agentAt' = "delay"
    /\ UNCHANGED <<transportVars, incoming, wake, handle, thread, threadVars, note>>

\* (mutant) no delay: the idle priority has not had the processor
ConnectsAtOnce ==
    /\ agentAt = "delay"
    /\ connections' = connections + 1
    /\ openSocket' = connections + 1
    /\ incoming' = "nothing"
    /\ agentAt' = "stopToCreate"
    /\ UNCHANGED <<tlsState, wake, handle, thread, threadVars, note>>

\* The socket is connected and the handshake succeeds.  In the half second of the delay
\* the idle priority has had the processor.
Connects ==
    /\ agentAt = "delay" /\ IdleWorkDone
    /\ connections' = connections + 1
    /\ openSocket' = connections + 1
    /\ incoming' = "nothing"
    /\ agentAt' = "stopToCreate"
    /\ UNCHANGED <<tlsState, wake, handle, thread, threadVars, note>>

\* Name, socket or handshake fails: the socket is closed, no thread is created
ConnectFails ==
    /\ agentAt = "delay"
    /\ agentAt' = "running"
    /\ UNCHANGED <<transportVars, incoming, wake, handle, thread, threadVars, note>>

\* A turn of the loop of vStopSocketNotifyTask
StopThread ==
    /\ agentAt \in {"stopToClose", "stopToCreate"} /\ handle /\ thread # "listed"
    /\ note' = "stop"
    /\ UNCHANGED <<agentAt, transportVars, incoming, wake, handle, thread, threadVars>>

Stopped == ~handle \/ thread = "listed"

\* vCreateSocketNotifyTask, and the connection counts as up
CreateThread ==
    /\ agentAt = "stopToCreate" /\ Stopped
    /\ thread' = "new" /\ threadSocket' = openSocket
    /\ mustExit' = FALSE /\ note' = "none" /\ handle' = TRUE
    /\ tlsState' = "connected"
    /\ agentAt' = "running"
    /\ UNCHANGED <<connections, openSocket, incoming, wake>>

CloseSocket ==
    /\ Closing /\ Stopped
    /\ openSocket' = 0 /\ incoming' = "nothing"
    /\ agentAt' = "running"
    /\ UNCHANGED <<tlsState, connections, wake, handle, thread, threadVars, note>>

\* (mutant) the socket is closed before the thread is stopped
DisconnectsClosedFirst ==
    /\ agentAt = "running" /\ tlsState = "connected"
    /\ tlsState' = "configured" /\ openSocket' = 0
    /\ agentAt' = "stopToClose"
    /\ UNCHANGED <<connections, incoming, wake, handle, thread, threadVars, note>>

\* mbedtls_transport_disconnect of a connection that is up, after any failure in MQTT
Disconnects ==
    /\ agentAt = "running" /\ tlsState = "connected"
    /\ tlsState' = "configured"
    /\ agentAt' = "stopToClose"
    /\ UNCHANGED <<connections, openSocket, incoming, wake, handle, thread, threadVars, note>>

\* (mutant) the agent waits for the thread without a timeout
MayReadWhenWoken == agentAt = "running" /\ tlsState = "connected" /\ wake

\* A turn of MQTTAgent_CommandLoop, which comes when the agent is woken and after
\* MQTT_AGENT_MAX_EVENT_QUEUE_WAIT_TIME
MayRead == agentAt = "running" /\ tlsState = "connected"

Rearm == note' = IF handle THEN "rearm" ELSE note

\* mbedtls_transport_recv: MBEDTLS_ERR_SSL_WANT_READ, which is no reason to re-arm
ReadsNoRecord ==
    /\ MayRead /\ incoming \in {"nothing", "part"}
    /\ incoming' = "nothing" /\ wake' = FALSE
    /\ UNCHANGED <<agentAt, transportVars, handle, thread, threadVars, note>>

\* Data, or zero at the end of the connection
ReadsRecord ==
    /\ MayRead /\ incoming \in {"record", "end"}
    /\ incoming' = IF incoming = "end" THEN "end" ELSE "nothing"
    /\ wake' = FALSE
    /\ Rearm
    /\ UNCHANGED <<agentAt, transportVars, handle, thread, threadVars>>

\* MBEDTLS_ERR_SSL_PEER_CLOSE_NOTIFY or MBEDTLS_ERR_NET_CONN_RESET, from a read or a write
FindsClosed ==
    /\ MayRead /\ incoming \in {"closeNotify", "reset"}
    /\ incoming' = IF incoming = "reset" THEN "reset" ELSE "nothing"
    /\ wake' = FALSE
    /\ tlsState' = "configured"
    /\ agentAt' = "stopToClose"
    /\ UNCHANGED <<connections, openSocket, handle, thread, threadVars, note>>

-----------------------------------------------------------------------------
(* The thread. *)

ThreadStarts ==
    /\ thread = "new"
    /\ thread' = "select" /\ note' = "none"
    /\ UNCHANGED <<agentAt, transportVars, incoming, wake, handle, threadVars>>

\* A reset sets the error set, anything else makes the socket readable
SelectReturns ==
    /\ thread = "select" /\ incoming # "nothing"
    /\ mustExit' = (incoming = "reset")
    /\ thread' = IF incoming = "reset" THEN "wait" ELSE "call"
    /\ UNCHANGED <<agentAt, transportVars, incoming, wake, handle, threadSocket, note>>

CallsAgent ==
    /\ thread = "call"
    /\ wake' = TRUE /\ thread' = "wait"
    /\ UNCHANGED <<agentAt, transportVars, incoming, handle, threadVars, note>>

\* xTaskNotifyWait returns, and the loop goes round or ends
TakesNote ==
    /\ thread = "wait" /\ note # "none"
    /\ note' = "none"
    /\ mustExit' = (mustExit \/ note = "stop")
    /\ thread' = IF mustExit' THEN "clear" ELSE "select"
    /\ UNCHANGED <<agentAt, transportVars, incoming, wake, handle, threadSocket>>

\* (mutant) the thread ends without a word
KeepsHandle ==
    /\ thread = "clear"
    /\ thread' = "delete"
    /\ UNCHANGED <<agentAt, transportVars, incoming, wake, handle, threadVars, note>>

ClearsHandle ==
    /\ thread = "clear"
    /\ handle' = FALSE /\ thread' = "delete"
    /\ UNCHANGED <<agentAt, transportVars, incoming, wake, threadVars, note>>

\* vTaskDelete( NULL ), and then the idle task takes the task off the kernel's list
DeletesItself ==
    /\ thread = "delete"
    /\ thread' = "listed"
    /\ UNCHANGED <<agentAt, transportVars, incoming, wake, handle, threadVars, note>>

IdleCleansUp ==
    /\ thread = "listed"
    /\ thread' = "none"
    /\ UNCHANGED <<agentAt, transportVars, incoming, wake, handle, threadVars, note>>

-----------------------------------------------------------------------------
(* The network. *)

Arrives ==
    /\ openSocket # 0
    /\ \/ incoming = "nothing" /\ incoming' \in {"part", "record", "closeNotify"}
       \/ incoming = "part" /\ incoming' = "record"
    /\ UNCHANGED <<agentAt, transportVars, wake, handle, thread, threadVars, note>>

\* The peer closes, or TCP gives up
Ends ==
    /\ openSocket # 0
    /\ \/ incoming = "nothing" /\ incoming' = "end"
       \/ incoming # "reset" /\ incoming' = "reset"
    /\ UNCHANGED <<agentAt, transportVars, wake, handle, thread, threadVars, note>>

-----------------------------------------------------------------------------

StopLoop == StopThread \/ CreateThread \/ CloseSocket

ThreadStep ==
    \/ ThreadStarts \/ SelectReturns \/ CallsAgent \/ TakesNote
    \/ ClearsHandle \/ DeletesItself \/ IdleCleansUp

Reads == ReadsNoRecord \/ ReadsRecord \/ FindsClosed

NotifyNext ==
    \/ StartConnect \/ Connects \/ ConnectFails \/ Disconnects
    \/ StopLoop \/ Reads \/ ThreadStep \/ Arrives \/ Ends

\* The agent's loops have no wait without a timeout; the idle priority gets the processor
\* in the end, or no deleted task would ever be cleaned up; and a connection that is being
\* closed ends: the peer answers the close-notify, or TCP gives up sending it.
NotifyFairness ==
    /\ WF_notifyVars(StopLoop)
    /\ WF_notifyVars(Reads)
    /\ WF_notifyVars(ThreadStep)
    /\ WF_notifyVars(Closing /\ Ends)

NotifySpec == NotifyInit /\ [][NotifyNext]_notifyVars

-----------------------------------------------------------------------------
(* Properties. *)

NotifyTypeOK ==
    /\ agentAt \in {"running", "delay", "stopToClose", "stopToCreate"}
    /\ tlsState \in {"configured", "connected"}
    /\ connections \in 0..MaxConnections
    /\ openSocket \in 0..connections
    /\ incoming \in {"nothing", "part", "record", "closeNotify", "end", "reset"}
    /\ {wake, handle, mustExit} \subseteq BOOLEAN
    /\ thread \in ThreadStates
    /\ threadSocket \in 0..connections
    /\ note \in {"none", "rearm", "stop"}

\* The thread waits only on the socket of the present connection: lwIP gives the number of
\* a closed socket to the next one that is opened, for whoever opens it.
SelectsOnOpenSocket == thread = "select" => openSocket # 0 /\ threadSocket = openSocket

\* While the connection is up the thread belongs to it, or has gone for good.
ThreadOfThisConnection ==
    tlsState = "connected" /\ handle => threadSocket = openSocket /\ thread \notin {"none", "listed"}

\* The stack and the task buffer are used again only when the kernel is done with the
\* thread that had them.
StackReusedWhenFree == [][thread' = "new" /\ thread # "new" => thread = "none"]_notifyVars

\* An agent that closes its connection is not kept waiting by the thread for ever.
CloseEnds == NotifyFairness => (Closing ~> ~Closing)

\* A record that has arrived is read although the thread was not re-armed, or the
\* connection is closed.
RecordIsRead ==
    NotifyFairness =>
        ((tlsState = "connected" /\ incoming = "record")
            ~> (tlsState # "connected" \/ incoming # "record"))

=============================================================================
