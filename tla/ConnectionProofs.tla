--------------------------- MODULE ConnectionProofs ---------------------------
(***************************************************************************)
(* Safety of the connection, from TLS down to Wi-Fi, for any number of     *)
(* connections and any lengths of records and budgets of time, checked by  *)
(* TLAPS: first the notification thread, then the sending of records, then *)
(* the task that keeps the station connected.                              *)
(***************************************************************************)
EXTENDS SocketNotify, TlsSend, WifiConnection, SequenceTheorems, TLAPS

-----------------------------------------------------------------------------
(* The notification thread.  The handle says whether a thread can still run *)
(* its loop; such a thread belongs to the connection that is up, or that is *)
(* being closed; and half a second of delay before each connection leaves   *)
(* nothing of the last one.                                                 *)

InLoop == {"new", "select", "call", "wait", "clear"}

\* The socket is open from connect to close, and the state is that of the last of these
SocketFollowsAgent ==
    /\ openSocket # 0 <=> agentAt \in {"stopToClose", "stopToCreate"} \/ tlsState = "connected"
    /\ agentAt # "running" => tlsState = "configured"
    /\ agentAt = "delay" => connections < MaxConnections

HandleFollowsThread == handle <=> thread \in InLoop

ThreadFollowsConnection ==
    /\ thread \in InLoop => threadSocket = openSocket /\ (Closing \/ tlsState = "connected")
    /\ agentAt = "stopToCreate" => thread = "none"

NotifyInv ==
    NotifyTypeOK /\ SocketFollowsAgent /\ HandleFollowsThread /\ ThreadFollowsConnection

LEMMA NotifyInvInit == NotifyInit => NotifyInv
<1> SUFFICES ASSUME NotifyInit PROVE NotifyInv
  OBVIOUS
<1> USE DEF NotifyInit
<1>1. NotifyTypeOK
  <2>1. {wake, handle, mustExit} \subseteq BOOLEAN
    OBVIOUS
  <2>2. connections \in 0..MaxConnections /\ openSocket \in 0..connections
        /\ threadSocket \in 0..connections
    BY MaxConnectionsAssumption
  <2>3. QED
    BY <2>1, <2>2, Zenon DEF NotifyTypeOK, ThreadStates
<1>2. SocketFollowsAgent
  BY DEF SocketFollowsAgent
<1>3. HandleFollowsThread /\ ThreadFollowsConnection
  BY DEF HandleFollowsThread, ThreadFollowsConnection, InLoop
<1>4. QED
  BY <1>1, <1>2, <1>3 DEF NotifyInv

\* What the agent does: here the delay is used, and that it stops the thread first
LEMMA AgentKeepsNotifyInv ==
    ASSUME NotifyInv,
           StartConnect \/ Connects \/ ConnectFails \/ Disconnects \/ StopLoop \/ Reads
    PROVE  NotifyInv'
<1> USE MaxConnectionsAssumption
    DEF NotifyInv, NotifyTypeOK, SocketFollowsAgent, HandleFollowsThread,
        ThreadFollowsConnection, ThreadStates, InLoop, Closing, transportVars, threadVars
<1>1. CASE StartConnect
  BY <1>1 DEF StartConnect
<1>2. CASE Connects
  <2>1. thread = "none"
    BY <1>2 DEF Connects, IdleWorkDone
  <2>2. QED
    BY <1>2, <2>1 DEF Connects
<1>3. CASE ConnectFails
  BY <1>3 DEF ConnectFails
<1>4. CASE Disconnects
  BY <1>4 DEF Disconnects
<1>5. CASE StopThread
  BY <1>5 DEF StopThread
<1>6. CASE CreateThread
  BY <1>6 DEF CreateThread, Stopped
<1>7. CASE CloseSocket
  BY <1>7 DEF CloseSocket, Stopped
<1>8. CASE ReadsNoRecord
  BY <1>8 DEF ReadsNoRecord, MayRead
<1>9. CASE ReadsRecord
  BY <1>9 DEF ReadsRecord, MayRead, Rearm
<1>10. CASE FindsClosed
  BY <1>10 DEF FindsClosed, MayRead
<1>11. QED
  BY <1>1, <1>2, <1>3, <1>4, <1>5, <1>6, <1>7, <1>8, <1>9, <1>10 DEF StopLoop, Reads

LEMMA ThreadKeepsNotifyInv ==
    ASSUME NotifyInv, ThreadStep \/ Arrives \/ Ends
    PROVE  NotifyInv'
<1> USE DEF NotifyInv, NotifyTypeOK, SocketFollowsAgent, HandleFollowsThread,
        ThreadFollowsConnection, ThreadStates, InLoop, Closing, transportVars, threadVars
<1>1. CASE ThreadStarts
  BY <1>1 DEF ThreadStarts
<1>2. CASE SelectReturns
  BY <1>2 DEF SelectReturns
<1>3. CASE CallsAgent
  BY <1>3 DEF CallsAgent
<1>4. CASE TakesNote
  BY <1>4 DEF TakesNote
<1>5. CASE ClearsHandle
  BY <1>5 DEF ClearsHandle
<1>6. CASE DeletesItself
  BY <1>6 DEF DeletesItself
<1>7. CASE IdleCleansUp
  BY <1>7 DEF IdleCleansUp
<1>8. CASE Arrives
  BY <1>8 DEF Arrives
<1>9. CASE Ends
  BY <1>9 DEF Ends
<1>10. QED
  BY <1>1, <1>2, <1>3, <1>4, <1>5, <1>6, <1>7, <1>8, <1>9 DEF ThreadStep

LEMMA NotifyInvStep == NotifyInv /\ [NotifyNext]_notifyVars => NotifyInv'
<1> SUFFICES ASSUME NotifyInv, [NotifyNext]_notifyVars PROVE NotifyInv'
  OBVIOUS
<1>1. CASE NotifyNext
  BY <1>1, AgentKeepsNotifyInv, ThreadKeepsNotifyInv DEF NotifyNext
<1>2. CASE UNCHANGED notifyVars
  BY <1>2 DEF NotifyInv, NotifyTypeOK, SocketFollowsAgent, HandleFollowsThread,
              ThreadFollowsConnection, Closing, notifyVars, transportVars, threadVars
<1>3. QED
  BY <1>1, <1>2

LEMMA NotifyInvariant == NotifySpec => []NotifyInv
  BY NotifyInvInit, NotifyInvStep, PTL DEF NotifySpec

LEMMA NotifyInvSafe ==
    NotifyInv => NotifyTypeOK /\ SelectsOnOpenSocket /\ ThreadOfThisConnection
<1>1. NotifyInv => SelectsOnOpenSocket
  BY DEF NotifyInv, SocketFollowsAgent, ThreadFollowsConnection, InLoop, Closing,
         SelectsOnOpenSocket
<1>2. NotifyInv => ThreadOfThisConnection
  BY DEF NotifyInv, HandleFollowsThread, ThreadFollowsConnection, InLoop,
         ThreadOfThisConnection
<1>3. QED
  BY <1>1, <1>2 DEF NotifyInv

LEMMA StackIsFreeInStep ==
    NotifyInv /\ [NotifyNext]_notifyVars
        => [thread' = "new" /\ thread # "new" => thread = "none"]_notifyVars
<1> SUFFICES ASSUME NotifyInv, NotifyNext, thread' = "new", thread # "new"
             PROVE  thread = "none"
  OBVIOUS
<1>1. CASE CreateThread
  BY <1>1 DEF CreateThread, NotifyInv, ThreadFollowsConnection
<1>2. CASE ThreadStep
  BY <1>2 DEF ThreadStep, ThreadStarts, SelectReturns, CallsAgent, TakesNote, ClearsHandle,
              DeletesItself, IdleCleansUp
<1>3. CASE ~CreateThread /\ ~ThreadStep
  <2>1. UNCHANGED thread
    BY <1>3 DEF NotifyNext, StopLoop, Reads, StartConnect, Connects, ConnectFails, Disconnects,
                StopThread, CloseSocket, ReadsNoRecord, ReadsRecord, FindsClosed, Arrives, Ends
  <2>2. QED
    BY <2>1
<1>4. QED
  BY <1>1, <1>2, <1>3

\* The variables of the transport keep their types, for any number of connections.
THEOREM TransportTypeCorrect == NotifySpec => []NotifyTypeOK
  BY NotifyInvariant, NotifyInvSafe, PTL

\* The thread never waits on the socket of a connection that has been closed.
THEOREM WaitsOnItsSocket == NotifySpec => []SelectsOnOpenSocket
  BY NotifyInvariant, NotifyInvSafe, PTL

\* While the connection is up, a thread that has a handle belongs to it.
THEOREM ThreadIsOfThisConnection == NotifySpec => []ThreadOfThisConnection
  BY NotifyInvariant, NotifyInvSafe, PTL

\* The stack and the task buffer are free when they are used again.
THEOREM StackIsFree == NotifySpec => StackReusedWhenFree
  BY NotifyInvariant, StackIsFreeInStep, PTL DEF NotifySpec, StackReusedWhenFree

-----------------------------------------------------------------------------
(* The sending of records.  While a call is under way TCP has what it had  *)
(* before, and what the call has sent so far, which is less than the call  *)
(* was given.                                                              *)

CallAccounted ==
    sendAt = "sending" =>
        /\ callSent < outLeft
        /\ Len(wire) = written * RecordLength - outLeft + callSent

\* What is left belongs to a record that was written
LeftIsWritten == outLeft > 0 => written > 0

SendInv == SendTypeOK /\ LengthAccounted /\ CallAccounted /\ LeftIsWritten

LEMMA RecordsAdd ==
    ASSUME NEW w \in Nat, NEW l \in Nat
    PROVE  /\ w * l \in Nat
           /\ (w + 1) * l = w * l + l
           /\ w > 0 => w * l >= l
<1>1. w * l \in Nat /\ (w + 1) * l = w * l + l
  OBVIOUS
<1>2. ASSUME w > 0 PROVE w * l >= l
  <2>1. (w - 1) \in Nat
    BY <1>2
  <2>2. (w - 1) * l \in Nat
    BY <2>1
  <2>3. w * l = (w - 1) * l + l
    BY <2>1
  <2>4. QED
    BY <2>2, <2>3
<1>3. QED
  BY <1>1, <1>2

LEMMA MadeOfElements ==
    ASSUME NEW n \in Nat, NEW f \in [1..n -> Nat]
    PROVE  f \in Seq(Nat) /\ Len(f) = n
  OBVIOUS

LEMMA SendInvInit == SendInit => SendInv
  BY SendAssumption
     DEF SendInit, SendInv, SendTypeOK, LengthAccounted, CallAccounted, LeftIsWritten

\* TCP takes n bytes more, numbered from the start of the buffer
LEMMA TakesBytes ==
    ASSUME SendInv, NEW n \in 1..outLeft, SocketTakes(n)
    PROVE  wire' \in Seq(Nat) /\ Len(wire') = Len(wire) + n
<1> DEFINE bytes == [i \in 1..n |-> BufferStart + i]
<1>1. n \in Nat /\ written \in Nat /\ written > 0 /\ outLeft \in Nat /\ outLeft <= RecordLength
  BY SendAssumption DEF SendInv, SendTypeOK, LeftIsWritten
<1>2. written * RecordLength >= RecordLength /\ written * RecordLength \in Nat
  BY <1>1, RecordsAdd, SendAssumption
<1>3. BufferStart \in Nat
  BY <1>1, <1>2, SendAssumption DEF BufferStart
<1>4. bytes \in Seq(Nat) /\ Len(bytes) = n
  <2>1. \A i \in 1..n : BufferStart + i \in Nat
    BY <1>3
  <2>2. bytes \in [1..n -> Nat]
    BY <2>1
  <2>3. QED
    BY <1>1, <2>2, MadeOfElements
<1>5. wire' = wire \o bytes
  BY DEF SocketTakes
<1>6. wire \in Seq(Nat)
  BY DEF SendInv, SendTypeOK
<1> HIDE DEF bytes
<1>7. QED
  BY <1>4, <1>5, <1>6, ConcatProperties

LEMMA SendInvStep == SendInv /\ [SendNext]_sendVars => SendInv'
<1> SUFFICES ASSUME SendInv, [SendNext]_sendVars PROVE SendInv'
  OBVIOUS
<1>0. written \in Nat /\ RecordLength \in Nat
  BY SendAssumption DEF SendInv, SendTypeOK
<1> USE SendAssumption DEF SendInv, SendTypeOK, LengthAccounted, CallAccounted, LeftIsWritten
<1>1. CASE WritesRecord
  <2>1. (written + 1) * RecordLength = written * RecordLength + RecordLength
    BY <1>0, RecordsAdd
  <2>2. QED
    BY <1>1, <2>1 DEF WritesRecord
<1>2. CASE Flushes
  BY <1>2 DEF Flushes
<1>3. ASSUME NEW n \in 1..outLeft, SocketTakes(n) PROVE SendInv'
  <2>1. wire' \in Seq(Nat) /\ Len(wire') = Len(wire) + n
    BY <1>3, TakesBytes
  <2>2. written * RecordLength \in Nat
    BY <1>0, RecordsAdd
  <2>3. /\ sendAt = "sending"
        /\ callSent' = callSent + n
        /\ outLeft' = IF callSent + n = outLeft THEN 0 ELSE outLeft
        /\ sendAt' = IF callSent + n < outLeft THEN "sending"
                     ELSE IF callSent + n = outLeft THEN "idle" ELSE "broken"
        /\ UNCHANGED <<written, elapsed>>
    BY <1>3 DEF SocketTakes
  <2>4. n \in Nat /\ callSent \in Nat /\ outLeft \in Nat /\ Len(wire) \in Nat
    OBVIOUS
  <2>5. Len(wire) = written * RecordLength - outLeft + callSent
    BY <2>3
  <2>6. CASE callSent + n < outLeft
    BY <2>1, <2>2, <2>3, <2>4, <2>5, <2>6
  <2>7. CASE callSent + n = outLeft
    <3>1. Len(wire') = written * RecordLength
      BY <2>1, <2>2, <2>4, <2>5, <2>7
    <3>2. QED
      BY <2>1, <2>2, <2>3, <2>4, <2>7, <3>1
  <2>8. CASE callSent + n > outLeft
    BY <2>1, <2>3, <2>4, <2>8
  <2>9. QED
    BY <2>4, <2>6, <2>7, <2>8
<1>4. CASE WouldBlock
  BY <1>4 DEF WouldBlock
<1>5. CASE GivesUp
  <2>1. written * RecordLength \in Nat
    BY <1>0, RecordsAdd
  <2>2. QED
    BY <1>5, <2>1 DEF GivesUp
<1>6. CASE SocketFails
  BY <1>6 DEF SocketFails
<1>7. CASE Abandons
  BY <1>7 DEF Abandons
<1>8. CASE Reconnects
  BY <1>8 DEF Reconnects
<1>9. CASE UNCHANGED sendVars
  BY <1>9 DEF sendVars
<1>10. QED
  BY <1>1, <1>2, <1>3, <1>4, <1>5, <1>6, <1>7, <1>8, <1>9 DEF SendNext, CallStep

LEMMA SendInvariant == SendSpec => []SendInv
  BY SendInvInit, SendInvStep, PTL DEF SendSpec

\* Between two calls mbedTLS has the number of bytes right that TCP has taken, for every
\* length of records, every budget, and however the socket takes or refuses them.
THEOREM LengthsAgree == SendSpec => []LengthAccounted
<1>1. SendInv => LengthAccounted
  BY DEF SendInv
<1>2. QED
  BY <1>1, SendInvariant, PTL

\* The variables of the sending loop keep their types; no call sends more than it counts.
THEOREM SendTypeCorrect == SendSpec => []SendTypeOK
<1>1. SendInv => SendTypeOK
  BY DEF SendInv
<1>2. QED
  BY <1>1, SendInvariant, PTL

-----------------------------------------------------------------------------
(* The station.  What is left of the bits of a turn depends on where       *)
(* net_main is in it.                                                      *)

\* The bits of a turn are handled in their order, and none is left when the turn is over
TakenInOrder ==
    /\ netAt = "wait" => taken = {}
    /\ netAt \in {"connecting", "gotIp"} => "disconnected" \notin taken

WifiInv == WifiTypeOK /\ TakenInOrder /\ DownIsRetried

LEMMA WifiInvInit == WifiInit => WifiInv
<1> SUFFICES ASSUME WifiInit PROVE WifiInv
  OBVIOUS
<1> USE DEF WifiInit
<1>1. {reporting, lastAddress, xLastAddress, refused} \subseteq BOOLEAN
  BY Zenon
<1>2. WifiTypeOK
  BY <1>1 DEF WifiTypeOK, AppEvents
<1>3. TakenInOrder /\ DownIsRetried
  BY DEF TakenInOrder, DownIsRetried
<1>4. QED
  BY <1>2, <1>3 DEF WifiInv

LEMMA WifiInvStep == WifiInv /\ [WifiNext]_wifiVars => WifiInv'
<1> SUFFICES ASSUME WifiInv, [WifiNext]_wifiVars PROVE WifiInv'
  OBVIOUS
<1> USE DEF WifiInv, WifiTypeOK, AppEvents, TakenInOrder, DownIsRetried, addressVars
<1>1. CASE Joins
  BY <1>1 DEF Joins
<1>2. CASE DoesNotJoin
  BY <1>2 DEF DoesNotJoin
<1>3. CASE LosesAccessPoint
  BY <1>3 DEF LosesAccessPoint
<1>4. CASE Binds
  <2>1. reporting' \in BOOLEAN
    BY <1>4, Zenon DEF Binds
  <2>2. QED
    BY <1>4, <2>1 DEF Binds
<1>5. CASE ReportsAddress
  BY <1>5 DEF ReportsAddress
<1>6. CASE TakesEvents
  BY <1>6 DEF TakesEvents
<1>7. CASE HandlesConnected
  BY <1>7 DEF HandlesConnected
<1>8. CASE AbandonsTurn
  BY <1>8 DEF AbandonsTurn
<1>9. CASE HandlesDisconnected
  BY <1>9 DEF HandlesDisconnected
<1>10. CASE IsRefused
  BY <1>10 DEF IsRefused
<1>11. CASE ConnectReturns
  BY <1>11 DEF ConnectReturns
<1>12. CASE HandlesGotIp
  BY <1>12 DEF HandlesGotIp
<1>13. CASE UNCHANGED wifiVars
  BY <1>13 DEF wifiVars
<1>14. QED
  BY <1>1, <1>2, <1>3, <1>4, <1>5, <1>6, <1>7, <1>8, <1>9, <1>10, <1>11, <1>12, <1>13
     DEF WifiNext, Driver, NetMain

LEMMA WifiInvariant == WifiSpec => []WifiInv
<1>1. WifiInit => WifiInv
  BY WifiInvInit
<1>2. WifiInv /\ [WifiNext]_wifiVars => WifiInv'
  BY WifiInvStep
<1>3. QED
  BY <1>1, <1>2, PTL DEF WifiSpec

\* net_main, the station and the event groups are well formed in every reachable state.
THEOREM WifiTypeCorrect == WifiSpec => []WifiTypeOK
<1>1. WifiInv => WifiTypeOK
  BY DEF WifiInv
<1>2. QED
  BY <1>1, WifiInvariant, PTL

\* Whenever the station is down, net_main is still to handle a disconnection, unless the
\* driver has refused a W6X_WiFi_Connect or a continue has dropped the bit.
THEOREM DownStationIsRetried == WifiSpec => []DownIsRetried
<1>1. WifiInv => DownIsRetried
  BY DEF WifiInv
<1>2. QED
  BY <1>1, WifiInvariant, PTL

==============================================================================
