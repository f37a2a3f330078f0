------------------------------- MODULE TlsSend --------------------------------
(***************************************************************************)
(* How the bytes of TLS records reach TCP: mbedTLS keeps the part of the   *)
(* current record it has not yet been able to send, and calls              *)
(* mbedtls_ssl_send, which calls sock_send until the record has gone or    *)
(* the socket has been full for too long.                                  *)
(*                                                                         *)
(* Sources: mbedtls_ssl_send and mbedtls_transport_send of                 *)
(* Appli/Common/net/lwip_port/mbedtls_transport.c, and the flushing of     *)
(* ARM_Security/library/ssl_msg.c.                                         *)
(*                                                                         *)
(* Byte i of the n-th record is the number (n - 1) * RecordLength + i, so  *)
(* that the peer should see 1, 2, 3, ...  EINTR is left out: lwIP does not *)
(* give it.                                                                *)
(***************************************************************************)
EXTENDS Integers, Sequences

CONSTANTS
    RecordLength,  \* bytes of a record
    MaxRecords,    \* bound on the records written on one connection
    RetryBudget    \* MBEDTLS_SSL_SEND_MAX_RETRY_MS

ASSUME SendAssumption ==
    /\ RecordLength \in Nat \ {0}
    /\ MaxRecords \in Nat
    /\ RetryBudget \in Nat

VARIABLES
    sendAt,     \* "idle", "sending" (in mbedtls_ssl_send), or "broken" connection
    written,    \* records given to mbedTLS on this connection
    outLeft,    \* ssl->out_left
    callSent,   \* uxBytesSent of the call
    elapsed,    \* time since the call began
    wire        \* what TCP has taken, in order

sendVars == <<sendAt, written, outLeft, callSent, elapsed, wire>>

-----------------------------------------------------------------------------

SendInit ==
    /\ sendAt = "idle" /\ written = 0 /\ outLeft = 0
    /\ callSent = 0 /\ elapsed = 0 /\ wire = << >>

\* mbedtls_ssl_write with a new record, when the last one has gone
WritesRecord ==
    /\ sendAt = "idle" /\ outLeft = 0 /\ written < MaxRecords
    /\ written' = written + 1 /\ outLeft' = RecordLength
    /\ UNCHANGED <<sendAt, callSent, elapsed, wire>>

\* mbedtls_ssl_flush_output calls with what is left, again when the last call left some
Flushes ==
    /\ sendAt = "idle" /\ outLeft > 0
    /\ sendAt' = "sending" /\ callSent' = 0 /\ elapsed' = 0
    /\ UNCHANGED <<written, outLeft, wire>>

\* The first byte of the buffer the call was given
BufferStart == written * RecordLength - outLeft

\* sock_send( pcBuf, uxLen ) takes n bytes: pcBuf and uxLen stay as they were.  More than
\* out_left in all is an internal error of mbedTLS, and ends the connection.
SocketTakes(n) ==
    LET sent == callSent + n IN
    /\ sendAt = "sending"
    /\ wire' = wire \o [i \in 1..n |-> BufferStart + i]
    /\ callSent' = sent
    /\ outLeft' = IF sent = outLeft THEN 0 ELSE outLeft
    /\ sendAt' = IF sent < outLeft THEN "sending" ELSE IF sent = outLeft THEN "idle" ELSE "broken"
    /\ UNCHANGED <<written, elapsed>>

\* (mutant) the time is that of the last attempt
WouldBlockForEver ==
    /\ sendAt = "sending" /\ elapsed < RetryBudget
    /\ elapsed' \in 0..(RetryBudget - 1)
    /\ UNCHANGED <<sendAt, written, outLeft, callSent, wire>>

\* EWOULDBLOCK within the budget: sleep and try again
WouldBlock ==
    /\ sendAt = "sending" /\ elapsed < RetryBudget
    /\ elapsed' \in (elapsed + 1)..RetryBudget
    /\ UNCHANGED <<sendAt, written, outLeft, callSent, wire>>

\* (mutant) MBEDTLS_ERR_SSL_WANT_WRITE although some has been sent
GivesUpEmptyHanded ==
    /\ sendAt = "sending" /\ elapsed = RetryBudget
    /\ sendAt' = "idle"
    /\ UNCHANGED <<written, outLeft, callSent, elapsed, wire>>

\* EWOULDBLOCK after the budget: the call returns what it has sent, or
\* MBEDTLS_ERR_SSL_WANT_WRITE when that is nothing
GivesUp ==
    /\ sendAt = "sending" /\ elapsed = RetryBudget
    /\ outLeft' = outLeft - callSent
    /\ sendAt' = "idle"
    /\ UNCHANGED <<written, callSent, elapsed, wire>>

\* Any other error of the socket
SocketFails ==
    /\ sendAt = "sending"
    /\ sendAt' = "broken"
    /\ UNCHANGED <<written, outLeft, callSent, elapsed, wire>>

\* coreMQTT has waited long enough for the record to go: the connection is given up
Abandons ==
    /\ sendAt = "idle" /\ outLeft > 0
    /\ sendAt' = "broken"
    /\ UNCHANGED <<written, outLeft, callSent, elapsed, wire>>

\* mbedtls_ssl_session_reset, and a new connection
Reconnects ==
    /\ sendAt = "broken"
    /\ sendAt' = "idle" /\ written' = 0 /\ outLeft' = 0
    /\ callSent' = 0 /\ elapsed' = 0 /\ wire' = << >>

CallStep == (\E n \in 1..outLeft : SocketTakes(n)) \/ WouldBlock \/ GivesUp

SendNext == WritesRecord \/ Flushes \/ CallStep \/ SocketFails \/ Abandons \/ Reconnects

\* sock_send and vTaskDelay return
SendFairness == WF_sendVars(CallStep)

SendSpec == SendInit /\ [][SendNext]_sendVars

-----------------------------------------------------------------------------
(* Properties. *)

SendTypeOK ==
    /\ sendAt \in {"idle", "sending", "broken"}
    /\ written \in 0..MaxRecords
    /\ outLeft \in 0..RecordLength
    /\ callSent \in Nat
    /\ elapsed \in 0..RetryBudget
    /\ wire \in Seq(Nat)

\* Between two calls mbedTLS has the number of bytes right that TCP has taken.
LengthAccounted == sendAt = "idle" => Len(wire) = written * RecordLength - outLeft

\* A call does not keep the task: "Historically this loop was unbounded".
SendReturns == SendFairness => (sendAt = "sending" ~> sendAt # "sending")

\* "Returning partial progress is safe: mbedtls tracks how many bytes of the current
\* record were flushed and retries the remainder" (the comment in mbedtls_ssl_send): the
\* peer sees every record byte after byte.
PeerSeesRecords == \A i \in DOMAIN wire : wire[i] = i

=============================================================================
