------------------------------ MODULE MCFirmware ------------------------------
(***************************************************************************)
(* Seven parts of the firmware that share no state, checked in one run:    *)
(* the first state chooses a part, and only that part moves.  A behaviour  *)
(* of this specification is a behaviour of one of the seven                *)
(* specifications, and each of theirs is one of its behaviours, but for    *)
(* the viewer session, which moves until one of the exceptions to          *)
(* SlotFreed occurs: from then on that property holds whatever happens.    *)
(* Each liveness property assumes the fairness of its part.                *)
(***************************************************************************)
EXTENDS SocketNotify, TlsSend, KvsConfig, CommandEvents, WifiConnection, ViewerSession,
        Detection

VARIABLE part  \* the part that moves

firmwareVars ==
    <<part, notifyVars, sendVars, kvsVars, eventVars, wifiVars, viewerVars, detectionVars>>

\* Of the two states of the button and of the LED one will do: every step has a counterpart
\* that reads the other way round.
FirmwareInit ==
    /\ part \in {"notify", "send", "kvs", "events", "wifi", "viewer", "detection"}
    /\ NotifyInit /\ SendInit /\ KvsInit /\ EventsInit /\ WifiInit /\ ViewerInit /\ DetectionInit
    /\ part # "kvs" => hasUrl
    /\ part # "detection" => mapped
    /\ button /\ led = [l \in Leds |-> TRUE]

FirmwareNext ==
    \/ /\ part = "notify" /\ NotifyNext
       /\ UNCHANGED <<part, sendVars, kvsVars, eventVars, wifiVars, viewerVars, detectionVars>>
    \/ /\ part = "send" /\ SendNext
       /\ UNCHANGED <<part, notifyVars, kvsVars, eventVars, wifiVars, viewerVars, detectionVars>>
    \/ /\ part = "kvs" /\ KvsNext
       /\ UNCHANGED <<part, notifyVars, sendVars, eventVars, wifiVars, viewerVars, detectionVars>>
    \/ /\ part = "events" /\ EventsNext
       /\ UNCHANGED <<part, notifyVars, sendVars, kvsVars, wifiVars, viewerVars, detectionVars>>
    \/ /\ part = "wifi" /\ WifiNext
       /\ UNCHANGED <<part, notifyVars, sendVars, kvsVars, eventVars, viewerVars, detectionVars>>
    \/ /\ part = "viewer" /\ ~(evicted \/ lostClosed \/ revived \/ late) /\ ViewerNext
       /\ UNCHANGED <<part, notifyVars, sendVars, kvsVars, eventVars, wifiVars, detectionVars>>
    \/ /\ part = "detection" /\ DetectionNext
       /\ UNCHANGED <<part, notifyVars, sendVars, kvsVars, eventVars, wifiVars, viewerVars>>

FirmwareSpec == FirmwareInit /\ [][FirmwareNext]_firmwareVars

\* The variables of every part have values of their types: those named in the header of each
\* module, with its counters and queues within their bounds.
TypesOK ==
    /\ NotifyTypeOK /\ SendTypeOK /\ KvsTypeOK /\ EventsTypeOK /\ WifiTypeOK /\ ViewerTypeOK
    /\ DetectionTypeOK

==============================================================================
