----------------------------- MODULE ViewerSession -----------------------------
(***************************************************************************)
(* One of the two slots for viewers: its session, the ICE controller below *)
(* it, and the count of ready viewers above it, which decides whether the  *)
(* media task encodes.                                                     *)
(*                                                                         *)
(* Five tasks act on a slot.  The signaling task starts it with an offer   *)
(* or a candidate; the session task takes requests from a queue and waits  *)
(* at a barrier between two sessions; the socket listener handles packets; *)
(* the timer task posts requests; and the media task finds sockets broken. *)
(* The state of the session is written by the first three, read by the     *)
(* first four, and guarded by nothing.  The session task and the listener  *)
(* both call PeerConnection_CloseSession and OnDtlsHandshakeComplete, and  *)
(* may be in them at once: a read of the state, a write of it and the      *)
(* callback of a track are steps of their own, and so is every other point *)
(* at which ICE changes.                                                   *)
(*                                                                         *)
(* Sources: app_common/app_common.c, peer_connection/peer_connection.c,    *)
(* ice_controller/*.c and app_media_source/app_media_source.c of           *)
(* Appli/Libraries/kvs_webrtc/examples, and AppMediaSourcePort_Start and   *)
(* _Stop of Appli/Common/app/kvs_webrtc/media/stm32_media_port.c.          *)
(***************************************************************************)
EXTENDS Naturals, Sequences

CONSTANTS
    RequestQueueLength,  \* PEER_CONNECTION_MAX_QUEUE_MSG_NUM
    MaxWaits,            \* turns of the closing timer within ICE_CONTROLLER_CLOSING_TIMEOUT_MS
    MaxSessions,         \* bound on the sessions begun
    MaxOffers,           \* bound on the offers, those that begin a session included
    MaxAlerts            \* bound on the DTLS errors and alerts

ASSUME ViewerAssumption ==
    /\ RequestQueueLength \in Nat \ {0}
    /\ {MaxWaits, MaxSessions, MaxOffers, MaxAlerts} \subseteq Nat

VARIABLES
    session,     \* state of the peer connection session
    tracks,      \* transceiverCount is not 0
    dtls,        \* "none", "handshaking", "ready" or "over"
    ice,         \* state of the ICE controller
    sockets,     \* "new" (addLocalCandidates), "none", "direct", or "relay" if one is on TURN
    nominated,   \* pNominatedSocketContext: "no", "live", or "broken" once its socket is freed
    polling,     \* executeSocketListener
    waits,       \* turns of the closing timer since closingStartMs
    iceTimer,    \* the one-shot timer of the ICE controller is set
    sdpTimer,    \* closeSessionTimer is set
    requests,    \* requestQueue
    call,        \* where each task is in PeerConnection_CloseSession or OnDtlsHandshakeComplete
    taskAt,      \* where the session task is, or goes on after that call
    barrier,     \* PEER_CONNECTION_START_UP_BARRIER_BIT
    listenerAt,  \* where the socket listener is, or goes on after that call
    offerAt,     \* where the signaling task is in PeerConnection_SetRemoteDescription
    sessions,    \* sessions begun so far
    offers,      \* offers so far
    alerts,      \* DTLS errors and alerts so far
    other,       \* the viewer in the other slot is ready
    counted,     \* numReadyPeer of each track
    streaming,   \* ucStreaming
    crossed,     \* (history) an exception to EncoderFollowsViewers has occurred
    evicted,     \* (history) the session task left its loop while ICE was not closed
    lostClosed,  \* (history) the queue was full when ICE had closed
    revived,     \* (history) ICE was closing when it was set to work again
    late         \* (history) the slot was free when a task came to set the state to closing

iceVars     == <<ice, sockets, nominated, polling, waits>>
timerVars   == <<iceTimer, sdpTimer>>
mediaVars   == <<counted, streaming>>
boundVars   == <<sessions, offers, alerts>>
historyVars == <<crossed, evicted, lostClosed, revived, late>>
viewerVars  == <<session, tracks, dtls, iceVars, timerVars, requests, call, taskAt, barrier,
                 listenerAt, offerAt, boundVars, other, mediaVars, historyVars>>

Tasks  == {"session", "listener"}
Tracks == {"video", "audio"}

-----------------------------------------------------------------------------

ViewerInit ==
    /\ session = "inited" /\ tracks = FALSE /\ dtls = "none"
    /\ ice = "new" /\ sockets = "none" /\ nominated = "no" /\ polling = FALSE /\ waits = 0
    /\ iceTimer = FALSE /\ sdpTimer = FALSE
    /\ requests = << >> /\ taskAt = "barrier" /\ barrier = FALSE
    /\ call = [p \in Tasks |-> "none"]
    /\ listenerAt = "poll" /\ offerAt = "idle" /\ sessions = 0 /\ offers = 0 /\ alerts = 0
    /\ other = FALSE /\ counted = [t \in Tracks |-> 0] /\ streaming = FALSE
    /\ crossed = FALSE /\ evicted = FALSE /\ lostClosed = FALSE /\ revived = FALSE /\ late = FALSE

-----------------------------------------------------------------------------

\* SendPeerConnectionEvent does nothing when the queue is full
Full(queue) == Len(queue) = RequestQueueLength

\* (mutant) a queue that overwrites its memory
PostedAlways(queue, request) == Append(queue, request)

Posted(queue, request) == IF Full(queue) THEN queue ELSE Append(queue, request)

Total(counts) == counts["video"] + counts["audio"]

\* OnPcEventRemotePeerReady for each of the tracks told; the count ends at AWS_MAX_VIEWER_NUM
PeerReady(told) ==
    /\ counted' = [t \in Tracks |->
                    IF t \in told /\ counted[t] < 2 THEN counted[t] + 1 ELSE counted[t]]
    /\ streaming' = (streaming \/ Total(counted) = 0)

\* OnPcEventRemotePeerClosed
PeerClosed(told) ==
    /\ counted' = [t \in Tracks |->
                    IF t \in told /\ counted[t] > 0 THEN counted[t] - 1 ELSE counted[t]]
    /\ streaming' = (streaming /\ Total(counted') # 0)

-----------------------------------------------------------------------------
(* PeerConnection_CloseSession and OnDtlsHandshakeComplete, which the session task and the
   listener go through step by step:
     "enter", "mute" or "loud", "closedVideo", "closedAudio", "ice", "destroy"
     "done", "readyVideo", "readyAudio"                                                    *)

Goes(p, place) == call' = [call EXCEPT ![p] = place]

Rival(p) == IF p = "session" THEN "listener" ELSE "session"

\* The places of the callbacks, and of the track each is for
ReadyCalls  == [readyVideo |-> "video", readyAudio |-> "audio"]
ClosedCalls == [closedVideo |-> "video", closedAudio |-> "audio"]

Tells(p) == call[p] \in DOMAIN ReadyCalls \cup DOMAIN ClosedCalls

\* Between its look at the state of the session and the last callback
Busy(p) == call[p] \in {"mute", "loud"} \/ Tells(p)

\* (mutant) the tracks are told whether or not they were told that the viewer is ready
SeesReady(p) ==
    /\ call[p] = "enter"
    /\ Goes(p, "loud")
    /\ UNCHANGED <<session, dtls, iceVars, timerVars, requests, mediaVars, historyVars>>

\* notifyTransceiver
SeesState(p) ==
    /\ call[p] = "enter"
    /\ Goes(p, IF session = "ready" THEN "loud" ELSE "mute")
    /\ UNCHANGED <<session, dtls, iceVars, timerVars, requests, mediaVars, historyVars>>

SetsClosing(p) ==
    /\ call[p] \in {"mute", "loud"}
    /\ session' = "closing"
    /\ Goes(p, IF call[p] = "loud" THEN "closedVideo" ELSE "ice")
    /\ crossed' = (crossed \/ (session = "ready" /\ Busy(Rival(p))))
    /\ late' = (late \/ session = "inited")
    /\ UNCHANGED <<dtls, iceVars, timerVars, requests, mediaVars, evicted, lostClosed, revived>>

\* The loop goes on only as long as there are transceivers
TellsClosed(p) ==
    /\ call[p] \in DOMAIN ClosedCalls
    /\ IF tracks THEN PeerClosed({ClosedCalls[call[p]]}) ELSE UNCHANGED mediaVars
    /\ Goes(p, IF tracks /\ call[p] = "closedVideo" THEN "closedAudio" ELSE "ice")
    /\ UNCHANGED <<session, dtls, iceVars, timerVars, requests, historyVars>>

\* The first switch of IceController_Destroy; an ICE controller that is closed ends the call
BeginsDestroy(p) ==
    /\ call[p] = "ice"
    /\ ice' = CASE ice = "new" -> "none" [] ice \in {"none", "closed"} -> ice [] OTHER -> "closing"
    /\ Goes(p, IF ice \in {"none", "closed"} THEN "none" ELSE "destroy")
    /\ UNCHANGED <<session, dtls, sockets, nominated, polling, waits, timerVars, requests,
                   mediaVars, historyVars>>

\* ICE is closed, and says so
IceCloses(queue) ==
    /\ sockets' = "none" /\ polling' = FALSE /\ ice' = "closed"
    /\ requests' = Posted(queue, "iceClosed")
    /\ lostClosed' = (lostClosed \/ Full(queue))

\* The rest of IceController_Destroy, and the timers
EndsDestroy(p) ==
    /\ call[p] = "destroy"
    /\ IF sockets = "relay"
       THEN /\ waits' = 0 /\ iceTimer' = TRUE
            /\ UNCHANGED <<sockets, polling, ice, requests, lostClosed>>
       ELSE IceCloses(requests) /\ UNCHANGED <<waits, iceTimer>>
    /\ sdpTimer' = FALSE
    /\ Goes(p, "none")
    /\ UNCHANGED <<session, dtls, nominated, mediaVars, crossed, evicted, revived, late>>

\* With a fingerprint that is right
SetsReady(p) ==
    /\ call[p] = "done"
    /\ session' = "ready"
    /\ Goes(p, "readyVideo")
    /\ crossed' = (crossed \/ session = "ready" \/ ~tracks \/ Busy(Rival(p)))
    /\ UNCHANGED <<dtls, iceVars, timerVars, requests, mediaVars, evicted, lostClosed, revived,
                   late>>

TellsReady(p) ==
    /\ call[p] \in DOMAIN ReadyCalls
    /\ IF tracks THEN PeerReady({ReadyCalls[call[p]]}) ELSE UNCHANGED mediaVars
    /\ Goes(p, IF tracks /\ call[p] = "readyVideo" THEN "readyAudio" ELSE "none")
    /\ UNCHANGED <<session, dtls, iceVars, timerVars, requests, historyVars>>

CallGoesOn(p) ==
    /\ \/ SeesState(p) \/ SetsClosing(p) \/ TellsClosed(p) \/ BeginsDestroy(p) \/ EndsDestroy(p)
       \/ SetsReady(p) \/ TellsReady(p)
    /\ UNCHANGED <<tracks, taskAt, barrier, listenerAt, offerAt, boundVars, other>>

\* OnClosePeerConnection
FreeSlot ==
    /\ session' = "inited" /\ tracks' = FALSE
    /\ crossed' = (crossed \/ session = "ready" \/ \E p \in Tasks : Tells(p))

-----------------------------------------------------------------------------
(* The signaling task. *)

\* AppCommon_GetPeerConnectionSession starts a session for an offer or for a candidate
BeginsWithOffer ==
    /\ offerAt = "idle" /\ session = "inited" /\ sessions < MaxSessions /\ offers < MaxOffers
    /\ session' = "start" /\ tracks' = TRUE /\ requests' = << >>
    /\ sessions' = sessions + 1 /\ offers' = offers + 1
    /\ offerAt' = "start"
    /\ UNCHANGED <<dtls, iceVars, timerVars, call, taskAt, barrier, listenerAt, alerts, other,
                   mediaVars, historyVars>>

BeginsWithCandidate ==
    /\ offerAt = "idle" /\ session = "inited" /\ sessions < MaxSessions
    /\ session' = "start" /\ tracks' = TRUE /\ requests' = <<"other">>
    /\ sdpTimer' = TRUE
    /\ sessions' = sessions + 1
    /\ UNCHANGED <<dtls, iceVars, iceTimer, call, taskAt, barrier, listenerAt, offerAt, offers,
                   alerts, other, mediaVars, historyVars>>

\* The offer after a candidate, or another offer of the same viewer
OfferArrives ==
    /\ offerAt = "idle" /\ session # "inited" /\ offers < MaxOffers
    /\ offerAt' = "start"
    /\ offers' = offers + 1
    /\ UNCHANGED <<session, tracks, dtls, iceVars, timerVars, requests, call, taskAt, barrier,
                   listenerAt, sessions, alerts, other, mediaVars, historyVars>>

\* The description is not accepted, DTLS or ICE cannot be set up, or RTP cannot once they are:
\* what has been done stays, and the answer is sent all the same
OfferFails ==
    /\ offerAt \in {"start", "run"}
    /\ dtls' \in IF offerAt = "start" THEN {dtls, "none", "handshaking"} ELSE {dtls}
    /\ offerAt' = "idle"
    /\ UNCHANGED <<session, tracks, iceVars, timerVars, requests, call, taskAt, barrier,
                   listenerAt, boundVars, other, mediaVars, historyVars>>

\* InitDtlsSession and IceController_Start, which ends with a call of OnTimerExpire
StartsIce ==
    /\ offerAt = "start"
    /\ dtls' = "handshaking"
    /\ ice' = "pairs" /\ sockets' = "new" /\ nominated' = "no" /\ polling' = TRUE
    /\ revived' = (revived \/ ice = "closing")
    /\ requests' = Posted(requests, "process")
    /\ iceTimer' = (iceTimer \/ Full(requests))
    /\ offerAt' = "run"
    /\ UNCHANGED <<session, tracks, waits, sdpTimer, call, taskAt, barrier, listenerAt, boundVars,
                   other, mediaVars, crossed, evicted, lostClosed, late>>

\* The state is set without a look at what it was
RunsSession ==
    /\ offerAt = "run"
    /\ session' = "find" /\ barrier' = TRUE
    /\ crossed' = (crossed \/ session = "ready")
    /\ offerAt' = "idle"
    /\ UNCHANGED <<tracks, dtls, iceVars, timerVars, requests, call, taskAt, listenerAt,
                   boundVars, other, mediaVars, evicted, lostClosed, revived, late>>

\* PeerConnection_AddRemoteCandidate; a sender report of RTCP is posted in the same way
CandidateArrives ==
    /\ offerAt = "idle" /\ session # "inited" /\ ~Full(requests)
    /\ sdpTimer' = (sdpTimer \/ session = "start")
    /\ requests' = Append(requests, "other")
    /\ UNCHANGED <<session, tracks, dtls, iceVars, iceTimer, call, taskAt, barrier, listenerAt,
                   offerAt, boundVars, other, mediaVars, historyVars>>

-----------------------------------------------------------------------------
(* The timer task. *)

\* OnCloseSessionTimerExpire
SdpTimerExpires ==
    /\ sdpTimer
    /\ sdpTimer' = FALSE
    /\ IF session = "start"
       THEN requests' = <<"closeNoIce">> /\ barrier' = TRUE
       ELSE UNCHANGED <<requests, barrier>>
    /\ UNCHANGED <<session, tracks, dtls, iceVars, iceTimer, call, taskAt, listenerAt, offerAt,
                   boundVars, other, mediaVars, historyVars>>

\* What OnTimerExpire asks for in each state of the ICE controller
TimerRequest == [pairs |-> "process", ready |-> "check", closing |-> "iceClosing",
                 closed |-> "iceClosed"]

\* OnTimerExpire; the timer is set again when the queue is full
IceTimerExpires ==
    /\ iceTimer /\ ice \in DOMAIN TimerRequest
    /\ requests' = Posted(requests, TimerRequest[ice])
    /\ iceTimer' = Full(requests)
    /\ UNCHANGED <<session, tracks, dtls, iceVars, sdpTimer, call, taskAt, barrier, listenerAt,
                   offerAt, boundVars, other, mediaVars, historyVars>>

-----------------------------------------------------------------------------
(* The session task. *)

PassesBarrier ==
    /\ taskAt = "barrier" /\ barrier
    /\ barrier' = FALSE /\ taskAt' = "loop"
    /\ UNCHANGED <<session, tracks, dtls, iceVars, timerVars, requests, call, listenerAt, offerAt,
                   boundVars, other, mediaVars, historyVars>>

\* The session task is at a place, and not in a call
TaskIs(place) == taskAt = place /\ call["session"] = "none"

Takes(request) == TaskIs("loop") /\ requests # << >> /\ Head(requests) = request

\* A candidate or a report: none of the state above depends on it
TakesOther ==
    /\ Takes("other")
    /\ requests' = Tail(requests) /\ taskAt' = "activity"
    /\ UNCHANGED <<session, tracks, dtls, iceVars, timerVars, call, barrier, listenerAt, offerAt,
                   boundVars, other, mediaVars, historyVars>>

\* IceController_ProcessIceCandidatesAndPairs, in any state of ICE.  After
\* ICE_CONTROLLER_CONNECTIVITY_CHECK_TIMEOUT_MS it asks for the end of the session.
TakesProcess ==
    /\ Takes("process")
    /\ sockets' \in IF sockets = "new" THEN {"none", "direct", "relay"} ELSE {sockets}
    /\ requests' \in {Tail(requests), Posted(Tail(requests), "close")}
    /\ iceTimer' = TRUE
    /\ taskAt' = "activity"
    /\ UNCHANGED <<session, tracks, dtls, ice, nominated, polling, waits, sdpTimer, call, barrier,
                   listenerAt, offerAt, boundVars, other, mediaVars, historyVars>>

\* IceController_PeriodConnectionCheck, and ExecuteDtlsHandshake when the handshake is under
\* way: nothing, the end of the handshake, or the end of the session
TakesCheck ==
    /\ Takes("check")
    /\ requests' = Tail(requests)
    /\ iceTimer' = (iceTimer \/ nominated # "no")
    /\ \/ taskAt' = "activity" /\ UNCHANGED <<dtls, call>>
       \/ /\ session = "found" /\ dtls = "handshaking"
          /\ dtls' = "ready" /\ Goes("session", "done")
          /\ taskAt' = "deadline"
       \/ /\ session = "found"
          /\ Goes("session", "enter")
          /\ taskAt' = "activity"
          /\ UNCHANGED dtls
    /\ UNCHANGED <<session, tracks, iceVars, sdpTimer, barrier, listenerAt, offerAt, boundVars,
                   other, mediaVars, historyVars>>

\* dtlsHandshakingTimeoutMs is looked at after a handshake that has ended, too
ChecksDeadline ==
    /\ TaskIs("deadline")
    /\ taskAt' = "activity"
    /\ Goes("session", "enter") \/ UNCHANGED call
    /\ UNCHANGED <<session, tracks, dtls, iceVars, timerVars, requests, barrier, listenerAt,
                   offerAt, boundVars, other, mediaVars, historyVars>>


\* IceController_AddressClosing: while a socket waits for TURN the timer is set again, until
\* ICE_CONTROLLER_CLOSING_TIMEOUT_MS have passed
TakesIceClosing ==
    /\ Takes("iceClosing")
    /\ \/ /\ sockets \in {"direct", "relay"} /\ waits < MaxWaits
          /\ waits' = waits + 1 /\ iceTimer' = TRUE /\ requests' = Tail(requests)
          /\ UNCHANGED <<ice, sockets, polling, lostClosed>>
       \/ IceCloses(Tail(requests)) /\ UNCHANGED <<waits, iceTimer>>
    /\ taskAt' = "activity"
    /\ UNCHANGED <<session, tracks, dtls, nominated, sdpTimer, call, barrier, listenerAt, offerAt,
                   boundVars, other, mediaVars, crossed, evicted, revived, late>>

\* OnClosePeerConnection, and back to the barrier
TakesIceClosed ==
    /\ Takes("iceClosed")
    /\ FreeSlot
    /\ evicted' = (evicted \/ ice # "closed")
    /\ requests' = Tail(requests) /\ taskAt' = "barrier"
    /\ UNCHANGED <<dtls, iceVars, timerVars, call, barrier, listenerAt, offerAt, boundVars, other,
                   mediaVars, lostClosed, revived, late>>

TakesClose ==
    /\ Takes("close") \/ Takes("closeNoIce")
    /\ Goes("session", "enter")
    /\ requests' = Tail(requests)
    /\ taskAt' = IF Takes("close") THEN "activity" ELSE "free"
    /\ UNCHANGED <<session, tracks, dtls, iceVars, timerVars, barrier, listenerAt, offerAt,
                   boundVars, other, mediaVars, historyVars>>

\* A session without ICE is freed at once
Frees ==
    /\ TaskIs("free")
    /\ FreeSlot
    /\ taskAt' = "activity"
    /\ UNCHANGED <<dtls, iceVars, timerVars, requests, call, barrier, listenerAt, offerAt,
                   boundVars, other, mediaVars, evicted, lostClosed, revived, late>>

\* After each request: is the viewer still there?
ChecksActivity ==
    /\ TaskIs("activity")
    /\ taskAt' = "loop"
    /\ \/ session = "ready" /\ Goes("session", "enter")
       \/ UNCHANGED call
    /\ UNCHANGED <<session, tracks, dtls, iceVars, timerVars, requests, barrier, listenerAt,
                   offerAt, boundVars, other, mediaVars, historyVars>>

-----------------------------------------------------------------------------
(* The socket listener. *)

Receives ==
    /\ listenerAt = "poll" /\ call["listener"] = "none"
    /\ polling /\ sockets \in {"direct", "relay"}

\* UpdateNominatedSocketContext with the first pair, and ExecuteDtlsHandshake: the handshake
\* is under way, or its time, which began with the offer, is over
FindsPair ==
    /\ Receives /\ nominated = "no"
    /\ nominated' = "live" /\ iceTimer' = TRUE
    /\ ice' = "ready"
    /\ revived' = (revived \/ ice = "closing")
    /\ Goes("listener", "enter") \/ UNCHANGED call
    /\ listenerAt' = "found"
    /\ UNCHANGED <<session, tracks, dtls, sockets, polling, waits, sdpTimer, requests, taskAt,
                   barrier, offerAt, boundVars, other, mediaVars, crossed, evicted,
                   lostClosed, late>>

\* HandleIceEventCallback sets the state after the call of ExecuteDtlsHandshake, which may
\* have closed the session
SetsFound ==
    /\ listenerAt = "found" /\ call["listener"] = "none"
    /\ session' = "found" /\ listenerAt' = "poll"
    /\ crossed' = (crossed \/ session = "ready")
    /\ UNCHANGED <<tracks, dtls, iceVars, timerVars, requests, call, taskAt, barrier, offerAt,
                   boundVars, other, mediaVars, evicted, lostClosed, revived, late>>

HandshakeEnds ==
    /\ Receives /\ nominated # "no" /\ dtls = "handshaking"
    /\ dtls' = "ready" /\ Goes("listener", "done")
    /\ UNCHANGED <<session, tracks, iceVars, timerVars, requests, taskAt, barrier, listenerAt,
                   offerAt, boundVars, other, mediaVars, historyVars>>

\* An alert, an error, or the wrong certificate: HandleDtlsTermination
DtlsFails ==
    /\ Receives /\ nominated # "no" /\ alerts < MaxAlerts
    /\ alerts' = alerts + 1
    /\ dtls' = "over" /\ Goes("listener", "enter")
    /\ UNCHANGED <<session, tracks, iceVars, timerVars, requests, taskAt, barrier, listenerAt,
                   offerAt, sessions, offers, other, mediaVars, historyVars>>

-----------------------------------------------------------------------------
(* The network, and the other slot. *)

\* TURN confirms a release, or a socket fails before it is nominated
SocketGoes ==
    /\ sockets \in {"direct", "relay"}
    /\ sockets' \in {"none", "direct"} \ {sockets}
    /\ UNCHANGED <<session, tracks, dtls, ice, nominated, polling, waits, timerVars, requests,
                   call, taskAt, barrier, listenerAt, offerAt, boundVars, other, mediaVars,
                   historyVars>>

\* The nominated socket has failed too often: it is freed, and not sent to any more
SendFails ==
    /\ nominated = "live" /\ sockets \in {"direct", "relay"}
    /\ nominated' = "broken" /\ sockets' \in {"none", "direct", sockets}
    /\ requests' = Posted(requests, "close")
    /\ iceTimer' = TRUE
    /\ UNCHANGED <<session, tracks, dtls, ice, polling, waits, sdpTimer, call, taskAt, barrier,
                   listenerAt, offerAt, boundVars, other, mediaVars, historyVars>>

\* Its two callbacks are one step here: each track has a count of its own, and the media task
\* is started by the first and stopped by the last
OtherViewer ==
    /\ other' = ~other
    /\ IF other THEN PeerClosed(Tracks) ELSE PeerReady(Tracks)
    /\ UNCHANGED <<session, tracks, dtls, iceVars, timerVars, requests, call, taskAt, barrier,
                   listenerAt, offerAt, boundVars, historyVars>>

-----------------------------------------------------------------------------

Signaling ==
    \/ BeginsWithOffer \/ BeginsWithCandidate \/ OfferArrives \/ OfferFails
    \/ StartsIce \/ RunsSession \/ CandidateArrives

SessionTask ==
    \/ PassesBarrier \/ TakesOther \/ TakesProcess \/ TakesCheck \/ TakesIceClosing
    \/ TakesIceClosed \/ TakesClose \/ Frees \/ ChecksDeadline \/ ChecksActivity
    \/ CallGoesOn("session")

\* What the listener does with what it has begun
ListenerTask == CallGoesOn("listener") \/ SetsFound

Listener == FindsPair \/ HandshakeEnds \/ DtlsFails \/ ListenerTask

Network == SocketGoes \/ SendFails \/ OtherViewer

ViewerNext == Signaling \/ SdpTimerExpires \/ IceTimerExpires \/ SessionTask \/ Listener \/ Network

\* The session task takes its requests, a task that has begun to start or to close a session
\* goes on, and the timer of ICE, which tries again as often as the queue is full, finds room:
\* a viewer has a finite number of candidates
ViewerFairness ==
    /\ WF_viewerVars(SessionTask) /\ WF_viewerVars(ListenerTask) /\ WF_viewerVars(RunsSession)
    /\ SF_viewerVars(IceTimerExpires /\ ~Full(requests))

ViewerSpec == ViewerInit /\ [][ViewerNext]_viewerVars

-----------------------------------------------------------------------------
(* Properties. *)

ViewerTypeOK ==
    /\ session \in {"inited", "start", "find", "found", "ready", "closing"}
    /\ dtls \in {"none", "handshaking", "ready", "over"}
    /\ ice \in {"new", "none", "pairs", "ready", "closing", "closed"}
    /\ sockets \in {"new", "none", "direct", "relay"} /\ nominated \in {"no", "live", "broken"}
    /\ {tracks, polling, iceTimer, sdpTimer, barrier, streaming,
        crossed, evicted, lostClosed, revived, late} \subseteq BOOLEAN
    /\ requests \in Seq({"other", "process", "check", "iceClosing", "iceClosed", "close",
                         "closeNoIce"})
    /\ Len(requests) <= RequestQueueLength
    /\ call \in [Tasks -> {"none", "enter", "mute", "loud", "ice", "destroy", "done"}
                           \cup DOMAIN ReadyCalls \cup DOMAIN ClosedCalls]
    /\ taskAt \in {"barrier", "loop", "deadline", "activity", "free"}
    /\ listenerAt \in {"poll", "found"}
    /\ offerAt \in {"idle", "start", "run"}
    /\ waits \in 0..MaxWaits /\ sessions \in 0..MaxSessions
    /\ offers \in 0..MaxOffers /\ alerts \in 0..MaxAlerts
    /\ other \in BOOLEAN /\ counted \in [Tracks -> 0..2]

One(condition) == IF condition THEN 1 ELSE 0

\* Whenever no task is in the middle of telling the tracks, each has counted the viewers that
\* are ready, and the media task encodes exactly while there is one ("Encode + transmit ONLY
\* while a KVS session is active").  So it is as long as the session task and the listener
\* keep out of each other's way: the exceptions are that one of them makes the session ready,
\* or closes a ready session, while the other is between its look at the state and its last
\* callback; that a new offer, a new pair or OnClosePeerConnection overwrites the ready state
\* or takes the tracks away from under a callback; and that the session becomes ready twice,
\* or without tracks.
EncoderFollowsViewers ==
    \/ crossed
    \/ \E p \in Tasks : Tells(p)
    \/ /\ \A t \in Tracks : counted[t] = One(other) + One(session = "ready")
       /\ streaming = (other \/ session = "ready")


=============================================================================
