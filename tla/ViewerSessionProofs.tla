------------------------- MODULE ViewerSessionProofs --------------------------
(***************************************************************************)
(* Safety of a viewer's slot, for queues of any length and any number of   *)
(* sessions, offers and alerts, checked by TLAPS.                          *)
(***************************************************************************)
EXTENDS ViewerSession, TLAPS

-----------------------------------------------------------------------------
(* The two invariants.                                                     *)

Requests == {"other", "process", "check", "iceClosing", "iceClosed", "close", "closeNoIce"}

\* Places of a call, those first from which nothing is told and nothing has been read
Quiet  == {"none", "enter", "ice", "destroy", "done"}
Places == Quiet \cup {"mute", "loud", "closedVideo", "closedAudio", "readyVideo", "readyAudio"}

CallsTyped == call \in [Tasks -> Places]

At(place) == \E p \in Tasks : call[p] = place

\* The track has been told that the viewer is ready, and not yet that it has gone
ToldVideo ==
    \/ session = "ready" /\ ~At("readyVideo")
    \/ At("closedVideo")

ToldAudio ==
    \/ session = "ready" /\ ~At("readyVideo") /\ ~At("readyAudio")
    \/ At("closedVideo")
    \/ At("closedAudio")

\* What a task has read of the session, or tells of it, is still so, and only one task tells
CallsAgree ==
    \A p \in Tasks :
        /\ call[p] = "mute" => session # "ready"
        /\ call[p] = "loud" => session = "ready"
        /\ call[p] \in {"closedVideo", "closedAudio"} => session # "ready"
        /\ call[p] \in {"readyVideo", "readyAudio"} => session = "ready"
        /\ Tells(p) => tracks /\ ~Tells(Rival(p))

CountsAgree ==
    /\ counted["video"] = One(other) + One(ToldVideo)
    /\ counted["audio"] = One(other) + One(ToldAudio)
    /\ streaming <=> Total(counted) # 0

\* EncoderFollowsViewers, also while a task is telling the tracks
ReadyIsCounted ==
    /\ streaming \in BOOLEAN /\ other \in BOOLEAN
    /\ ~crossed => /\ session = "ready" => tracks
                   /\ CallsAgree
                   /\ CountsAgree

\* ViewerTypeOK in parts, one for each way its steps are checked
StatesTyped ==
    /\ session \in {"inited", "start", "find", "found", "ready", "closing"}
    /\ dtls \in {"none", "handshaking", "ready", "over"}
    /\ ice \in {"new", "none", "pairs", "ready", "closing", "closed"}
    /\ sockets \in {"new", "none", "direct", "relay"}
    /\ nominated \in {"no", "live", "broken"}
    /\ taskAt \in {"barrier", "loop", "deadline", "activity", "free"}
    /\ listenerAt \in {"poll", "found"}
    /\ offerAt \in {"idle", "start", "run"}

FlagsTyped ==
    /\ tracks \in BOOLEAN /\ polling \in BOOLEAN /\ iceTimer \in BOOLEAN
    /\ sdpTimer \in BOOLEAN /\ barrier \in BOOLEAN /\ other \in BOOLEAN
    /\ streaming \in BOOLEAN /\ crossed \in BOOLEAN /\ evicted \in BOOLEAN
    /\ lostClosed \in BOOLEAN /\ revived \in BOOLEAN /\ late \in BOOLEAN

NumbersTyped ==
    /\ waits \in 0..MaxWaits /\ sessions \in 0..MaxSessions
    /\ offers \in 0..MaxOffers /\ alerts \in 0..MaxAlerts
    /\ counted \in [Tracks -> 0..2]

RequestsTyped ==
    /\ requests \in Seq(Requests)
    /\ Len(requests) <= RequestQueueLength

FieldsTyped == CallsTyped /\ StatesTyped /\ FlagsTyped /\ NumbersTyped /\ RequestsTyped

-----------------------------------------------------------------------------
(* The queue.                                                              *)

LEMMA PostedStaysQueue ==
    ASSUME NEW queue \in Seq(Requests), Len(queue) <= RequestQueueLength, NEW request \in Requests
    PROVE  /\ Posted(queue, request) \in Seq(Requests)
           /\ Len(Posted(queue, request)) <= RequestQueueLength
BY ViewerAssumption DEF Posted, Full

LEMMA TailStaysQueue ==
    ASSUME NEW queue \in Seq(Requests), Len(queue) <= RequestQueueLength, queue # << >>
    PROVE  Tail(queue) \in Seq(Requests) /\ Len(Tail(queue)) <= RequestQueueLength
BY ViewerAssumption

LEMMA SingleStaysQueue ==
    ASSUME NEW request \in Requests
    PROVE  <<request>> \in Seq(Requests) /\ Len(<<request>>) <= RequestQueueLength
BY ViewerAssumption

-----------------------------------------------------------------------------
(* Where the tasks are.                                                    *)

LEMMA TwoTasks ==
    ASSUME NEW p \in Tasks
    PROVE  Rival(p) \in Tasks /\ Rival(p) # p /\ Rival(Rival(p)) = p /\ Tasks = {p, Rival(p)}
BY DEF Tasks, Rival

LEMMA TellsPlaces ==
    ASSUME NEW p
    PROVE  /\ DOMAIN ReadyCalls = {"readyVideo", "readyAudio"}
           /\ DOMAIN ClosedCalls = {"closedVideo", "closedAudio"}
           /\ Tells(p) <=> call[p] \in {"readyVideo", "readyAudio", "closedVideo", "closedAudio"}
           /\ Tells(p)' <=> call'[p] \in {"readyVideo", "readyAudio", "closedVideo", "closedAudio"}
BY DEF ReadyCalls, ClosedCalls, Tells

LEMMA GoesThere ==
    ASSUME CallsTyped, NEW p \in Tasks, NEW place \in Places, Goes(p, place)
    PROVE  /\ CallsTyped'
           /\ call'[p] = place
           /\ call'[Rival(p)] = call[Rival(p)]
BY TwoTasks DEF CallsTyped, Goes

LEMMA CallsInit == ViewerInit => CallsTyped
BY DEF ViewerInit, CallsTyped, Places, Quiet

LEMMA CallsStep == CallsTyped /\ [ViewerNext]_viewerVars => CallsTyped'
<1> SUFFICES ASSUME CallsTyped, [ViewerNext]_viewerVars PROVE CallsTyped'
  OBVIOUS
<1>1. ASSUME NEW p \in Tasks, NEW place \in Places, Goes(p, place) PROVE CallsTyped'
  BY <1>1, GoesThere
<1>2. ASSUME UNCHANGED call PROVE CallsTyped'
  BY <1>2 DEF CallsTyped
<1>3. "session" \in Tasks /\ "listener" \in Tasks
  BY DEF Tasks
<1>4. "none" \in Places /\ "enter" \in Places /\ "done" \in Places
  BY DEF Places, Quiet
<1>5. ASSUME NEW p \in Tasks, CallGoesOn(p) PROVE CallsTyped'
  <2>1. \E place \in Places : Goes(p, place)
    BY <1>5 DEF CallGoesOn, SeesState, SetsClosing, TellsClosed, BeginsDestroy, EndsDestroy,
                SetsReady, TellsReady, Places, Quiet
  <2>2. QED
    BY <2>1, <1>1
<1>6. CASE Signaling \/ SdpTimerExpires \/ IceTimerExpires
  BY <1>6, <1>2
     DEF Signaling, BeginsWithOffer, BeginsWithCandidate, OfferArrives, OfferFails, StartsIce,
         RunsSession, CandidateArrives, SdpTimerExpires, IceTimerExpires
<1>7. CASE SessionTask
  <2>1. CASE PassesBarrier \/ TakesOther \/ TakesProcess \/ TakesIceClosing
             \/ TakesIceClosed \/ Frees
    BY <2>1, <1>2
       DEF PassesBarrier, TakesOther, TakesProcess, TakesIceClosing, TakesIceClosed, Frees
  <2>2. CASE TakesCheck \/ TakesClose \/ ChecksDeadline \/ ChecksActivity
    BY <2>2, <1>1, <1>2, <1>3, <1>4 DEF TakesCheck, TakesClose, ChecksDeadline, ChecksActivity
  <2>3. QED
    BY <1>7, <1>3, <1>5, <2>1, <2>2 DEF SessionTask
<1>8. CASE Listener
  <2>1. CASE FindsPair \/ HandshakeEnds \/ DtlsFails
    BY <2>1, <1>1, <1>2, <1>3, <1>4 DEF FindsPair, HandshakeEnds, DtlsFails
  <2>2. CASE SetsFound
    BY <2>2, <1>2 DEF SetsFound
  <2>3. QED
    BY <1>8, <1>3, <1>5, <2>1, <2>2 DEF Listener, ListenerTask
<1>9. CASE Network \/ UNCHANGED viewerVars
  BY <1>9, <1>2 DEF Network, SocketGoes, SendFails, OtherViewer, viewerVars
<1>10. QED
  BY <1>6, <1>7, <1>8, <1>9 DEF ViewerNext

-----------------------------------------------------------------------------
(* The count of ready viewers.                                             *)

LEMMA ReadyIsCountedInit == ViewerInit => ReadyIsCounted
<1> SUFFICES ASSUME ViewerInit PROVE ReadyIsCounted
  OBVIOUS
<1>1. streaming = FALSE /\ other = FALSE
  BY Zenon DEF ViewerInit
<1>2. \A p \in Tasks : call[p] = "none"
  BY DEF ViewerInit
<1>3. CallsAgree
  BY <1>2, TellsPlaces DEF CallsAgree
<1>4. CountsAgree
  BY <1>1, <1>2 DEF ViewerInit, CountsAgree, ToldVideo, ToldAudio, At, One, Total, Tracks
<1>5. QED
  BY <1>1, <1>3, <1>4 DEF ViewerInit, ReadyIsCounted

LEMMA CountIsExact == ReadyIsCounted => EncoderFollowsViewers
<1> SUFFICES ASSUME ReadyIsCounted, ~crossed, \A p \in Tasks : ~Tells(p)
             PROVE  EncoderFollowsViewers
  BY Zenon DEF EncoderFollowsViewers
<1>1. ~At("readyVideo") /\ ~At("readyAudio") /\ ~At("closedVideo") /\ ~At("closedAudio")
  BY TellsPlaces DEF At
<1>2. (ToldVideo <=> session = "ready") /\ (ToldAudio <=> session = "ready")
  BY <1>1 DEF ToldVideo, ToldAudio
<1>3. \A t \in Tracks : counted[t] = One(other) + One(session = "ready")
  BY <1>2 DEF ReadyIsCounted, CountsAgree, Tracks, One
<1>4. streaming <=> (other \/ session = "ready")
  BY <1>3 DEF ReadyIsCounted, CountsAgree, Tracks, One, Total
<1>5. streaming = (other \/ session = "ready")
  BY <1>4, Zenon DEF ReadyIsCounted
<1>6. QED
  BY <1>3, <1>5, Zenon DEF EncoderFollowsViewers

LEMMA PeerClosedCounts ==
    ASSUME NEW told, PeerClosed(told)
    PROVE  /\ streaming' \in BOOLEAN
           /\ streaming' <=> (streaming /\ Total(counted') # 0)
           /\ \A t \in Tracks :
                counted'[t] = IF t \in told /\ counted[t] > 0 THEN counted[t] - 1 ELSE counted[t]
<1>1. streaming' \in BOOLEAN /\ (streaming' <=> (streaming /\ Total(counted') # 0))
  BY Zenon DEF PeerClosed
<1>2. QED
  BY <1>1 DEF PeerClosed

LEMMA PeerReadyCounts ==
    ASSUME NEW told, PeerReady(told)
    PROVE  /\ streaming' \in BOOLEAN
           /\ streaming' <=> (streaming \/ Total(counted) = 0)
           /\ \A t \in Tracks :
                counted'[t] = IF t \in told /\ counted[t] < 2 THEN counted[t] + 1 ELSE counted[t]
<1>1. streaming' \in BOOLEAN /\ (streaming' <=> (streaming \/ Total(counted) = 0))
  BY Zenon DEF PeerReady
<1>2. QED
  BY <1>1 DEF PeerReady

\* Nobody moves between the places that matter, and the session does not become ready or cease
\* to be
LEMMA QuietKeepsCount ==
    ASSUME ReadyIsCounted, UNCHANGED <<counted, streaming, other>>,
           \A p \in Tasks : call'[p] = call[p] \/ {call[p], call'[p]} \subseteq Quiet,
           ~crossed' => /\ ~crossed
                        /\ session' = session \/ (session # "ready" /\ session' # "ready")
                        /\ tracks => (tracks' \/ (session # "ready" /\ \A p \in Tasks : ~Tells(p)))
    PROVE  ReadyIsCounted'
<1> SUFFICES ASSUME ~crossed' PROVE (session = "ready" => tracks)' /\ CallsAgree' /\ CountsAgree'
  BY DEF ReadyIsCounted
<1>1. ASSUME NEW place, place \notin Quiet
      PROVE  \A p \in Tasks : call'[p] = place <=> call[p] = place
  BY <1>1
<1>2. /\ \A p \in Tasks : Tells(p)' <=> Tells(p)
      /\ At("readyVideo")' <=> At("readyVideo")
      /\ At("readyAudio")' <=> At("readyAudio")
      /\ At("closedVideo")' <=> At("closedVideo")
      /\ At("closedAudio")' <=> At("closedAudio")
  BY <1>1, TellsPlaces DEF At, Quiet
<1>3. session' = "ready" <=> session = "ready"
  OBVIOUS
<1>4. (session = "ready" => tracks)'
  BY <1>3 DEF ReadyIsCounted
<1>5. CallsAgree'
  BY <1>1, <1>2, <1>3, TwoTasks DEF ReadyIsCounted, CallsAgree, Quiet
<1>6. CountsAgree'
  BY <1>2, <1>3 DEF ReadyIsCounted, CountsAgree, ToldVideo, ToldAudio, Total
<1>7. QED
  BY <1>4, <1>5, <1>6

\* A look at the state of the session, which is then what the task goes by
LEMMA SeeingKeepsCount ==
    ASSUME ReadyIsCounted, CallsTyped, NEW p \in Tasks, SeesState(p), UNCHANGED <<tracks, other>>
    PROVE  ReadyIsCounted'
<1> USE DEF mediaVars, historyVars
<1>1. /\ call[p] = "enter" /\ UNCHANGED <<session, crossed, counted, streaming>>
      /\ call'[p] = IF session = "ready" THEN "loud" ELSE "mute"
      /\ call'[Rival(p)] = call[Rival(p)]
  BY GoesThere DEF SeesState, Places, Quiet
<1> SUFFICES ASSUME ~crossed PROVE CallsAgree' /\ CountsAgree'
  BY <1>1 DEF ReadyIsCounted
<1>2. /\ Tells(p)' <=> Tells(p)
      /\ Tells(Rival(p))' <=> Tells(Rival(p))
      /\ At("readyVideo")' <=> At("readyVideo")
      /\ At("readyAudio")' <=> At("readyAudio")
      /\ At("closedVideo")' <=> At("closedVideo")
      /\ At("closedAudio")' <=> At("closedAudio")
  BY <1>1, TwoTasks, TellsPlaces DEF At
<1>3. CallsAgree'
  BY <1>1, <1>2, TwoTasks DEF ReadyIsCounted, CallsAgree
<1>4. CountsAgree'
  BY <1>1, <1>2 DEF ReadyIsCounted, CountsAgree, ToldVideo, ToldAudio, Total
<1>5. QED
  BY <1>3, <1>4

\* The state of a session that was ready becomes closing: its tracks are still to be told
LEMMA ClosingKeepsCount ==
    ASSUME ReadyIsCounted, CallsTyped, NEW p \in Tasks, SetsClosing(p), UNCHANGED <<tracks, other>>
    PROVE  ReadyIsCounted'
<1> USE DEF mediaVars
<1>1. /\ call[p] \in {"mute", "loud"} /\ session' = "closing" /\ UNCHANGED <<counted, streaming>>
      /\ call'[p] = IF call[p] = "loud" THEN "closedVideo" ELSE "ice"
      /\ call'[Rival(p)] = call[Rival(p)]
  BY GoesThere DEF SetsClosing, Places, Quiet
<1>2. crossed' <=> (crossed \/ (session = "ready" /\ Busy(Rival(p))))
  BY Zenon DEF SetsClosing
<1> SUFFICES ASSUME ~crossed, session = "ready" => ~Busy(Rival(p)) PROVE CallsAgree' /\ CountsAgree'
  BY <1>1, <1>2 DEF ReadyIsCounted
<1> DEFINE q == Rival(p)
<1>3. CASE call[p] = "loud"
  <2>1. session = "ready" /\ tracks /\ ~Tells(q) /\ call[q] \notin {"mute", "loud"} /\ ~Tells(p)
    BY <1>3, TellsPlaces DEF ReadyIsCounted, CallsAgree, Busy
  <2>2. /\ ~At("readyVideo") /\ ~At("readyAudio") /\ ~At("closedVideo") /\ ~At("closedAudio")
        /\ At("closedVideo")' /\ ~At("readyVideo")' /\ ~At("readyAudio")'
        /\ ~Tells(q)'
    BY <1>1, <1>3, <2>1, TwoTasks, TellsPlaces DEF At
  <2>3. CallsAgree'
    BY <1>1, <1>3, <2>1, <2>2, TwoTasks, TellsPlaces DEF CallsAgree
  <2>4. CountsAgree'
    BY <1>1, <2>1, <2>2 DEF ReadyIsCounted, CountsAgree, ToldVideo, ToldAudio, Total
  <2>5. QED
    BY <2>3, <2>4
<1>4. CASE call[p] = "mute"
  <2>1. session # "ready" /\ call[q] \notin {"loud", "readyVideo", "readyAudio"}
    BY <1>4, TwoTasks DEF ReadyIsCounted, CallsAgree
  <2>2. /\ Tells(p)' <=> Tells(p)
        /\ Tells(q)' <=> Tells(q)
        /\ At("readyVideo")' <=> At("readyVideo")
        /\ At("readyAudio")' <=> At("readyAudio")
        /\ At("closedVideo")' <=> At("closedVideo")
        /\ At("closedAudio")' <=> At("closedAudio")
    BY <1>1, <1>4, TwoTasks, TellsPlaces DEF At
  <2>3. CallsAgree'
    BY <1>1, <1>4, <2>1, <2>2, TwoTasks DEF ReadyIsCounted, CallsAgree
  <2>4. CountsAgree'
    BY <1>1, <2>1, <2>2 DEF ReadyIsCounted, CountsAgree, ToldVideo, ToldAudio, Total
  <2>5. QED
    BY <2>3, <2>4
<1>5. QED
  BY <1>1, <1>3, <1>4

\* A track is told that the viewer has gone
LEMMA TellingClosedCounts ==
    ASSUME ReadyIsCounted, CallsTyped, NEW p \in Tasks, TellsClosed(p), UNCHANGED <<tracks, other>>
    PROVE  ReadyIsCounted'
<1> USE DEF historyVars
<1> DEFINE q == Rival(p)
<1>1. /\ call[p] \in {"closedVideo", "closedAudio"} /\ UNCHANGED <<session, crossed>>
      /\ call'[p] = IF tracks /\ call[p] = "closedVideo" THEN "closedAudio" ELSE "ice"
      /\ call'[q] = call[q]
  BY GoesThere, TellsPlaces DEF TellsClosed, Places, Quiet
<1>2. CASE crossed
  BY <1>1, <1>2, PeerClosedCounts DEF TellsClosed, ReadyIsCounted, mediaVars
<1>3. CASE ~crossed
  <2>1. session # "ready" /\ tracks /\ ~Tells(q)
    BY <1>1, <1>3, TellsPlaces DEF ReadyIsCounted, CallsAgree
  <2>2. /\ ~At("readyVideo") /\ ~At("readyAudio")
        /\ At("closedVideo") <=> call[p] = "closedVideo"
        /\ At("closedAudio") <=> call[p] = "closedAudio"
        /\ ~At("closedVideo")'
        /\ At("closedAudio")' <=> call[p] = "closedVideo"
        /\ ~Tells(q)'
    BY <1>1, <2>1, TwoTasks, TellsPlaces DEF At
  <2>3. CallsAgree'
    BY <1>1, <1>3, <2>1, <2>2, TwoTasks, TellsPlaces DEF ReadyIsCounted, CallsAgree
  <2>4. ToldVideo' = FALSE /\ (ToldAudio' <=> call[p] = "closedVideo") /\ ToldAudio
        /\ (ToldVideo <=> call[p] = "closedVideo")
    BY <1>1, <2>1, <2>2 DEF ToldVideo, ToldAudio
  <2>5. PeerClosed({ClosedCalls[call[p]]})
    BY <2>1 DEF TellsClosed
  <2>6. CASE call[p] = "closedVideo"
    <3>1. ClosedCalls[call[p]] = "video"
      BY <2>6 DEF ClosedCalls
    <3>2. counted'["video"] = counted["video"] - 1 /\ counted'["audio"] = counted["audio"]
      BY <1>3, <2>4, <2>5, <2>6, <3>1, PeerClosedCounts DEF ReadyIsCounted, CountsAgree, One, Tracks
    <3>3. CountsAgree'
      BY <1>3, <2>4, <2>5, <2>6, <3>2, PeerClosedCounts DEF ReadyIsCounted, CountsAgree, One, Total
    <3>4. QED
      BY <1>1, <2>1, <2>3, <2>5, <3>3, PeerClosedCounts DEF ReadyIsCounted
  <2>7. CASE call[p] = "closedAudio"
    <3>1. ClosedCalls[call[p]] = "audio"
      BY <2>7 DEF ClosedCalls
    <3>2. counted'["video"] = counted["video"] /\ counted'["audio"] = counted["audio"] - 1
      BY <1>3, <2>4, <2>5, <2>7, <3>1, PeerClosedCounts DEF ReadyIsCounted, CountsAgree, One, Tracks
    <3>3. CountsAgree'
      BY <1>3, <2>4, <2>5, <2>7, <3>2, PeerClosedCounts DEF ReadyIsCounted, CountsAgree, One, Total
    <3>4. QED
      BY <1>1, <2>1, <2>3, <2>5, <3>3, PeerClosedCounts DEF ReadyIsCounted
  <2>8. QED
    BY <1>1, <2>6, <2>7
<1>4. QED
  BY <1>2, <1>3

\* The session becomes ready: its tracks are still to be told
LEMMA ReadyKeepsCount ==
    ASSUME ReadyIsCounted, CallsTyped, NEW p \in Tasks, SetsReady(p), UNCHANGED <<tracks, other>>
    PROVE  ReadyIsCounted'
<1> USE DEF mediaVars
<1> DEFINE q == Rival(p)
<1>1. /\ call[p] = "done" /\ session' = "ready" /\ UNCHANGED <<counted, streaming>>
      /\ call'[p] = "readyVideo" /\ call'[q] = call[q]
  BY GoesThere DEF SetsReady, Places, Quiet
<1>2. crossed' <=> (crossed \/ session = "ready" \/ ~tracks \/ Busy(q))
  BY Zenon DEF SetsReady
<1> SUFFICES ASSUME ~crossed, session # "ready", tracks, ~Busy(q) PROVE CallsAgree' /\ CountsAgree'
  BY <1>1, <1>2 DEF ReadyIsCounted
<1>3. ~Tells(p) /\ ~Tells(q) /\ call[q] \notin {"mute", "loud"}
  BY <1>1, TellsPlaces DEF Busy
<1>4. /\ ~At("closedVideo") /\ ~At("closedAudio")
      /\ ~At("closedVideo")' /\ ~At("closedAudio")' /\ At("readyVideo")'
      /\ ~Tells(q)'
  BY <1>1, <1>3, TwoTasks, TellsPlaces DEF At
<1>5. CallsAgree'
  BY <1>1, <1>3, <1>4, TwoTasks, TellsPlaces DEF CallsAgree
<1>6. CountsAgree'
  BY <1>1, <1>4 DEF ReadyIsCounted, CountsAgree, ToldVideo, ToldAudio, Total
<1>7. QED
  BY <1>5, <1>6

\* A track is told that the viewer is ready
LEMMA TellingReadyCounts ==
    ASSUME ReadyIsCounted, CallsTyped, NEW p \in Tasks, TellsReady(p), UNCHANGED <<tracks, other>>
    PROVE  ReadyIsCounted'
<1> USE DEF historyVars
<1> DEFINE q == Rival(p)
<1>1. /\ call[p] \in {"readyVideo", "readyAudio"} /\ UNCHANGED <<session, crossed>>
      /\ call'[p] = IF tracks /\ call[p] = "readyVideo" THEN "readyAudio" ELSE "none"
      /\ call'[q] = call[q]
  BY GoesThere, TellsPlaces DEF TellsReady, Places, Quiet
<1>2. CASE crossed
  BY <1>1, <1>2, PeerReadyCounts DEF TellsReady, ReadyIsCounted, mediaVars
<1>3. CASE ~crossed
  <2>1. session = "ready" /\ tracks /\ ~Tells(q)
    BY <1>1, <1>3, TellsPlaces DEF ReadyIsCounted, CallsAgree
  <2>2. /\ ~At("closedVideo") /\ ~At("closedAudio")
        /\ At("readyVideo") <=> call[p] = "readyVideo"
        /\ At("readyAudio") <=> call[p] = "readyAudio"
        /\ ~At("closedVideo")' /\ ~At("closedAudio")' /\ ~At("readyVideo")'
        /\ At("readyAudio")' <=> call[p] = "readyVideo"
        /\ ~Tells(q)'
    BY <1>1, <2>1, TwoTasks, TellsPlaces DEF At
  <2>3. CallsAgree'
    BY <1>1, <1>3, <2>1, <2>2, TwoTasks, TellsPlaces DEF ReadyIsCounted, CallsAgree
  <2>4. ToldVideo' /\ (ToldAudio' <=> call[p] = "readyAudio") /\ ~ToldAudio
        /\ (ToldVideo <=> call[p] = "readyAudio")
    BY <1>1, <2>1, <2>2 DEF ToldVideo, ToldAudio
  <2>5. PeerReady({ReadyCalls[call[p]]})
    BY <2>1 DEF TellsReady
  <2>6. CASE call[p] = "readyVideo"
    <3>1. ReadyCalls[call[p]] = "video"
      BY <2>6 DEF ReadyCalls
    <3>2. counted'["video"] = counted["video"] + 1 /\ counted'["audio"] = counted["audio"]
      BY <1>3, <2>4, <2>5, <2>6, <3>1, PeerReadyCounts DEF ReadyIsCounted, CountsAgree, One, Tracks
    <3>3. CountsAgree'
      BY <1>3, <2>4, <2>5, <2>6, <3>2, PeerReadyCounts DEF ReadyIsCounted, CountsAgree, One, Total
    <3>4. QED
      BY <1>1, <2>1, <2>3, <2>5, <3>3, PeerReadyCounts DEF ReadyIsCounted
  <2>7. CASE call[p] = "readyAudio"
    <3>1. ReadyCalls[call[p]] = "audio"
      BY <2>7 DEF ReadyCalls
    <3>2. counted'["video"] = counted["video"] /\ counted'["audio"] = counted["audio"] + 1
      BY <1>3, <2>4, <2>5, <2>7, <3>1, PeerReadyCounts DEF ReadyIsCounted, CountsAgree, One, Tracks
    <3>3. CountsAgree'
      BY <1>3, <2>4, <2>5, <2>7, <3>2, PeerReadyCounts DEF ReadyIsCounted, CountsAgree, One, Total
    <3>4. QED
      BY <1>1, <2>1, <2>3, <2>5, <3>3, PeerReadyCounts DEF ReadyIsCounted
  <2>8. QED
    BY <1>1, <2>6, <2>7
<1>4. QED
  BY <1>2, <1>3

\* The viewer in the other slot becomes ready, or goes
LEMMA OtherIsCounted == ASSUME ReadyIsCounted, OtherViewer PROVE ReadyIsCounted'
<1>1. other' \in BOOLEAN /\ (other' <=> ~other)
  BY Zenon DEF OtherViewer
<1>2. UNCHANGED <<session, tracks, call, crossed>>
  BY DEF OtherViewer, historyVars
<1>3. streaming' \in BOOLEAN
  BY PeerClosedCounts, PeerReadyCounts DEF OtherViewer
<1> SUFFICES ASSUME ~crossed PROVE CallsAgree' /\ CountsAgree'
  BY <1>1, <1>2, <1>3 DEF ReadyIsCounted
<1>4. CallsAgree' /\ (ToldVideo' <=> ToldVideo) /\ (ToldAudio' <=> ToldAudio)
  BY <1>2 DEF ReadyIsCounted, CallsAgree, ToldVideo, ToldAudio, At, Tells
<1>5. CASE other
  <2>1. PeerClosed(Tracks)
    BY <1>5 DEF OtherViewer
  <2>2. counted'["video"] = counted["video"] - 1 /\ counted'["audio"] = counted["audio"] - 1
    BY <1>5, <2>1, PeerClosedCounts DEF ReadyIsCounted, CountsAgree, One, Tracks
  <2>3. CountsAgree'
    BY <1>1, <1>4, <1>5, <2>1, <2>2, PeerClosedCounts DEF ReadyIsCounted, CountsAgree, One, Total
  <2>4. QED
    BY <1>4, <2>3
<1>6. CASE ~other
  <2>1. PeerReady(Tracks)
    BY <1>6 DEF OtherViewer
  <2>2. counted'["video"] = counted["video"] + 1 /\ counted'["audio"] = counted["audio"] + 1
    BY <1>6, <2>1, PeerReadyCounts DEF ReadyIsCounted, CountsAgree, One, Tracks
  <2>3. CountsAgree'
    BY <1>1, <1>4, <1>6, <2>1, <2>2, PeerReadyCounts DEF ReadyIsCounted, CountsAgree, One, Total
  <2>4. QED
    BY <1>4, <2>3
<1>7. QED
  BY <1>5, <1>6

LEMMA CallKeepsCount ==
    ASSUME ReadyIsCounted, CallsTyped, NEW p \in Tasks, CallGoesOn(p)
    PROVE  ReadyIsCounted'
<1>1. UNCHANGED <<tracks, other>>
  BY DEF CallGoesOn
<1>2. CASE SeesState(p)
  BY <1>1, <1>2, SeeingKeepsCount
<1>3. CASE SetsClosing(p)
  BY <1>1, <1>3, ClosingKeepsCount
<1>4. CASE TellsClosed(p)
  BY <1>1, <1>4, TellingClosedCounts
<1>5. CASE BeginsDestroy(p) \/ EndsDestroy(p)
  <2>1. UNCHANGED <<session, counted, streaming, crossed>>
    BY <1>5 DEF BeginsDestroy, EndsDestroy, mediaVars, historyVars
  <2>2. \A r \in Tasks : call'[r] = call[r] \/ {call[r], call'[r]} \subseteq Quiet
    BY <1>5, GoesThere, TwoTasks DEF BeginsDestroy, EndsDestroy, Places, Quiet
  <2>3. QED
    BY <1>1, <2>1, <2>2, QuietKeepsCount
<1>6. CASE SetsReady(p)
  BY <1>1, <1>6, ReadyKeepsCount
<1>7. CASE TellsReady(p)
  BY <1>1, <1>7, TellingReadyCounts
<1>8. QED
  BY <1>2, <1>3, <1>4, <1>5, <1>6, <1>7 DEF CallGoesOn

LEMMA ReadyIsCountedStep ==
    ReadyIsCounted /\ CallsTyped /\ [ViewerNext]_viewerVars => ReadyIsCounted'
<1> SUFFICES ASSUME ReadyIsCounted, CallsTyped, [ViewerNext]_viewerVars PROVE ReadyIsCounted'
  OBVIOUS
<1> USE DEF iceVars, timerVars, mediaVars, boundVars, historyVars
<1> DEFINE Still == UNCHANGED <<session, tracks, counted, streaming, other, crossed>>
           Stays == \A p \in Tasks : call'[p] = call[p] \/ {call[p], call'[p]} \subseteq Quiet
<1>1. ASSUME Still, Stays PROVE ReadyIsCounted'
  BY <1>1, QuietKeepsCount
<1>2. ASSUME UNCHANGED call PROVE Stays
  BY <1>2
<1>3. ASSUME NEW p \in Tasks, NEW place \in Quiet, call[p] = "none", Goes(p, place) PROVE Stays
  BY <1>3, GoesThere, TwoTasks DEF Places, Quiet
<1>4. "session" \in Tasks /\ "listener" \in Tasks /\ "enter" \in Quiet /\ "done" \in Quiet
  BY DEF Tasks, Quiet
<1> HIDE DEF Stays
<1>5. CASE Signaling
  <2>1. CASE BeginsWithOffer \/ BeginsWithCandidate
    <3>1. session = "inited" /\ session' = "start" /\ tracks' = TRUE
          /\ UNCHANGED <<call, counted, streaming, other, crossed>>
      BY <2>1 DEF BeginsWithOffer, BeginsWithCandidate
    <3>2. QED
      BY <3>1, QuietKeepsCount
  <2>2. CASE OfferArrives \/ OfferFails \/ StartsIce \/ CandidateArrives
    BY <2>2, <1>1, <1>2 DEF OfferArrives, OfferFails, StartsIce, CandidateArrives
  <2>3. CASE RunsSession
    <3>1. session' = "find" /\ UNCHANGED <<call, tracks, counted, streaming, other>>
      BY <2>3 DEF RunsSession
    <3>2. crossed' <=> (crossed \/ session = "ready")
      BY <2>3, Zenon DEF RunsSession
    <3>3. QED
      BY <3>1, <3>2, QuietKeepsCount
  <2>4. QED
    BY <1>5, <2>1, <2>2, <2>3 DEF Signaling
<1>6. CASE SdpTimerExpires \/ IceTimerExpires
  BY <1>6, <1>1, <1>2 DEF SdpTimerExpires, IceTimerExpires
<1>7. CASE SessionTask
  <2>1. CASE PassesBarrier \/ TakesOther \/ TakesProcess \/ TakesIceClosing
    BY <2>1, <1>1, <1>2 DEF PassesBarrier, TakesOther, TakesProcess, TakesIceClosing
  <2>2. CASE TakesCheck \/ TakesClose \/ ChecksDeadline \/ ChecksActivity
    <3>1. Still
      BY <2>2 DEF TakesCheck, TakesClose, ChecksDeadline, ChecksActivity
    <3>2. call["session"] = "none"
      BY <2>2 DEF TakesCheck, TakesClose, ChecksDeadline, ChecksActivity, Takes, TaskIs
    <3>3. UNCHANGED call \/ Goes("session", "enter") \/ Goes("session", "done")
      BY <2>2 DEF TakesCheck, TakesClose, ChecksDeadline, ChecksActivity
    <3>4. QED
      BY <1>1, <1>2, <1>3, <1>4, <3>1, <3>2, <3>3
  <2>3. CASE TakesIceClosed \/ Frees
    <3>1. session' = "inited" /\ UNCHANGED <<call, counted, streaming, other>>
      BY <2>3 DEF TakesIceClosed, Frees, FreeSlot
    <3>2. crossed' <=> (crossed \/ session = "ready" \/ \E p \in Tasks : Tells(p))
      BY <2>3, Zenon DEF TakesIceClosed, Frees, FreeSlot
    <3>3. QED
      BY <3>1, <3>2, QuietKeepsCount
  <2>4. CASE CallGoesOn("session")
    BY <2>4, <1>4, CallKeepsCount
  <2>5. QED
    BY <1>7, <2>1, <2>2, <2>3, <2>4 DEF SessionTask
<1>8. CASE Listener
  <2>1. CASE FindsPair \/ HandshakeEnds \/ DtlsFails
    <3>1. Still
      BY <2>1 DEF FindsPair, HandshakeEnds, DtlsFails
    <3>2. call["listener"] = "none"
      BY <2>1 DEF FindsPair, HandshakeEnds, DtlsFails, Receives
    <3>3. UNCHANGED call \/ Goes("listener", "enter") \/ Goes("listener", "done")
      BY <2>1 DEF FindsPair, HandshakeEnds, DtlsFails
    <3>4. QED
      BY <1>1, <1>2, <1>3, <1>4, <3>1, <3>2, <3>3
  <2>2. CASE SetsFound
    <3>1. session' = "found" /\ UNCHANGED <<call, tracks, counted, streaming, other>>
      BY <2>2 DEF SetsFound
    <3>2. crossed' <=> (crossed \/ session = "ready")
      BY <2>2, Zenon DEF SetsFound
    <3>3. QED
      BY <3>1, <3>2, QuietKeepsCount
  <2>3. CASE CallGoesOn("listener")
    BY <2>3, <1>4, CallKeepsCount
  <2>4. QED
    BY <1>8, <2>1, <2>2, <2>3 DEF Listener, ListenerTask
<1>9. CASE Network
  <2>1. CASE SocketGoes \/ SendFails
    BY <2>1, <1>1, <1>2 DEF SocketGoes, SendFails
  <2>2. CASE OtherViewer
    BY <2>2, OtherIsCounted
  <2>3. QED
    BY <1>9, <2>1, <2>2 DEF Network
<1>10. CASE UNCHANGED viewerVars
  BY <1>10, <1>1, <1>2 DEF viewerVars
<1>11. QED
  BY <1>5, <1>6, <1>7, <1>8, <1>9, <1>10 DEF ViewerNext

\* The media task encodes exactly while a viewer is ready, although the session task and the
\* listener read the state of the session, write it and tell each track in steps of their own
\* and in any order: until one of them meets the other half-way, or the state of a ready
\* session is overwritten, as the comment of EncoderFollowsViewers lists.
THEOREM EncoderRunsForViewers == ViewerSpec => []EncoderFollowsViewers
<1>1. ViewerInit => ReadyIsCounted /\ CallsTyped
  BY ReadyIsCountedInit, CallsInit
<1>2. ReadyIsCounted /\ CallsTyped /\ [ViewerNext]_viewerVars => (ReadyIsCounted /\ CallsTyped)'
  BY ReadyIsCountedStep, CallsStep
<1>3. ReadyIsCounted => EncoderFollowsViewers
  BY CountIsExact
<1>4. QED
  BY <1>1, <1>2, <1>3, PTL DEF ViewerSpec

-----------------------------------------------------------------------------
(* The types.                                                              *)

LEMMA CallStates ==
    ASSUME StatesTyped, NEW p \in Tasks, CallGoesOn(p)
    PROVE  StatesTyped'
<1> USE DEF StatesTyped, CallGoesOn, iceVars, timerVars, mediaVars, boundVars, historyVars
<1>1. CASE SeesState(p)
  BY <1>1 DEF SeesState
<1>2. CASE SetsClosing(p)
  BY <1>2 DEF SetsClosing
<1>3. CASE TellsClosed(p)
  BY <1>3 DEF TellsClosed, PeerClosed
<1>4. CASE BeginsDestroy(p)
  BY <1>4 DEF BeginsDestroy
<1>5. CASE EndsDestroy(p)
  BY <1>5 DEF EndsDestroy, IceCloses
<1>6. CASE SetsReady(p)
  BY <1>6 DEF SetsReady
<1>7. CASE TellsReady(p)
  BY <1>7 DEF TellsReady, PeerReady
<1>8. QED
  BY <1>1, <1>2, <1>3, <1>4, <1>5, <1>6, <1>7 DEF CallGoesOn

LEMMA StatesStep == StatesTyped /\ [ViewerNext]_viewerVars => StatesTyped'
<1> SUFFICES ASSUME StatesTyped, [ViewerNext]_viewerVars PROVE StatesTyped'
  OBVIOUS
<1>1. ASSUME NEW p \in Tasks, CallGoesOn(p) PROVE StatesTyped'
  BY <1>1, CallStates
<1> USE DEF StatesTyped, iceVars, timerVars, mediaVars, boundVars, historyVars
<1>2. CASE Signaling
  <2>1. CASE BeginsWithOffer
    BY <2>1 DEF BeginsWithOffer
  <2>2. CASE BeginsWithCandidate
    BY <2>2 DEF BeginsWithCandidate
  <2>3. CASE OfferArrives
    BY <2>3 DEF OfferArrives
  <2>4. CASE OfferFails
    BY <2>4 DEF OfferFails
  <2>5. CASE StartsIce
    BY <2>5 DEF StartsIce
  <2>6. CASE RunsSession
    BY <2>6 DEF RunsSession
  <2>7. CASE CandidateArrives
    BY <2>7 DEF CandidateArrives
  <2>8. QED
    BY <1>2, <2>1, <2>2, <2>3, <2>4, <2>5, <2>6, <2>7 DEF Signaling
<1>3. CASE SdpTimerExpires
  BY <1>3 DEF SdpTimerExpires
<1>4. CASE IceTimerExpires
  BY <1>4 DEF IceTimerExpires, Full
<1>5. CASE SessionTask
  <2>1. CASE PassesBarrier
    BY <2>1 DEF PassesBarrier
  <2>2. CASE TakesOther
    BY <2>2 DEF TakesOther
  <2>3. CASE TakesProcess
    BY <2>3 DEF TakesProcess
  <2>4. CASE TakesCheck
    BY <2>4 DEF TakesCheck
  <2>5. CASE TakesIceClosing
    BY <2>5 DEF TakesIceClosing, IceCloses
  <2>6. CASE TakesIceClosed
    BY <2>6 DEF TakesIceClosed, FreeSlot
  <2>7. CASE TakesClose
    BY <2>7 DEF TakesClose
  <2>8. CASE Frees
    BY <2>8 DEF Frees, FreeSlot
  <2>9. CASE ChecksDeadline
    BY <2>9 DEF ChecksDeadline
  <2>10. CASE ChecksActivity
    BY <2>10 DEF ChecksActivity
  <2>11. CASE CallGoesOn("session")
    BY <2>11, <1>1 DEF Tasks
  <2>12. QED
    BY <1>5, <2>1, <2>2, <2>3, <2>4, <2>5, <2>6, <2>7, <2>8, <2>9, <2>10, <2>11 DEF SessionTask
<1>6. CASE Listener
  <2>1. CASE FindsPair
    BY <2>1 DEF FindsPair
  <2>2. CASE HandshakeEnds
    BY <2>2 DEF HandshakeEnds
  <2>3. CASE DtlsFails
    BY <2>3 DEF DtlsFails
  <2>4. CASE CallGoesOn("listener")
    BY <2>4, <1>1 DEF Tasks
  <2>5. CASE SetsFound
    BY <2>5 DEF SetsFound
  <2>6. QED
    BY <1>6, <2>1, <2>2, <2>3, <2>4, <2>5 DEF Listener, ListenerTask
<1>7. CASE Network
  <2>1. CASE SocketGoes
    BY <2>1 DEF SocketGoes
  <2>2. CASE SendFails
    BY <2>2 DEF SendFails
  <2>3. CASE OtherViewer
    BY <2>3 DEF OtherViewer, PeerClosed, PeerReady
  <2>4. QED
    BY <1>7, <2>1, <2>2, <2>3 DEF Network
<1>8. CASE UNCHANGED viewerVars
  BY <1>8 DEF viewerVars
<1>9. QED
  BY <1>2, <1>3, <1>4, <1>5, <1>6, <1>7, <1>8 DEF ViewerNext

LEMMA CallFlags ==
    ASSUME FlagsTyped, NEW p \in Tasks, CallGoesOn(p)
    PROVE  FlagsTyped'
<1> USE DEF FlagsTyped, CallGoesOn, iceVars, timerVars, mediaVars, boundVars, historyVars
<1>1. CASE SeesState(p)
  BY <1>1, Zenon DEF SeesState
<1>2. CASE SetsClosing(p)
  BY <1>2, Zenon DEF SetsClosing
<1>3. CASE TellsClosed(p)
  BY <1>3, Zenon DEF TellsClosed, PeerClosed
<1>4. CASE BeginsDestroy(p)
  BY <1>4, Zenon DEF BeginsDestroy
<1>5. CASE EndsDestroy(p)
  BY <1>5, Zenon DEF EndsDestroy, IceCloses
<1>6. CASE SetsReady(p)
  BY <1>6, Zenon DEF SetsReady
<1>7. CASE TellsReady(p)
  BY <1>7, Zenon DEF TellsReady, PeerReady
<1>8. QED
  BY <1>1, <1>2, <1>3, <1>4, <1>5, <1>6, <1>7 DEF CallGoesOn

LEMMA FlagsStep == FlagsTyped /\ [ViewerNext]_viewerVars => FlagsTyped'
<1> SUFFICES ASSUME FlagsTyped, [ViewerNext]_viewerVars PROVE FlagsTyped'
  OBVIOUS
<1>1. ASSUME NEW p \in Tasks, CallGoesOn(p) PROVE FlagsTyped'
  BY <1>1, CallFlags
<1> USE DEF FlagsTyped, iceVars, timerVars, mediaVars, boundVars, historyVars
<1>2. CASE Signaling
  <2>1. CASE BeginsWithOffer
    BY <2>1, Zenon DEF BeginsWithOffer
  <2>2. CASE BeginsWithCandidate
    BY <2>2, Zenon DEF BeginsWithCandidate
  <2>3. CASE OfferArrives
    BY <2>3, Zenon DEF OfferArrives
  <2>4. CASE OfferFails
    BY <2>4, Zenon DEF OfferFails
  <2>5. CASE StartsIce
    BY <2>5, Zenon DEF StartsIce
  <2>6. CASE RunsSession
    BY <2>6, Zenon DEF RunsSession
  <2>7. CASE CandidateArrives
    BY <2>7, Zenon DEF CandidateArrives
  <2>8. QED
    BY <1>2, <2>1, <2>2, <2>3, <2>4, <2>5, <2>6, <2>7 DEF Signaling
<1>3. CASE SdpTimerExpires
  BY <1>3, Zenon DEF SdpTimerExpires
<1>4. CASE IceTimerExpires
  BY <1>4, Zenon DEF IceTimerExpires, Full
<1>5. CASE SessionTask
  <2>1. CASE PassesBarrier
    BY <2>1, Zenon DEF PassesBarrier
  <2>2. CASE TakesOther
    BY <2>2, Zenon DEF TakesOther
  <2>3. CASE TakesProcess
    BY <2>3, Zenon DEF TakesProcess
  <2>4. CASE TakesCheck
    BY <2>4, Zenon DEF TakesCheck
  <2>5. CASE TakesIceClosing
    BY <2>5, Zenon DEF TakesIceClosing, IceCloses
  <2>6. CASE TakesIceClosed
    BY <2>6, Zenon DEF TakesIceClosed, FreeSlot
  <2>7. CASE TakesClose
    BY <2>7, Zenon DEF TakesClose
  <2>8. CASE Frees
    BY <2>8, Zenon DEF Frees, FreeSlot
  <2>9. CASE ChecksDeadline
    BY <2>9, Zenon DEF ChecksDeadline
  <2>10. CASE ChecksActivity
    BY <2>10, Zenon DEF ChecksActivity
  <2>11. CASE CallGoesOn("session")
    BY <2>11, <1>1 DEF Tasks
  <2>12. QED
    BY <1>5, <2>1, <2>2, <2>3, <2>4, <2>5, <2>6, <2>7, <2>8, <2>9, <2>10, <2>11 DEF SessionTask
<1>6. CASE Listener
  <2>1. CASE FindsPair
    BY <2>1, Zenon DEF FindsPair
  <2>2. CASE HandshakeEnds
    BY <2>2, Zenon DEF HandshakeEnds
  <2>3. CASE DtlsFails
    BY <2>3, Zenon DEF DtlsFails
  <2>4. CASE CallGoesOn("listener")
    BY <2>4, <1>1 DEF Tasks
  <2>5. CASE SetsFound
    BY <2>5, Zenon DEF SetsFound
  <2>6. QED
    BY <1>6, <2>1, <2>2, <2>3, <2>4, <2>5 DEF Listener, ListenerTask
<1>7. CASE Network
  <2>1. CASE SocketGoes
    BY <2>1, Zenon DEF SocketGoes
  <2>2. CASE SendFails
    BY <2>2, Zenon DEF SendFails
  <2>3. CASE OtherViewer
    BY <2>3, Zenon DEF OtherViewer, PeerClosed, PeerReady
  <2>4. QED
    BY <1>7, <2>1, <2>2, <2>3 DEF Network
<1>8. CASE UNCHANGED viewerVars
  BY <1>8, Zenon DEF viewerVars
<1>9. QED
  BY <1>2, <1>3, <1>4, <1>5, <1>6, <1>7, <1>8 DEF ViewerNext

LEMMA CallNumbers ==
    ASSUME NumbersTyped, NEW p \in Tasks, CallGoesOn(p)
    PROVE  NumbersTyped'
<1> USE ViewerAssumption
    DEF NumbersTyped, CallGoesOn, iceVars, timerVars, mediaVars, boundVars, historyVars
<1>1. CASE SeesState(p)
  BY <1>1 DEF SeesState
<1>2. CASE SetsClosing(p)
  BY <1>2 DEF SetsClosing
<1>3. CASE TellsClosed(p)
  BY <1>3 DEF TellsClosed, PeerClosed
<1>4. CASE BeginsDestroy(p)
  BY <1>4 DEF BeginsDestroy
<1>5. CASE EndsDestroy(p)
  BY <1>5 DEF EndsDestroy, IceCloses
<1>6. CASE SetsReady(p)
  BY <1>6 DEF SetsReady
<1>7. CASE TellsReady(p)
  BY <1>7 DEF TellsReady, PeerReady
<1>8. QED
  BY <1>1, <1>2, <1>3, <1>4, <1>5, <1>6, <1>7 DEF CallGoesOn

LEMMA NumbersStep == NumbersTyped /\ [ViewerNext]_viewerVars => NumbersTyped'
<1> SUFFICES ASSUME NumbersTyped, [ViewerNext]_viewerVars PROVE NumbersTyped'
  OBVIOUS
<1>1. ASSUME NEW p \in Tasks, CallGoesOn(p) PROVE NumbersTyped'
  BY <1>1, CallNumbers
<1> USE ViewerAssumption DEF NumbersTyped, iceVars, timerVars, mediaVars, boundVars, historyVars
<1>2. CASE Signaling
  <2>1. CASE BeginsWithOffer
    BY <2>1 DEF BeginsWithOffer
  <2>2. CASE BeginsWithCandidate
    BY <2>2 DEF BeginsWithCandidate
  <2>3. CASE OfferArrives
    BY <2>3 DEF OfferArrives
  <2>4. CASE OfferFails
    BY <2>4 DEF OfferFails
  <2>5. CASE StartsIce
    BY <2>5 DEF StartsIce
  <2>6. CASE RunsSession
    BY <2>6 DEF RunsSession
  <2>7. CASE CandidateArrives
    BY <2>7 DEF CandidateArrives
  <2>8. QED
    BY <1>2, <2>1, <2>2, <2>3, <2>4, <2>5, <2>6, <2>7 DEF Signaling
<1>3. CASE SdpTimerExpires
  BY <1>3 DEF SdpTimerExpires
<1>4. CASE IceTimerExpires
  BY <1>4 DEF IceTimerExpires, Full
<1>5. CASE SessionTask
  <2>1. CASE PassesBarrier
    BY <2>1 DEF PassesBarrier
  <2>2. CASE TakesOther
    BY <2>2 DEF TakesOther
  <2>3. CASE TakesProcess
    BY <2>3 DEF TakesProcess
  <2>4. CASE TakesCheck
    BY <2>4 DEF TakesCheck
  <2>5. CASE TakesIceClosing
    BY <2>5 DEF TakesIceClosing, IceCloses
  <2>6. CASE TakesIceClosed
    BY <2>6 DEF TakesIceClosed, FreeSlot
  <2>7. CASE TakesClose
    BY <2>7 DEF TakesClose
  <2>8. CASE Frees
    BY <2>8 DEF Frees, FreeSlot
  <2>9. CASE ChecksDeadline
    BY <2>9 DEF ChecksDeadline
  <2>10. CASE ChecksActivity
    BY <2>10 DEF ChecksActivity
  <2>11. CASE CallGoesOn("session")
    BY <2>11, <1>1 DEF Tasks
  <2>12. QED
    BY <1>5, <2>1, <2>2, <2>3, <2>4, <2>5, <2>6, <2>7, <2>8, <2>9, <2>10, <2>11 DEF SessionTask
<1>6. CASE Listener
  <2>1. CASE FindsPair
    BY <2>1 DEF FindsPair
  <2>2. CASE HandshakeEnds
    BY <2>2 DEF HandshakeEnds
  <2>3. CASE DtlsFails
    BY <2>3 DEF DtlsFails
  <2>4. CASE CallGoesOn("listener")
    BY <2>4, <1>1 DEF Tasks
  <2>5. CASE SetsFound
    BY <2>5 DEF SetsFound
  <2>6. QED
    BY <1>6, <2>1, <2>2, <2>3, <2>4, <2>5 DEF Listener, ListenerTask
<1>7. CASE Network
  <2>1. CASE SocketGoes
    BY <2>1 DEF SocketGoes
  <2>2. CASE SendFails
    BY <2>2 DEF SendFails
  <2>3. CASE OtherViewer
    BY <2>3 DEF OtherViewer, PeerClosed, PeerReady
  <2>4. QED
    BY <1>7, <2>1, <2>2, <2>3 DEF Network
<1>8. CASE UNCHANGED viewerVars
  BY <1>8 DEF viewerVars
<1>9. QED
  BY <1>2, <1>3, <1>4, <1>5, <1>6, <1>7, <1>8 DEF ViewerNext

LEMMA CallRequests ==
    ASSUME RequestsTyped, NEW p \in Tasks, CallGoesOn(p)
    PROVE  RequestsTyped'
<1>1. Posted(requests, "iceClosed") \in Seq(Requests)
      /\ Len(Posted(requests, "iceClosed")) <= RequestQueueLength
  BY PostedStaysQueue DEF RequestsTyped, Requests
<1>2. CASE EndsDestroy(p)
  BY <1>1, <1>2 DEF RequestsTyped, EndsDestroy, IceCloses
<1>3. CASE ~EndsDestroy(p)
  BY <1>3 DEF CallGoesOn, RequestsTyped, SeesState, SetsClosing, TellsClosed, BeginsDestroy,
              SetsReady, TellsReady
<1>4. QED
  BY <1>2, <1>3

LEMMA RequestsStep == RequestsTyped /\ [ViewerNext]_viewerVars => RequestsTyped'
<1> SUFFICES ASSUME RequestsTyped, [ViewerNext]_viewerVars PROVE RequestsTyped'
  OBVIOUS
<1> USE DEF RequestsTyped, Requests
<1>1. ASSUME NEW request \in Requests PROVE /\ Posted(requests, request) \in Seq(Requests)
                                           /\ Len(Posted(requests, request)) <= RequestQueueLength
  BY PostedStaysQueue DEF RequestsTyped
<1>2. ASSUME requests # << >>, NEW request \in Requests
      PROVE  /\ Tail(requests) \in Seq(Requests) /\ Len(Tail(requests)) <= RequestQueueLength
             /\ Posted(Tail(requests), request) \in Seq(Requests)
             /\ Len(Posted(Tail(requests), request)) <= RequestQueueLength
  BY <1>2, TailStaysQueue, PostedStaysQueue DEF RequestsTyped
<1>3. CASE Signaling
  <2>1. CASE BeginsWithOffer
    BY <2>1, ViewerAssumption DEF BeginsWithOffer
  <2>2. CASE BeginsWithCandidate
    BY <2>2, SingleStaysQueue DEF BeginsWithCandidate
  <2>3. CASE OfferArrives \/ OfferFails \/ RunsSession
    BY <2>3 DEF OfferArrives, OfferFails, RunsSession
  <2>4. CASE StartsIce
    BY <2>4, <1>1 DEF StartsIce
  <2>5. CASE CandidateArrives
    BY <2>5, ViewerAssumption DEF CandidateArrives, Full
  <2>6. QED
    BY <1>3, <2>1, <2>2, <2>3, <2>4, <2>5 DEF Signaling
<1>4. CASE SdpTimerExpires
  BY <1>4, SingleStaysQueue DEF SdpTimerExpires
<1>5. CASE IceTimerExpires
  <2>1. TimerRequest[ice] \in Requests
    BY <1>5 DEF IceTimerExpires, TimerRequest
  <2>2. QED
    BY <1>5, <1>1, <2>1 DEF IceTimerExpires
<1>6. CASE SessionTask
  <2>1. CASE PassesBarrier \/ Frees \/ ChecksDeadline \/ ChecksActivity
    BY <2>1 DEF PassesBarrier, Frees, ChecksDeadline, ChecksActivity
  <2>2. CASE TakesOther \/ TakesCheck \/ TakesIceClosed \/ TakesClose
    BY <2>2, <1>2 DEF TakesOther, TakesCheck, TakesIceClosed, TakesClose, Takes
  <2>3. CASE TakesProcess
    BY <2>3, <1>2 DEF TakesProcess, Takes
  <2>4. CASE TakesIceClosing
    BY <2>4, <1>2 DEF TakesIceClosing, Takes, IceCloses
  <2>5. CASE CallGoesOn("session")
    BY <2>5, CallRequests DEF Tasks
  <2>6. QED
    BY <1>6, <2>1, <2>2, <2>3, <2>4, <2>5 DEF SessionTask
<1>7. CASE Listener
  <2>1. CASE FindsPair \/ HandshakeEnds \/ DtlsFails \/ SetsFound
    BY <2>1 DEF FindsPair, HandshakeEnds, DtlsFails, SetsFound
  <2>2. CASE CallGoesOn("listener")
    BY <2>2, CallRequests DEF Tasks
  <2>3. QED
    BY <1>7, <2>1, <2>2 DEF Listener, ListenerTask
<1>8. CASE Network
  <2>1. CASE SocketGoes \/ OtherViewer
    BY <2>1 DEF SocketGoes, OtherViewer
  <2>2. CASE SendFails
    BY <2>2, <1>1 DEF SendFails
  <2>3. QED
    BY <1>8, <2>1, <2>2 DEF Network
<1>9. CASE UNCHANGED viewerVars
  BY <1>9 DEF viewerVars
<1>10. QED
  BY <1>3, <1>4, <1>5, <1>6, <1>7, <1>8, <1>9 DEF ViewerNext

LEMMA TypesInit == ViewerInit => FieldsTyped
<1> SUFFICES ASSUME ViewerInit PROVE FieldsTyped
  OBVIOUS
<1>0. CallsTyped
  BY CallsInit
<1>1. StatesTyped
  BY DEF ViewerInit, StatesTyped
<1>2. FlagsTyped
  BY Zenon DEF ViewerInit, FlagsTyped
<1>3. NumbersTyped
  BY ViewerAssumption DEF ViewerInit, NumbersTyped
<1>4. RequestsTyped
  BY ViewerAssumption DEF ViewerInit, RequestsTyped
<1>5. QED
  BY <1>0, <1>1, <1>2, <1>3, <1>4 DEF FieldsTyped

LEMMA TypesFromFields == FieldsTyped => ViewerTypeOK
<1> SUFFICES ASSUME FieldsTyped PROVE ViewerTypeOK
  OBVIOUS
<1> USE DEF FieldsTyped
<1>1. {tracks, polling, iceTimer, sdpTimer, barrier, other, streaming,
       crossed, evicted, lostClosed, revived, late} \subseteq BOOLEAN
  BY Zenon DEF FlagsTyped
<1>2. call \in [Tasks -> {"none", "enter", "mute", "loud", "ice", "destroy", "done"}
                            \cup DOMAIN ReadyCalls \cup DOMAIN ClosedCalls]
  BY TellsPlaces DEF CallsTyped, Places, Quiet
<1>3. QED
  BY <1>1, <1>2, Zenon DEF ViewerTypeOK, StatesTyped, NumbersTyped, RequestsTyped, Requests

ViewerInv == ReadyIsCounted /\ FieldsTyped

LEMMA ViewerInvInit == ViewerInit => ViewerInv
  BY ReadyIsCountedInit, TypesInit DEF ViewerInv

LEMMA ViewerInvStep == ViewerInv /\ [ViewerNext]_viewerVars => ViewerInv'
  BY ReadyIsCountedStep, CallsStep, StatesStep, FlagsStep, NumbersStep, RequestsStep
     DEF ViewerInv, FieldsTyped

LEMMA ViewerInvSafe == ViewerInv => ViewerTypeOK /\ EncoderFollowsViewers
  BY CountIsExact, TypesFromFields DEF ViewerInv

\* Whatever the five tasks do, the queue never holds more than
\* PEER_CONNECTION_MAX_QUEUE_MSG_NUM requests and every other part of the slot is well formed.
THEOREM ViewerTypeCorrect == ViewerSpec => []ViewerTypeOK
  BY ViewerInvInit, ViewerInvStep, ViewerInvSafe, PTL DEF ViewerSpec

=============================================================================
