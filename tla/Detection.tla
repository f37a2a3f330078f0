------------------------------- MODULE Detection -------------------------------
(***************************************************************************)
(* Object detection and the window of the external flash.  The media task  *)
(* hands a frame to the AI task through a busy flag, one input buffer and  *)
(* a binary semaphore.  The NPU reads the weights of the network through   *)
(* the memory-mapped window of the flash, which littlefs takes down when   *)
(* it programs or erases; a mutex keeps the two apart.                     *)
(*                                                                         *)
(* The KVS task starts both tasks in each turn of its retry loop: a second *)
(* turn makes a second semaphore, AI task and media task, and resets the   *)
(* NPU, whatever the first ones are doing.                                 *)
(*                                                                         *)
(* Priorities, on one core: KVS 11, callers of littlefs 6 and more, media  *)
(* 3, AI 1.  So an AI task does not run while a media task is between two  *)
(* frames (MediaWaits) or littlefs drives the flash, and a waiting caller  *)
(* of littlefs gets the mutex before it.                                   *)
(*                                                                         *)
(* Sources: Appli/Common/app/ai/ai_detection.c,                            *)
(* Appli/Libraries/fs/lfs_port_xspi.c, the retry loop of                   *)
(* Appli/Common/app/kvs_webrtc/kvs_webrtc_task.c and prvMediaTask and      *)
(* AppMediaSourcePort_Init of media/stm32_media_port.c beside it.          *)
(***************************************************************************)
EXTENDS Naturals

CONSTANT MaxInits  \* bound on the turns of the retry loop that call AiDetection_Init

ASSUME DetectionAssumption == MaxInits \in Nat \ {0}

VARIABLES
    starter,    \* where the KVS task is in its turn
    inits,      \* calls of AiDetection_Init so far; xFrameReady is the semaphore of the last
    running,    \* ucRunning
    media,      \* where the media task of each turn is
    token,      \* the count of the semaphore of each turn
    aiReady,    \* ucAiReady
    aiBusy,     \* ucAiBusy
    ai,         \* where the AI task of each turn is
    waitsOn,    \* the turn whose semaphore it waits on, or 0
    mapped,     \* ucNorMapped, and FMODE of the controller with it
    holder,     \* the holder of xNorWindowMutex
    files,      \* where the caller of littlefs is (littlefs serializes its callers)
    halted      \* a configASSERT of the kernel failed

streamVars     == <<running, media>>
frameVars     == <<token, aiReady, aiBusy>>
aiVars        == <<ai, waitsOn>>
windowVars    == <<mapped, holder, files>>
detectionVars == <<starter, inits, streamVars, frameVars, aiVars, windowVars, halted>>

Turns == 1..MaxInits

\* Who may hold the window mutex: the AI task of a turn, littlefs or nobody
Files  == 0
Nobody == MaxInits + 1

DetectionTypeOK ==
    /\ starter \in {"waits", "camera", "gone"}
    /\ inits \in 0..MaxInits
    /\ running \in BOOLEAN
    /\ media \in [Turns -> {"none", "frame", "claim", "write", "gone"}]
    /\ token \in [Turns -> BOOLEAN]
    /\ aiReady \in BOOLEAN /\ aiBusy \in BOOLEAN /\ mapped \in BOOLEAN /\ halted \in BOOLEAN
    /\ ai \in [Turns -> {"none", "init", "load", "loop", "wait", "taken", "run", "done",
                         "hung", "parked"}]
    /\ waitsOn \in [Turns -> 0..MaxInits]
    /\ holder \in {Files, Nobody} \cup Turns
    /\ files \in {"idle", "waits", "down", "bare"}

\* pxInitializeXSPIFlashFs has run, and mapping the window may have failed
DetectionInit ==
    /\ starter = "waits" /\ inits = 0
    /\ running = FALSE /\ media = [t \in Turns |-> "none"]
    /\ token = [t \in Turns |-> FALSE] /\ aiReady = FALSE /\ aiBusy = FALSE
    /\ ai = [t \in Turns |-> "none"] /\ waitsOn = [t \in Turns |-> 0]
    /\ mapped \in BOOLEAN
    /\ holder = Nobody /\ files = "idle" /\ halted = FALSE

-----------------------------------------------------------------------------
\* The KVS task

\* AiDetection_Init, which may fail to create its task (one that does nothing is "parked").
\* Resetting the NPU may leave a task that waits for it without an end.  AppMediaSource_Init then
\* fails, or has AppMediaSourcePort_Init clear its context and set up the camera ...
StartsTurn ==
    /\ starter = "waits" /\ inits < MaxInits
    /\ inits' = inits + 1
    /\ \E place \in {"init", "parked"}, hangs \in BOOLEAN :
         ai' = [t \in Turns |->
                  IF t = inits + 1 THEN place
                  ELSE IF hangs /\ ai[t] \in {"load", "run"} THEN "hung" ELSE ai[t]]
    /\ \/ starter' = "waits" /\ UNCHANGED running
       \/ starter' = "camera" /\ running' = FALSE
    /\ UNCHANGED <<media, frameVars, waitsOn, windowVars, halted>>

\* ... and starts a media task.  If that fails or AppCommon_Init does, there is another turn.
StartsMedia ==
    /\ starter = "camera"
    /\ running' = TRUE
    /\ \/ starter' \in {"waits", "gone"} /\ media' = [media EXCEPT ![inits] = "frame"]
       \/ starter' = "waits" /\ UNCHANGED media
    /\ UNCHANGED <<inits, frameVars, aiVars, windowVars, halted>>

-----------------------------------------------------------------------------
\* The media tasks

Submits == aiReady /\ ~aiBusy

NextTurn == IF running THEN "frame" ELSE "gone"

\* A frame that AiDetection_SubmitNV12 leaves alone, since one is in work or the last is recent
SkipsFrame(m) ==
    /\ media[m] = "frame"
    /\ media' = [media EXCEPT ![m] = NextTurn]
    /\ UNCHANGED <<starter, inits, running, frameVars, aiVars, windowVars, halted>>

FindsIdle(m) ==
    /\ media[m] = "frame" /\ Submits
    /\ media' = [media EXCEPT ![m] = "claim"]
    /\ UNCHANGED <<starter, inits, running, frameVars, aiVars, windowVars, halted>>

ClaimsBuffer(m) ==
    /\ media[m] = "claim"
    /\ media' = [media EXCEPT ![m] = "write"]
    /\ aiBusy' = TRUE
    /\ UNCHANGED <<starter, inits, running, token, aiReady, aiVars, windowVars, halted>>

GivesFrame(m) ==
    /\ media[m] = "write"
    /\ media' = [media EXCEPT ![m] = NextTurn]
    /\ token' = [token EXCEPT ![inits] = TRUE]
    /\ UNCHANGED <<starter, inits, running, aiReady, aiBusy, aiVars, windowVars, halted>>

\* What is left of a submission, once begun
Submission == \E m \in Turns : ClaimsBuffer(m) \/ GivesFrame(m)

MediaWaits == \A m \in Turns : media[m] \notin {"claim", "write"}

-----------------------------------------------------------------------------
\* The AI tasks

AiRuns(g, place) == ai[g] = place /\ MediaWaits /\ files \notin {"down", "bare"}

AiGoesTo(g, place) == ai' = [ai EXCEPT ![g] = place]

LocksWindow(g) ==
    /\ holder = Nobody /\ files # "waits"
    /\ holder' = g

\* A mutex that somebody else holds is not to be given back: the kernel asserts it.
Unlocks(g) ==
    /\ holder' = IF holder = g THEN Nobody ELSE holder
    /\ halted' = (holder \notin {g, Nobody})

BeginsLoading(g) ==
    /\ AiRuns(g, "init")
    /\ LocksWindow(g)
    /\ AiGoesTo(g, "load")
    /\ UNCHANGED <<starter, inits, streamVars, frameVars, waitsOn, mapped, files, halted>>

Loads(g) ==
    /\ AiRuns(g, "load") /\ mapped
    /\ Unlocks(g)
    /\ AiGoesTo(g, "loop")
    /\ aiReady' = TRUE
    /\ UNCHANGED <<starter, inits, streamVars, token, aiBusy, waitsOn, mapped, files>>

\* (mutant) AI_CHECK leaves the mutex alone.
ParksLocked(g) ==
    /\ AiRuns(g, "load") \/ AiRuns(g, "taken")
    /\ AiGoesTo(g, "parked")
    /\ UNCHANGED <<starter, inits, streamVars, frameVars, waitsOn, windowVars, halted>>

\* The window is not mapped, or an AI_CHECK fails: of the initialization, or on a frame
Parks(g) ==
    /\ AiRuns(g, "load") \/ AiRuns(g, "taken")
    /\ Unlocks(g)
    /\ AiGoesTo(g, "parked")
    /\ UNCHANGED <<starter, inits, streamVars, frameVars, waitsOn, mapped, files>>

Waits(g) ==
    /\ AiRuns(g, "loop")
    /\ AiGoesTo(g, "wait")
    /\ waitsOn' = [waitsOn EXCEPT ![g] = inits]
    /\ UNCHANGED <<starter, inits, streamVars, frameVars, windowVars, halted>>

TimesOut(g) ==
    /\ AiRuns(g, "wait") /\ ~token[waitsOn[g]]
    /\ AiGoesTo(g, "loop")
    /\ waitsOn' = [waitsOn EXCEPT ![g] = 0]
    /\ UNCHANGED <<starter, inits, streamVars, frameVars, windowVars, halted>>

\* (mutant) The busy flag is cleared as soon as the frame is taken.
TakesFrameAsFree(g) ==
    /\ AiRuns(g, "wait") /\ token[waitsOn[g]]
    /\ AiGoesTo(g, "taken")
    /\ token' = [token EXCEPT ![waitsOn[g]] = FALSE]
    /\ waitsOn' = [waitsOn EXCEPT ![g] = 0]
    /\ aiBusy' = FALSE
    /\ UNCHANGED <<starter, inits, streamVars, aiReady, windowVars, halted>>

TakesFrame(g) ==
    /\ AiRuns(g, "wait") /\ token[waitsOn[g]]
    /\ AiGoesTo(g, "taken")
    /\ token' = [token EXCEPT ![waitsOn[g]] = FALSE]
    /\ waitsOn' = [waitsOn EXCEPT ![g] = 0]
    /\ UNCHANGED <<starter, inits, streamVars, aiReady, aiBusy, windowVars, halted>>

BeginsInference(g) ==
    /\ AiRuns(g, "taken")
    /\ LocksWindow(g)
    /\ AiGoesTo(g, "run")
    /\ UNCHANGED <<starter, inits, streamVars, frameVars, waitsOn, mapped, files, halted>>

EndsInference(g) ==
    /\ AiRuns(g, "run")
    /\ Unlocks(g)
    /\ AiGoesTo(g, "done")
    /\ UNCHANGED <<starter, inits, streamVars, frameVars, waitsOn, mapped, files>>

\* (mutant) The loop continues without clearing the busy flag.
ReportsBoxesOnly(g) ==
    /\ AiRuns(g, "done")
    /\ AiGoesTo(g, "loop")
    /\ UNCHANGED <<starter, inits, streamVars, frameVars, waitsOn, windowVars, halted>>

ReportsBoxes(g) ==
    /\ AiRuns(g, "done")
    /\ AiGoesTo(g, "loop")
    /\ aiBusy' = FALSE
    /\ UNCHANGED <<starter, inits, streamVars, token, aiReady, waitsOn, windowVars, halted>>

AiStep(g) ==
    \/ BeginsLoading(g) \/ Loads(g) \/ Parks(g) \/ Waits(g) \/ TimesOut(g) \/ TakesFrame(g)
    \/ BeginsInference(g) \/ EndsInference(g) \/ ReportsBoxes(g)

\* Some AI task does what it has to do: waiting for the semaphore counts if there is a frame.
AiWork ==
    \E g \in Turns :
        \/ BeginsLoading(g) \/ Loads(g) \/ Parks(g) \/ TakesFrame(g)
        \/ BeginsInference(g) \/ EndsInference(g) \/ ReportsBoxes(g)
        \/ (Waits(g) \/ TimesOut(g)) /\ token[inits]

-----------------------------------------------------------------------------
\* A task in littlefs

\* A program or an erase, or a read while the window is mapped: any other needs no mutex.
NeedsWindow ==
    /\ files = "idle"
    /\ files' = "waits"
    /\ UNCHANGED <<starter, inits, streamVars, frameVars, aiVars, mapped, holder, halted>>

\* lfs_port_read: the copy is over before a task that uses the window can run
ReadsWindow ==
    /\ files = "waits" /\ holder = Nobody /\ mapped
    /\ files' = "idle"
    /\ UNCHANGED <<starter, inits, streamVars, frameVars, aiVars, mapped, holder, halted>>

\* (mutant) Programming does not wait for the mutex.
TakesWindowFromOthers ==
    /\ files = "waits"
    /\ holder' = Files
    /\ files' = IF mapped THEN "down" ELSE "bare"
    /\ mapped' \in {FALSE, mapped}
    /\ UNCHANGED <<starter, inits, streamVars, frameVars, aiVars, halted>>

\* lfs_port_prog and lfs_port_erase: the window is taken down if it was mapped, or that fails ...
TakesWindowDown ==
    /\ files = "waits" /\ holder = Nobody
    /\ holder' = Files
    /\ files' = IF mapped THEN "down" ELSE "bare"
    /\ mapped' \in {FALSE, mapped}
    /\ UNCHANGED <<starter, inits, streamVars, frameVars, aiVars, halted>>

\* ... and put up again if it was mapped, or that fails, and then it stays down for good
PutsWindowUp ==
    /\ files \in {"down", "bare"}
    /\ mapped' \in {mapped} \cup (IF files = "down" THEN {TRUE} ELSE {})
    /\ holder' = Nobody
    /\ files' = "idle"
    /\ UNCHANGED <<starter, inits, streamVars, frameVars, aiVars, halted>>

FileStep == ReadsWindow \/ TakesWindowDown \/ PutsWindowUp

-----------------------------------------------------------------------------
DetectionNext ==
    /\ ~halted
    /\ \/ StartsTurn \/ StartsMedia
       \/ \E m \in Turns : SkipsFrame(m) \/ FindsIdle(m)
       \/ Submission
       \/ \E g \in Turns : AiStep(g)
       \/ NeedsWindow \/ FileStep

\* A media task that has begun to submit ends it, and a caller of littlefs that can go on does:
\* they are above all that could keep them.  The AI tasks are below everybody, but all others
\* wait for frames or for requests again and again, and whenever they do one that has work runs.
DetectionFairness ==
    /\ WF_detectionVars(~halted /\ Submission)
    /\ SF_detectionVars(~halted /\ AiWork)
    /\ WF_detectionVars(~halted /\ FileStep)

DetectionSpec == DetectionInit /\ [][DetectionNext]_detectionVars

-----------------------------------------------------------------------------
\* While the NPU fetches weights, littlefs does not have the window down (the comment at
\* lfs_port_xspi.c:54-56).  It can still be unmapped, which that comment denies: when mapping it
\* again has failed the window stays down, and an AI task looks at it only once.
WeightsMapped ==
    \A g \in Turns : ai[g] \in {"run", "hung"} => holder = g /\ files \notin {"down", "bare"}

\* No media task writes the input buffer while an AI task works on the frame in it, though two
\* media tasks may have found it free (the comment at ai_detection.c:217-218).  A third turn can
\* break this: it may replace the semaphore between the two, so that two frames are in work and
\* the first to be done clears the flag of the other.
InputStable ==
    inits <= 2 =>
        \A m \in Turns, g \in Turns : media[m] = "write" => ai[g] \notin {"taken", "run"}

\* The frame in the semaphore of an earlier turn, which no task waits on or will
Stranded == \E s \in Turns : /\ s < inits /\ token[s]
                             /\ \A g \in Turns : ai[g] = "wait" => waitsOn[g] # s

Disabled == halted \/ \E g \in Turns : ai[g] \in {"parked", "hung"}

\* The busy flag is cleared again, so that detection goes on, unless an AI task is parked or
\* hangs or the semaphore was replaced with a frame in it (the comment at ai_detection.c:506-510).
DetectionResumes == DetectionFairness => (aiBusy ~> (~aiBusy \/ Stranded \/ Disabled))

\* A caller of littlefs gets the window, also while tasks are parked, unless an inference was
\* under way when the NPU was reset: that one keeps the mutex and with it all file accesses.
FilesGoOn ==
    DetectionFairness =>
        (files = "waits" ~> (files # "waits" \/ halted \/ \E g \in Turns : ai[g] = "hung"))

==============================================================================
