--------------------------- MODULE KvsConfigProofs ----------------------------
(***************************************************************************)
(* Safety of the configuration of the KVS task for any number of turns of  *)
(* its retry loop, and of the object detection that each turn starts,      *)
(* checked by TLAPS.                                                       *)
(***************************************************************************)
EXTENDS KvsConfig, Detection, TLAPS

-----------------------------------------------------------------------------
(* The inductive invariant.                                                *)

\* What the signaling task has read, and when it exists
SignalingBegins ==
    /\ signaling => kvsAt \in {"signaling", "gone"} /\ pem = "loaded"
    /\ kvsAt = "start" => pem = "loaded"
    /\ ~signaling => reads = 0 /\ \A f \in Fields : used[f] = "empty"

\* What the KVS task finds in the globals before its first turn
NothingLoadedYet ==
    kvsAt \in {"waitIdentity", "waitMqtt"} =>
        /\ \A f \in Fields : config[f] \in {"empty", "identity"}
        /\ ~signaling

\* The bit comes after the last of the globals, which nothing but a load of the store resets
IdentityStays ==
    /\ configBit => identitySet = 5
    /\ inTime => configBit
    /\ inTime /\ hasUrl => kvsAt # "loadStore"
    /\ hasUrl /\ (inTime \/ kvsAt \in {"waitIdentity", "waitMqtt"}) =>
         \A i \in 1..5 : i <= identitySet => config[IdentityOrder[i]] = "identity"

\* What has been read of an identity that came in time
ReadsFollowOrder ==
    inTime /\ hasUrl =>
        \A i \in 1..5 : used[ReadOrder[i]] = IF i <= reads THEN "identity" ELSE "empty"

\* Where a pointer into freed memory can come from
FreedByFailure ==
    /\ \A f \in Fields : config[f] = "freed" =>
         storeFailed \/ kvsAt = "loadStore"
    /\ (\E f \in Fields : used[f] = "freed") => storeFailed

KvsInv ==
    /\ KvsTypeOK /\ SignalingBegins /\ NothingLoadedYet /\ IdentityStays
    /\ ReadsFollowOrder /\ FreedByFailure

-----------------------------------------------------------------------------

LEMMA FieldsAre ==
    /\ Fields = {"region", "channel", "endpoint", "alias", "thing"}
    /\ \A i \in 1..5 : IdentityOrder[i] \in Fields /\ ReadOrder[i] \in Fields
    /\ \A i \in 1..5, j \in 1..5 : i # j => ReadOrder[i] # ReadOrder[j]
    /\ \A i \in 1..5, j \in 1..5 : i # j => IdentityOrder[i] # IdentityOrder[j]
    /\ \A f \in Fields : \E i \in 1..5 : f = IdentityOrder[i]
    /\ \A f \in Fields : \E i \in 1..5 : f = ReadOrder[i]
<1>1. \A i : i \in 1..5 <=> i \in {1, 2, 3, 4, 5}
  OBVIOUS
<1>2. Fields = {IdentityOrder[1], IdentityOrder[2], IdentityOrder[3], IdentityOrder[4],
                IdentityOrder[5]}
  <2>1. \A f : f \in Fields <=> \E i \in 1..5 : f = IdentityOrder[i]
    BY Zenon DEF Fields
  <2>2. QED
    BY <1>1, <2>1
<1>3. Fields = {"region", "channel", "endpoint", "alias", "thing"}
  BY <1>2 DEF IdentityOrder
<1>4. \A i \in 1..5 : IdentityOrder[i] \in Fields /\ ReadOrder[i] \in Fields
  BY <1>3 DEF IdentityOrder, ReadOrder
<1>5. \A i \in 1..5, j \in 1..5 : i # j => ReadOrder[i] # ReadOrder[j]
  <2> SUFFICES ASSUME NEW i \in 1..5, NEW j \in 1..5, i # j PROVE ReadOrder[i] # ReadOrder[j]
    OBVIOUS
  <2>1. i \in {1, 2, 3, 4, 5} /\ j \in {1, 2, 3, 4, 5}
    BY <1>1
  <2>2. QED
    BY <2>1 DEF ReadOrder
<1>6. \A i \in 1..5, j \in 1..5 : i # j => IdentityOrder[i] # IdentityOrder[j]
  <2> SUFFICES ASSUME NEW i \in 1..5, NEW j \in 1..5, i # j
               PROVE  IdentityOrder[i] # IdentityOrder[j]
    OBVIOUS
  <2>1. i \in {1, 2, 3, 4, 5} /\ j \in {1, 2, 3, 4, 5}
    BY <1>1
  <2>2. QED
    BY <2>1 DEF IdentityOrder
<1>7. \A f \in Fields : \E i \in 1..5 : f = IdentityOrder[i]
  BY DEF Fields
<1>8. \A f \in Fields : \E i \in 1..5 : f = ReadOrder[i]
  <2>1. /\ ReadOrder[1] = "region" /\ ReadOrder[2] = "channel" /\ ReadOrder[3] = "endpoint"
        /\ ReadOrder[4] = "thing" /\ ReadOrder[5] = "alias"
    BY DEF ReadOrder
  <2>2. 1 \in 1..5 /\ 2 \in 1..5 /\ 3 \in 1..5 /\ 4 \in 1..5 /\ 5 \in 1..5
    OBVIOUS
  <2>3. QED
    BY <1>3, <2>1, <2>2, Zenon
<1>9. QED
  BY <1>3, <1>4, <1>5, <1>6, <1>7, <1>8, Zenon

LEMMA KvsInvInit == KvsInit => KvsInv
<1> SUFFICES ASSUME KvsInit PROVE KvsInv
  OBVIOUS
<1> USE FieldsAre DEF KvsInit
<1>1. KvsTypeOK
  <2>1. {hasUrl, configBit, inTime, signaling, storeFailed} \subseteq BOOLEAN
    BY Zenon
  <2>2. turns \in 0..MaxTurns /\ identitySet \in 0..5 /\ reads \in 0..5
    BY MaxTurnsAssumption
  <2>3. config \in [Fields -> Sources] /\ used \in [Fields -> Sources]
    BY DEF Sources
  <2>4. QED
    BY <2>1, <2>2, <2>3, Zenon DEF KvsTypeOK
<1>2. SignalingBegins /\ NothingLoadedYet /\ IdentityStays
  BY DEF SignalingBegins, NothingLoadedYet, IdentityStays
<1>3. ReadsFollowOrder /\ FreedByFailure
  BY DEF ReadsFollowOrder, FreedByFailure
<1>4. QED
  BY <1>1, <1>2, <1>3 DEF KvsInv

LEMMA KvsInvStep == KvsInv /\ [KvsNext]_kvsVars => KvsInv'
<1> SUFFICES ASSUME KvsInv, [KvsNext]_kvsVars PROVE KvsInv'
  OBVIOUS
<1> USE FieldsAre, MaxTurnsAssumption
    DEF KvsInv, KvsTypeOK, Sources, SignalingBegins, NothingLoadedYet, IdentityStays,
        ReadsFollowOrder, FreedByFailure, identityVars, signalVars
<1>1. CASE SetsGlobal
  BY <1>1 DEF SetsGlobal
<1>2. CASE SetsBit
  BY <1>2 DEF SetsBit
<1>3. CASE EndsWait
  BY <1>3 DEF EndsWait
<1>4. CASE BeginsTurn
  BY <1>4 DEF BeginsTurn
<1>5. CASE FindsConfig
  BY <1>5 DEF FindsConfig
<1>6. CASE FindsNoConfig
  BY <1>6 DEF FindsNoConfig, FreedConfig, FreedPem, Empty
<1>7. CASE LoadsStore
  <2>1. PICK lacking \in SUBSET {"endpoint", "thing"} :
          config' = [f \in Fields |-> IF f \in lacking THEN "empty" ELSE "store"]
    BY <1>7 DEF LoadsStore
  <2>2. KvsTypeOK'
    BY <1>7, <2>1 DEF LoadsStore
  <2>3. ~signaling /\ kvsAt' = "loadPem" /\ UNCHANGED signalVars /\ UNCHANGED inTime
        /\ UNCHANGED identityVars /\ \A f \in Fields : config'[f] # "freed"
    BY <1>7, <2>1 DEF LoadsStore
  <2>4. SignalingBegins' /\ NothingLoadedYet' /\ IdentityStays' /\ ReadsFollowOrder'
    BY <1>7, <2>3 DEF LoadsStore
  <2>5. FreedByFailure'
    BY <2>3
  <2>6. QED
    BY <2>2, <2>4, <2>5, Zenon DEF KvsInv
<1>8. CASE LacksStore
  <2>1. storeFailed' \in BOOLEAN
    BY <1>8, Zenon DEF LacksStore
  <2>2. KvsTypeOK'
    BY <1>8, <2>1 DEF LacksStore
  <2>3. SignalingBegins' /\ NothingLoadedYet' /\ IdentityStays' /\ ReadsFollowOrder'
    BY <1>8 DEF LacksStore
  <2>4. FreedByFailure'
    BY <1>8 DEF LacksStore
  <2>5. QED
    BY <2>2, <2>3, <2>4, Zenon DEF KvsInv
<1>9. CASE LoadsPem
  BY <1>9 DEF LoadsPem
<1>10. CASE LacksPem
  BY <1>10 DEF LacksPem
<1>11. CASE StartFails
  <2>1. storeFailed' \in BOOLEAN
    BY <1>11, Zenon DEF StartFails
  <2>2. KvsTypeOK'
    BY <1>11, <2>1 DEF StartFails, FreedConfig, FreedPem
  <2>3. SignalingBegins' /\ NothingLoadedYet' /\ IdentityStays' /\ ReadsFollowOrder'
    BY <1>11 DEF StartFails, FreedConfig, FreedPem
  <2>4. FreedByFailure'
    <3>1. storeFailed => storeFailed'
      BY <1>11, Zenon DEF StartFails
    <3>2. (\E f \in Fields : config[f] = "store") => storeFailed'
      BY <1>11, Zenon DEF StartFails
    <3>3. used' = used
      BY <1>11, Zenon DEF StartFails, signalVars
    <3>4. \A f \in Fields : config'[f] = "freed" => config[f] \in {"store", "freed"}
      BY <1>11 DEF StartFails, FreedConfig
    <3>5. \A f \in Fields : config[f] = "freed" => storeFailed
      BY <1>11 DEF StartFails
    <3>6. QED
      BY <3>1, <3>2, <3>3, <3>4, <3>5 DEF FreedByFailure
  <2>5. QED
    BY <2>2, <2>3, <2>4, Zenon DEF KvsInv
<1>12. CASE StartsSignaling
  BY <1>12 DEF StartsSignaling
<1>13. CASE KvsTaskGoes
  BY <1>13 DEF KvsTaskGoes
<1>14. CASE ReadsGlobal
  BY <1>14 DEF ReadsGlobal
<1>15. CASE UNCHANGED kvsVars
  BY <1>15 DEF kvsVars
<1>16. QED
  BY <1>1, <1>2, <1>3, <1>4, <1>5, <1>6, <1>7, <1>8, <1>9, <1>10, <1>11, <1>12, <1>13, <1>14,
     <1>15 DEF KvsNext

LEMMA KvsInvariant == KvsSpec => []KvsInv
<1>1. KvsInit => KvsInv
  BY KvsInvInit
<1>2. KvsInv /\ [KvsNext]_kvsVars => KvsInv'
  BY KvsInvStep
<1>3. QED
  BY <1>1, <1>2, PTL DEF KvsSpec

-----------------------------------------------------------------------------

LEMMA KvsInvSafe ==
    KvsInv => KvsTypeOK /\ IdentityInTimeIsUsed /\ SignalsWithLivePem /\ FreedOnlyAfterFailure
<1> SUFFICES ASSUME KvsInv
             PROVE  /\ KvsTypeOK /\ IdentityInTimeIsUsed
                    /\ SignalsWithLivePem /\ FreedOnlyAfterFailure
  OBVIOUS
<1>1. IdentityInTimeIsUsed
  <2> SUFFICES ASSUME inTime, hasUrl, NEW f \in Fields
               PROVE  /\ used[f] \in {"empty", "identity"}
                      /\ reads = 5 => used[f] = "identity"
    BY DEF IdentityInTimeIsUsed
  <2>1. PICK i \in 1..5 : f = ReadOrder[i]
    BY FieldsAre
  <2>2. used[f] = IF i <= reads THEN "identity" ELSE "empty"
    BY <2>1 DEF KvsInv, ReadsFollowOrder
  <2>3. QED
    BY <2>1, <2>2
<1>2. SignalsWithLivePem
  BY DEF KvsInv, SignalingBegins, SignalsWithLivePem
<1>3. FreedOnlyAfterFailure
  BY DEF KvsInv, FreedByFailure, FreedOnlyAfterFailure
<1>4. QED
  BY <1>1, <1>2, <1>3 DEF KvsInv

\* Every state of the KVS task, the globals and the signaling task is well formed.
THEOREM KvsTypeCorrect == KvsSpec => []KvsTypeOK
  BY KvsInvariant, KvsInvSafe, PTL

\* However many turns of vKvsWebRtcTask fail, an identity that came before the end of its
\* wait is what SignalingController_Task reads, all five globals of it.
THEOREM IdentityReachesSignaling == KvsSpec => []IdentityInTimeIsUsed
  BY KvsInvariant, KvsInvSafe, PTL

\* The certificate and the key that signaling starts with are never those that
\* prvFreeConfigBuffers has freed after an earlier failure.
THEOREM SignalingHasItsPem == KvsSpec => []SignalsWithLivePem
  BY KvsInvariant, KvsInvSafe, PTL

\* prvFreeConfigBuffers after a turn that had loaded the store is the only way for signaling
\* to read a freed configuration.
THEOREM FreedConfigurationComesFromFailure == KvsSpec => []FreedOnlyAfterFailure
  BY KvsInvariant, KvsInvSafe, PTL

-----------------------------------------------------------------------------
(* Object detection, which the KVS task starts in each turn.               *)

\* The task that has the weights in use, and littlefs with the window down, hold the mutex.
WindowIsHeld ==
    /\ \A g \in Turns : ai[g] \in {"load", "run", "hung"} => holder = g
    /\ files \in {"down", "bare"} => holder = Files

\* Tasks exist for the turns that have begun; a task that waits has a semaphore.
TurnsBegun ==
    /\ starter = "camera" => inits \in Turns
    /\ \A t \in Turns : inits < t => ai[t] = "none" /\ media[t] = "none"
    /\ \A t \in Turns : ai[t] = "wait" => waitsOn[t] \in Turns

Working(g)    == ai[g] \in {"taken", "run", "done"}
Submitting(m) == media[m] \in {"claim", "write"}

\* A frame in a semaphore or in work, at most one, and then the flag is set
OneFrame ==
    /\ ~aiBusy => \A t \in Turns : ~token[t] /\ ~Working(t)
    /\ \A g \in Turns, t \in Turns : Working(g) => ~token[t] /\ (Working(t) => g = t)
    /\ \A s \in Turns, t \in Turns : token[s] /\ token[t] => s = t

\* What a media task that found the flag clear may assume: a frame that came since is in the
\* semaphore it will give to, from the media task of another turn
NoneInWork ==
    \A m \in Turns : Submitting(m) =>
        /\ media[m] = "write" => aiBusy
        /\ \A t \in Turns : ~Working(t) /\ (token[t] => t = inits /\ inits = 2)

DetectionInv ==
    /\ DetectionTypeOK /\ WindowIsHeld /\ TurnsBegun
    /\ inits <= 2 => OneFrame /\ NoneInWork

-----------------------------------------------------------------------------

LEMMA TurnsAre ==
    /\ Turns \subseteq Nat \ {0} /\ Files \notin Turns /\ Nobody \notin Turns /\ Files # Nobody
    /\ 1 \in Turns
    /\ \A t \in Turns : t <= MaxInits
BY DetectionAssumption DEF Turns, Files, Nobody

LEMMA DetectionBegins == DetectionInit => DetectionInv
<1> SUFFICES ASSUME DetectionInit PROVE DetectionInv
  OBVIOUS
<1> USE DetectionAssumption, TurnsAre DEF DetectionInit
<1>1. DetectionTypeOK
  <2>1. 0 \in 0..MaxInits
    OBVIOUS
  <2>2. waitsOn \in [Turns -> 0..MaxInits] /\ inits \in 0..MaxInits
    BY <2>1
  <2>3. /\ media \in [Turns -> {"none", "frame", "claim", "write", "gone"}]
        /\ ai \in [Turns -> {"none", "init", "load", "loop", "wait", "taken", "run", "done",
                             "hung", "parked"}]
        /\ token \in [Turns -> BOOLEAN]
    OBVIOUS
  <2> QED
    BY <2>2, <2>3 DEF DetectionTypeOK
<1>2. WindowIsHeld
  BY DEF WindowIsHeld
<1>3. TurnsBegun
  BY DEF TurnsBegun
<1>4. OneFrame /\ NoneInWork
  BY DEF OneFrame, NoneInWork, Working, Submitting
<1> QED
  BY <1>1, <1>2, <1>3, <1>4 DEF DetectionInv

LEMMA TypesStay ==
    ASSUME DetectionTypeOK, TurnsBegun, [DetectionNext]_detectionVars
    PROVE  DetectionTypeOK'
<1> USE DetectionAssumption, TurnsAre DEF DetectionTypeOK
<1>1. CASE StartsTurn
  <2>1. inits' \in 0..MaxInits
    BY <1>1 DEF StartsTurn
  <2>2. ai' \in [Turns -> {"none", "init", "load", "loop", "wait", "taken", "run", "done",
                           "hung", "parked"}]
    BY <1>1 DEF StartsTurn
  <2> QED
    BY <1>1, <2>1, <2>2 DEF StartsTurn, windowVars, frameVars
<1>2. CASE StartsMedia
  BY <1>2 DEF StartsMedia, TurnsBegun, windowVars, frameVars, aiVars
<1>3. ASSUME NEW m \in Turns, SkipsFrame(m) \/ FindsIdle(m) \/ ClaimsBuffer(m)
      PROVE  DetectionTypeOK'
  BY <1>3 DEF SkipsFrame, FindsIdle, ClaimsBuffer, NextTurn, windowVars, frameVars, aiVars
<1>4. ASSUME NEW m \in Turns, GivesFrame(m)
      PROVE  DetectionTypeOK'
  BY <1>4 DEF GivesFrame, NextTurn, windowVars, aiVars
<1>5. ASSUME NEW g \in Turns, BeginsLoading(g) \/ BeginsInference(g)
      PROVE  DetectionTypeOK'
  BY <1>5 DEF BeginsLoading, BeginsInference, LocksWindow, AiGoesTo, streamVars, frameVars
<1>6. ASSUME NEW g \in Turns, Loads(g) \/ Parks(g) \/ EndsInference(g)
      PROVE  DetectionTypeOK'
  BY <1>6 DEF Loads, Parks, EndsInference, Unlocks, AiGoesTo, streamVars, frameVars
<1>7. ASSUME NEW g \in Turns, Waits(g) \/ TimesOut(g) \/ TakesFrame(g) \/ ReportsBoxes(g)
      PROVE  DetectionTypeOK'
  <2>1. 0 \in 0..MaxInits
    OBVIOUS
  <2>2. waitsOn' \in [Turns -> 0..MaxInits]
    BY <1>7, <2>1 DEF Waits, TimesOut, TakesFrame, ReportsBoxes
  <2>3. token' \in [Turns -> BOOLEAN]
    BY <1>7 DEF Waits, TimesOut, TakesFrame, ReportsBoxes, frameVars
  <2>4. ai' \in [Turns -> {"none", "init", "load", "loop", "wait", "taken", "run", "done",
                           "hung", "parked"}]
    BY <1>7 DEF Waits, TimesOut, TakesFrame, ReportsBoxes, AiGoesTo
  <2>5. UNCHANGED <<starter, inits, streamVars, aiReady, windowVars, halted>> /\ aiBusy' \in BOOLEAN
    BY <1>7 DEF Waits, TimesOut, TakesFrame, ReportsBoxes, frameVars
  <2> QED
    BY <2>2, <2>3, <2>4, <2>5 DEF streamVars, windowVars
<1>8. CASE NeedsWindow \/ FileStep
  BY <1>8 DEF NeedsWindow, FileStep, ReadsWindow, TakesWindowDown, PutsWindowUp, streamVars,
              frameVars, aiVars
<1>9. CASE UNCHANGED detectionVars
  BY <1>9 DEF detectionVars, streamVars, frameVars, aiVars, windowVars
<1> QED
  BY <1>1, <1>2, <1>3, <1>4, <1>5, <1>6, <1>7, <1>8, <1>9 DEF DetectionNext, Submission, AiStep

LEMMA HoldingStays ==
    ASSUME DetectionTypeOK, WindowIsHeld, TurnsBegun, [DetectionNext]_detectionVars
    PROVE  WindowIsHeld'
<1> USE TurnsAre DEF DetectionTypeOK, WindowIsHeld
<1>1. CASE StartsTurn
  BY <1>1 DEF StartsTurn, windowVars
<1>2. CASE StartsMedia
  BY <1>2 DEF StartsMedia, windowVars, aiVars
<1>3. CASE \E m \in Turns : SkipsFrame(m) \/ FindsIdle(m) \/ ClaimsBuffer(m) \/ GivesFrame(m)
  BY <1>3 DEF SkipsFrame, FindsIdle, ClaimsBuffer, GivesFrame, windowVars, aiVars
<1>5. ASSUME NEW g \in Turns, BeginsLoading(g) \/ BeginsInference(g)
      PROVE  WindowIsHeld'
  BY <1>5 DEF BeginsLoading, BeginsInference, LocksWindow, AiGoesTo, AiRuns
<1>6. ASSUME NEW g \in Turns, Loads(g) \/ Parks(g) \/ EndsInference(g)
      PROVE  WindowIsHeld'
  BY <1>6 DEF Loads, Parks, EndsInference, Unlocks, AiGoesTo, AiRuns
<1>7. ASSUME NEW g \in Turns, Waits(g) \/ TimesOut(g) \/ TakesFrame(g) \/ ReportsBoxes(g)
      PROVE  WindowIsHeld'
  BY <1>7 DEF Waits, TimesOut, TakesFrame, ReportsBoxes, AiGoesTo, windowVars
<1>8. CASE NeedsWindow \/ FileStep
  BY <1>8 DEF NeedsWindow, FileStep, ReadsWindow, TakesWindowDown, PutsWindowUp, aiVars
<1>9. CASE UNCHANGED detectionVars
  BY <1>9 DEF detectionVars, aiVars, windowVars
<1> QED
  BY <1>1, <1>2, <1>3, <1>5, <1>6, <1>7, <1>8, <1>9 DEF DetectionNext, Submission, AiStep

LEMMA TurnsStay ==
    ASSUME DetectionTypeOK, TurnsBegun, [DetectionNext]_detectionVars
    PROVE  TurnsBegun'
<1> USE DetectionAssumption, TurnsAre DEF DetectionTypeOK, TurnsBegun
<1>1. CASE StartsTurn
  <2>1. inits' \in Turns /\ inits' = inits + 1
    BY <1>1 DEF StartsTurn, Turns
  <2>2. \A t \in Turns : inits' < t => inits < t
    BY <2>1
  <2> QED
    BY <1>1, <2>1, <2>2 DEF StartsTurn
<1>2. CASE StartsMedia
  BY <1>2 DEF StartsMedia, aiVars
<1>3. CASE \E m \in Turns : SkipsFrame(m) \/ FindsIdle(m) \/ ClaimsBuffer(m) \/ GivesFrame(m)
  BY <1>3 DEF SkipsFrame, FindsIdle, ClaimsBuffer, GivesFrame, aiVars
<1>5. ASSUME NEW g \in Turns, BeginsLoading(g) \/ BeginsInference(g) \/ Loads(g) \/ Parks(g)
                              \/ EndsInference(g)
      PROVE  TurnsBegun'
  BY <1>5 DEF BeginsLoading, BeginsInference, Loads, Parks, EndsInference, AiGoesTo, AiRuns,
              streamVars
<1>6. ASSUME NEW g \in Turns, Waits(g)
      PROVE  TurnsBegun'
  <2>1. inits \in Turns
    BY <1>6 DEF Waits, AiRuns, Turns
  <2> QED
    BY <1>6, <2>1 DEF Waits, AiRuns, AiGoesTo, streamVars
<1>7. ASSUME NEW g \in Turns, TimesOut(g) \/ TakesFrame(g) \/ ReportsBoxes(g)
      PROVE  TurnsBegun'
  BY <1>7 DEF TimesOut, TakesFrame, ReportsBoxes, AiGoesTo, AiRuns, streamVars
<1>8. CASE NeedsWindow \/ FileStep
  BY <1>8 DEF NeedsWindow, FileStep, ReadsWindow, TakesWindowDown, PutsWindowUp, aiVars, streamVars
<1>9. CASE UNCHANGED detectionVars
  BY <1>9 DEF detectionVars, aiVars, streamVars
<1> QED
  BY <1>1, <1>2, <1>3, <1>5, <1>6, <1>7, <1>8, <1>9 DEF DetectionNext, Submission, AiStep

LEMMA OneFrameStays ==
    ASSUME DetectionInv, [DetectionNext]_detectionVars, inits' <= 2
    PROVE  OneFrame' /\ NoneInWork'
<1> USE DetectionAssumption, TurnsAre DEF DetectionTypeOK, Working, Submitting
<1>0. inits \in Nat /\ inits <= 2
  <2>1. inits \in Nat
    BY DEF DetectionInv
  <2>2. inits' = inits + 1 \/ inits' = inits
    <3>1. CASE StartsTurn
      BY <3>1 DEF StartsTurn
    <3>2. CASE StartsMedia \/ Submission \/ \E m \in Turns : SkipsFrame(m) \/ FindsIdle(m)
      BY <3>2 DEF StartsMedia, Submission, SkipsFrame, FindsIdle, ClaimsBuffer, GivesFrame
    <3>3. CASE \E g \in Turns : AiStep(g)
      BY <3>3 DEF AiStep, BeginsLoading, Loads, Parks, Waits, TimesOut, TakesFrame,
                  BeginsInference, EndsInference, ReportsBoxes
    <3>4. CASE NeedsWindow \/ FileStep \/ UNCHANGED detectionVars
      BY <3>4 DEF NeedsWindow, FileStep, ReadsWindow, TakesWindowDown, PutsWindowUp, detectionVars
    <3> QED
      BY <3>1, <3>2, <3>3, <3>4 DEF DetectionNext
  <2> QED
    BY <2>1, <2>2
<1>a. DetectionTypeOK /\ TurnsBegun /\ OneFrame /\ NoneInWork
  BY <1>0 DEF DetectionInv
<1>1. CASE StartsTurn
  <2>1. inits < 2 /\ UNCHANGED <<media, token, aiBusy>>
    BY <1>1, <1>0 DEF StartsTurn, frameVars
  <2>2. \A t \in Turns : Working(t)' => Working(t)
    BY <1>1, <1>a DEF StartsTurn
  <2>3. OneFrame'
    BY <1>a, <2>1, <2>2 DEF OneFrame
  <2>4. NoneInWork'
    BY <1>a, <2>1, <2>2, <1>0 DEF NoneInWork
  <2> QED
    BY <2>3, <2>4
<1>2. CASE StartsMedia
  BY <1>2, <1>a DEF StartsMedia, OneFrame, NoneInWork, TurnsBegun, frameVars, aiVars
<1>3. ASSUME NEW m \in Turns, SkipsFrame(m)
      PROVE  OneFrame' /\ NoneInWork'
  BY <1>3, <1>a DEF SkipsFrame, NextTurn, OneFrame, NoneInWork, frameVars, aiVars
<1>4. ASSUME NEW m \in Turns, FindsIdle(m)
      PROVE  OneFrame' /\ NoneInWork'
  BY <1>4, <1>a DEF FindsIdle, Submits, OneFrame, NoneInWork, frameVars, aiVars
<1>5. ASSUME NEW m \in Turns, ClaimsBuffer(m)
      PROVE  OneFrame' /\ NoneInWork'
  BY <1>5, <1>a DEF ClaimsBuffer, OneFrame, NoneInWork, aiVars
<1>6. ASSUME NEW m \in Turns, GivesFrame(m)
      PROVE  OneFrame' /\ NoneInWork'
  <2>1. inits \in Turns /\ m <= inits /\ aiBusy
    BY <1>6, <1>a DEF GivesFrame, TurnsBegun, NoneInWork, Turns
  <2>2. \A t \in Turns : ~Working(t) /\ (token[t] => t = inits)
    BY <1>6, <1>a DEF GivesFrame, NoneInWork
  <2>3. UNCHANGED <<ai, inits, aiBusy>> /\ \A t \in Turns : token'[t] => t = inits
    BY <1>6, <1>a, <2>2 DEF GivesFrame, aiVars
  <2>4. \A n \in Turns : Submitting(n)' => n # m /\ Submitting(n) /\ media'[n] = media[n]
    BY <1>6, <1>a DEF GivesFrame, NextTurn
  <2>5. \A n \in Turns : Submitting(n) /\ n # m => inits = 2
    <3> SUFFICES ASSUME NEW n \in Turns, Submitting(n), n # m PROVE inits = 2
      OBVIOUS
    <3>1. n <= inits
      BY <1>a DEF TurnsBegun
    <3> QED
      BY <3>1, <2>1, <1>0
  <2> QED
    BY <1>a, <2>1, <2>2, <2>3, <2>4, <2>5 DEF OneFrame, NoneInWork
<1>7. ASSUME NEW g \in Turns, TakesFrame(g)
      PROVE  OneFrame' /\ NoneInWork'
  <2>1. waitsOn[g] \in Turns /\ token[waitsOn[g]]
    BY <1>7, <1>a DEF TakesFrame, AiRuns, TurnsBegun
  <2>2. aiBusy /\ \A t \in Turns : ~Working(t) /\ (token[t] => t = waitsOn[g])
    BY <2>1, <1>a DEF OneFrame
  <2>3. \A t \in Turns : ~token'[t] /\ (Working(t)' => t = g)
    BY <1>7, <1>a, <2>1, <2>2 DEF TakesFrame, AiGoesTo
  <2>4. aiBusy' /\ \A m \in Turns : ~Submitting(m)'
    BY <1>7, <2>2 DEF TakesFrame, AiRuns, MediaWaits, streamVars
  <2> QED
    BY <2>3, <2>4 DEF OneFrame, NoneInWork
<1>8. ASSUME NEW g \in Turns, ReportsBoxes(g)
      PROVE  OneFrame' /\ NoneInWork'
  <2>1. \A t \in Turns : ~token[t] /\ (Working(t) => t = g)
    BY <1>8, <1>a DEF ReportsBoxes, AiRuns, OneFrame
  <2>2. \A t \in Turns : ~token'[t] /\ ~Working(t)'
    BY <1>8, <1>a, <2>1 DEF ReportsBoxes, AiGoesTo
  <2>3. \A m \in Turns : ~Submitting(m)'
    BY <1>8 DEF ReportsBoxes, AiRuns, MediaWaits, streamVars
  <2> QED
    BY <2>2, <2>3 DEF OneFrame, NoneInWork
<1>9. ASSUME NEW g \in Turns, BeginsLoading(g) \/ Loads(g) \/ Parks(g) \/ Waits(g) \/ TimesOut(g)
                              \/ BeginsInference(g) \/ EndsInference(g)
      PROVE  OneFrame' /\ NoneInWork'
  <2>1. UNCHANGED <<media, token, aiBusy>> /\ \A m \in Turns : ~Submitting(m)
    BY <1>9 DEF BeginsLoading, Loads, Parks, Waits, TimesOut, BeginsInference, EndsInference,
                AiRuns, MediaWaits, streamVars, frameVars
  <2>2. \A t \in Turns : Working(t)' => Working(t)
    BY <1>9, <1>a DEF BeginsLoading, Loads, Parks, Waits, TimesOut, BeginsInference,
                      EndsInference, AiGoesTo, AiRuns
  <2> QED
    BY <1>a, <2>1, <2>2 DEF OneFrame, NoneInWork
<1>10. CASE NeedsWindow \/ FileStep \/ UNCHANGED detectionVars
  <2>1. UNCHANGED <<inits, media, token, aiBusy, ai>>
    BY <1>10 DEF NeedsWindow, FileStep, ReadsWindow, TakesWindowDown, PutsWindowUp,
                 detectionVars, streamVars, frameVars, aiVars
  <2> QED
    BY <1>a, <2>1 DEF OneFrame, NoneInWork
<1> QED
  BY <1>1, <1>2, <1>3, <1>4, <1>5, <1>6, <1>7, <1>8, <1>9, <1>10
     DEF DetectionNext, Submission, AiStep

LEMMA DetectionInvStep == DetectionInv /\ [DetectionNext]_detectionVars => DetectionInv'
  BY TypesStay, HoldingStays, TurnsStay, OneFrameStays DEF DetectionInv

LEMMA DetectionInvariant == DetectionSpec => []DetectionInv
  BY DetectionBegins, DetectionInvStep, PTL DEF DetectionSpec

LEMMA DetectionInvSafe == DetectionInv => DetectionTypeOK /\ WeightsMapped /\ InputStable
<1>1. DetectionInv => WeightsMapped
  BY TurnsAre DEF DetectionInv, WindowIsHeld, WeightsMapped
<1>2. DetectionInv => InputStable
  BY DEF DetectionInv, NoneInWork, Working, Submitting, InputStable
<1> QED
  BY <1>1, <1>2 DEF DetectionInv

\* Object detection keeps its types, however often it is started (AiDetection_Init in the
\* retry loop of vKvsWebRtcTask).
THEOREM DetectionTypeCorrect == DetectionSpec => []DetectionTypeOK
  BY DetectionInvariant, DetectionInvSafe, PTL

\* While the NPU fetches weights littlefs does not have the window of the flash down, whatever
\* parks, hangs or is started again (vNorWindowLock in ai_detection.c and lfs_port_xspi.c).
THEOREM WeightsAreMapped == DetectionSpec => []WeightsMapped
  BY DetectionInvariant, DetectionInvSafe, PTL

\* In two turns the input buffer is not written while an AI task works on it.
THEOREM InputIsStable == DetectionSpec => []InputStable
  BY DetectionInvariant, DetectionInvSafe, PTL

==============================================================================
