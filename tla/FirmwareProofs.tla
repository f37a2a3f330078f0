---------------------------- MODULE FirmwareProofs ----------------------------
(***************************************************************************)
(* The seven parts of MCFirmware put together, checked by TLAPS: moving    *)
(* one part at a time is one way for all of them to move, and they are     *)
(* safe in whatever way they move, since they share no state.              *)
(***************************************************************************)
EXTENDS MCFirmware, ConnectionProofs, KvsConfigProofs, CommandEventsProofs, ViewerSessionProofs

-----------------------------------------------------------------------------
(* All parts move, each by its own steps and in any interleaving, as the   *)
(* tasks of the firmware do.  MCFirmware lets only one of them move.       *)

PartsInit ==
    NotifyInit /\ SendInit /\ KvsInit /\ EventsInit /\ WifiInit /\ ViewerInit /\ DetectionInit

PartsStep ==
    /\ [NotifyNext]_notifyVars /\ [SendNext]_sendVars /\ [KvsNext]_kvsVars
    /\ [EventsNext]_eventVars /\ [WifiNext]_wifiVars /\ [ViewerNext]_viewerVars
    /\ [DetectionNext]_detectionVars

AllParts ==
    /\ PartsInit
    /\ [][NotifyNext]_notifyVars /\ [][SendNext]_sendVars /\ [][KvsNext]_kvsVars
    /\ [][EventsNext]_eventVars /\ [][WifiNext]_wifiVars /\ [][ViewerNext]_viewerVars
    /\ [][DetectionNext]_detectionVars

PartsInv ==
    NotifyInv /\ SendInv /\ KvsInv /\ EventsInv /\ WifiInv /\ ViewerInv /\ DetectionInv

\* The safety properties of all parts
PartsSafe ==
    /\ TypesOK
    /\ SelectsOnOpenSocket /\ ThreadOfThisConnection /\ LengthAccounted
    /\ IdentityInTimeIsUsed /\ SignalsWithLivePem /\ FreedOnlyAfterFailure
    /\ AckAccounted /\ DownIsRetried /\ EncoderFollowsViewers
    /\ WeightsMapped /\ InputStable

-----------------------------------------------------------------------------

LEMMA FirmwareStepsAreParts == [FirmwareNext]_firmwareVars => PartsStep
<1>1. ASSUME UNCHANGED firmwareVars PROVE PartsStep
  BY <1>1 DEF firmwareVars, PartsStep
<1>2. ASSUME FirmwareNext PROVE PartsStep
  BY <1>2 DEF FirmwareNext, PartsStep
<1>3. QED
  BY <1>1, <1>2

LEMMA FirmwareInitIsParts == FirmwareInit => PartsInit
  BY DEF FirmwareInit, PartsInit

LEMMA PartsInvInit == PartsInit => PartsInv
  BY NotifyInvInit, SendInvInit, KvsInvInit, EventsInvInit, WifiInvInit, ViewerInvInit,
     DetectionBegins
     DEF PartsInit, PartsInv

LEMMA PartsInvStep == PartsInv /\ PartsStep => PartsInv'
  BY NotifyInvStep, SendInvStep, KvsInvStep, EventsInvStep, WifiInvStep, ViewerInvStep,
     DetectionInvStep
     DEF PartsInv, PartsStep

LEMMA PartsInvSafe == PartsInv => PartsSafe
<1> SUFFICES ASSUME PartsInv PROVE PartsSafe
  OBVIOUS
<1>1. NotifyTypeOK /\ SelectsOnOpenSocket /\ ThreadOfThisConnection
  BY NotifyInvSafe DEF PartsInv
<1>2. SendTypeOK /\ LengthAccounted
  BY DEF PartsInv, SendInv
<1>3. KvsTypeOK /\ IdentityInTimeIsUsed /\ SignalsWithLivePem /\ FreedOnlyAfterFailure
  BY KvsInvSafe DEF PartsInv
<1>4. EventsTypeOK /\ AckAccounted
  BY TypesFromParts DEF PartsInv, EventsInv, AckInv
<1>5. WifiTypeOK /\ DownIsRetried
  BY DEF PartsInv, WifiInv
<1>6. ViewerTypeOK /\ EncoderFollowsViewers
  BY ViewerInvSafe DEF PartsInv
<1>7. DetectionTypeOK /\ WeightsMapped /\ InputStable
  BY DetectionInvSafe DEF PartsInv
<1>8. QED
  BY <1>1, <1>2, <1>3, <1>4, <1>5, <1>6, <1>7 DEF PartsSafe, TypesOK

LEMMA PartsInvariant == AllParts => []PartsInv
<1>1. PartsInv /\ [NotifyNext]_notifyVars /\ [SendNext]_sendVars /\ [KvsNext]_kvsVars
        /\ [EventsNext]_eventVars /\ [WifiNext]_wifiVars /\ [ViewerNext]_viewerVars
        /\ [DetectionNext]_detectionVars
          => PartsInv'
  BY PartsInvStep DEF PartsStep
<1>2. QED
  BY <1>1, PartsInvInit, PTL DEF AllParts

-----------------------------------------------------------------------------

\* MCFirmware does nothing that the parts, all moving, could not do.
THEOREM FirmwareRunsItsParts == FirmwareSpec => AllParts
<1>1. FirmwareInit => PartsInit
  BY FirmwareInitIsParts
<1>2. [FirmwareNext]_firmwareVars
        => /\ [NotifyNext]_notifyVars /\ [SendNext]_sendVars /\ [KvsNext]_kvsVars
           /\ [EventsNext]_eventVars /\ [WifiNext]_wifiVars /\ [ViewerNext]_viewerVars
           /\ [DetectionNext]_detectionVars
  BY FirmwareStepsAreParts DEF PartsStep
<1>3. QED
  BY <1>1, <1>2, PTL DEF FirmwareSpec, AllParts

\* What the run shows of one part at a time holds of the firmware, in which all of them move:
\* the safety of the notification thread, of records, configuration, acknowledgments, station,
\* viewers and detection.
THEOREM PartsAreSafe == AllParts => []PartsSafe
  BY PartsInvariant, PartsInvSafe, PTL

\* The variables of every part keep their types.
THEOREM FirmwareTypesCorrect == FirmwareSpec => []TypesOK
<1>1. PartsSafe => TypesOK
  BY DEF PartsSafe
<1>2. QED
  BY <1>1, FirmwareRunsItsParts, PartsAreSafe, PTL

\* The stack and the task buffer of the notification thread are free when they are used again,
\* whatever else runs.
THEOREM FirmwareReusesStackWhenFree == AllParts => StackReusedWhenFree
<1>1. PartsInv => NotifyInv
  BY DEF PartsInv
<1>2. QED
  BY <1>1, PartsInvariant, StackIsFreeInStep, PTL DEF AllParts, StackReusedWhenFree

\* Commands are acknowledged in their order, whatever else runs.
THEOREM FirmwareKeepsLedger == AllParts => ImplementsLedger
<1>1. PartsInit => EventsInit
  BY DEF PartsInit
<1>2. PartsInv => EventsInv
  BY DEF PartsInv
<1>3. QED
  BY <1>1, <1>2, PartsInvariant, LedgerInit, OrderStep, LedgerStep, PTL
     DEF AllParts, ImplementsLedger, Ledger!Spec

==============================================================================
