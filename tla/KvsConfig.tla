------------------------------ MODULE KvsConfig -------------------------------
(***************************************************************************)
(* Where the KVS WebRTC task gets its configuration from, and what the     *)
(* signaling task it starts in the end makes of it.  The configuration is  *)
(* a set of global pointers.  The IOTCONNECT task sets them one by one     *)
(* when it has the identity of the device, and then sets an event bit; the *)
(* KVS task waits a minute for the bit, and takes the key-value store when *)
(* the pointers are not set.  The buffers of the key-value store are freed *)
(* after each failure, and the pointers stay as they are.                  *)
(*                                                                         *)
(* Sources: vKvsWebRtcTask of Appli/Common/app/kvs_webrtc/                 *)
(* kvs_webrtc_task.c, prvParseIdentityKvsConfig of Appli/Common/app/       *)
(* iotconnect/iotconnect_runtime.c, and SignalingController_Task of        *)
(* Appli/Libraries/kvs_webrtc/examples/app_common/app_common.c.            *)
(*                                                                         *)
(* The KVS task has priority 11, IOTCONNECT 10, the signaling task 4: the  *)
(* KVS task is interrupted only where it blocks, that is between the       *)
(* actions below, and the signaling task between any two of its reads.     *)
(***************************************************************************)
EXTENDS Naturals

CONSTANT MaxTurns  \* bound on the turns of the retry loop

ASSUME MaxTurnsAssumption == MaxTurns \in Nat

\* The order in which prvParseIdentityKvsConfig sets them
IdentityOrder == <<"region", "channel", "endpoint", "alias", "thing">>

\* The order in which SignalingController_Task reads them
ReadOrder == <<"region", "channel", "endpoint", "thing", "alias">>

Fields == {IdentityOrder[i] : i \in 1..5}

VARIABLES
    kvsAt,        \* where the KVS task is; "gone" when it has deleted itself
    config,       \* what each global points to: an empty string, the identity, a buffer
                  \*   filled from the key-value store, or a freed buffer
    pem,          \* the same for the certificate and the key, "loaded" from PKCS#11
    hasUrl,       \* the identity has the URL with endpoint and role alias
    identitySet,  \* globals the IOTCONNECT task has set
    configBit,    \* EVT_MASK_IOTC_KVS_CONFIG
    inTime,       \* the bit came before the KVS task stopped waiting
    turns,        \* turns of the retry loop so far
    signaling,    \* there is a signaling task
    reads,        \* globals it has read
    used,         \* what it has read
    storeFailed   \* (history) the store was loaded, and a turn failed after that

identityVars == <<hasUrl, identitySet, configBit>>
signalVars   == <<signaling, reads, used>>
kvsVars == <<kvsAt, config, pem, identityVars, inTime, turns, signalVars, storeFailed>>

-----------------------------------------------------------------------------

Empty(f) == config[f] = "empty"

\* prvFreeConfigBuffers: the globals keep pointing into the buffers
FreedConfig == [f \in Fields |-> IF config[f] = "store" THEN "freed" ELSE config[f]]
FreedPem    == IF pem = "empty" THEN "empty" ELSE "freed"

KvsInit ==
    /\ kvsAt = "waitIdentity"
    /\ config = [f \in Fields |-> "empty"] /\ pem = "empty"
    /\ hasUrl \in BOOLEAN /\ identitySet = 0 /\ configBit = FALSE
    /\ inTime = FALSE /\ turns = 0
    /\ signaling = FALSE /\ reads = 0 /\ used = [f \in Fields |-> "empty"]
    /\ storeFailed = FALSE

-----------------------------------------------------------------------------
(* The IOTCONNECT task. *)

\* (mutant) the bit is set with the first of the globals
SetsBitFirst ==
    /\ identitySet < 5
    /\ LET f == IdentityOrder[identitySet + 1] IN
         config' = [config EXCEPT ![f] =
             IF f \in {"endpoint", "alias"} /\ ~hasUrl THEN "empty" ELSE "identity"]
    /\ identitySet' = identitySet + 1
    /\ configBit' = TRUE
    /\ UNCHANGED <<kvsAt, pem, hasUrl, inTime, turns, signalVars, storeFailed>>

SetsGlobal ==
    /\ identitySet < 5
    /\ LET f == IdentityOrder[identitySet + 1] IN
         config' = [config EXCEPT ![f] =
             IF f \in {"endpoint", "alias"} /\ ~hasUrl THEN "empty" ELSE "identity"]
    /\ identitySet' = identitySet + 1
    /\ UNCHANGED <<kvsAt, pem, hasUrl, configBit, inTime, turns, signalVars, storeFailed>>

SetsBit ==
    /\ identitySet = 5 /\ ~configBit
    /\ configBit' = TRUE
    /\ UNCHANGED <<kvsAt, config, pem, hasUrl, identitySet, inTime, turns, signalVars, storeFailed>>

-----------------------------------------------------------------------------
(* The KVS task. *)

\* The bit, or sixty seconds
EndsWait ==
    /\ kvsAt = "waitIdentity"
    /\ inTime' = configBit
    /\ kvsAt' = "waitMqtt"
    /\ UNCHANGED <<config, pem, identityVars, turns, signalVars, storeFailed>>

\* MQTT is connected, or two minutes have passed; or the delay before a retry is over
BeginsTurn ==
    /\ kvsAt \in {"waitMqtt", "delay"} /\ turns < MaxTurns
    /\ turns' = turns + 1
    /\ kvsAt' = "check"
    /\ UNCHANGED <<config, pem, identityVars, inTime, signalVars, storeFailed>>

\* The first characters of region, channel and alias.  What a freed buffer begins with is
\* anything.
FindsConfig ==
    /\ kvsAt = "check"
    /\ \A f \in {"region", "channel", "alias"} : ~Empty(f)
    /\ kvsAt' = "loadPem"
    /\ UNCHANGED <<config, pem, identityVars, inTime, turns, signalVars, storeFailed>>

\* prvLoadConfigFromKVStore frees what an earlier turn has loaded
FindsNoConfig ==
    /\ kvsAt = "check"
    /\ \E f \in {"region", "channel", "alias"} : Empty(f) \/ config[f] = "freed"
    /\ config' = FreedConfig /\ pem' = FreedPem
    /\ kvsAt' = "loadStore"
    /\ UNCHANGED <<identityVars, inTime, turns, signalVars, storeFailed>>

\* (mutant) the buffers are freed after the globals have been set
LoadsStoreAndFrees ==
    /\ kvsAt = "loadStore"
    /\ config' = [f \in Fields |-> "freed"]
    /\ pem' = "empty"
    /\ kvsAt' = "loadPem"
    /\ storeFailed' = FALSE
    /\ UNCHANGED <<identityVars, inTime, turns, signalVars>>

\* All globals are set, the optional ones to an empty string when the store has none
LoadsStore ==
    /\ kvsAt = "loadStore"
    /\ \E lacking \in SUBSET {"endpoint", "thing"} :
         config' = [f \in Fields |-> IF f \in lacking THEN "empty" ELSE "store"]
    /\ pem' \in {"store", "empty"}
    /\ kvsAt' = "loadPem"
    /\ storeFailed' = FALSE
    /\ UNCHANGED <<identityVars, inTime, turns, signalVars>>

\* Region, channel or alias is not set in the store: thirty seconds
LacksStore ==
    /\ kvsAt = "loadStore"
    /\ kvsAt' = "delay"
    /\ storeFailed' = (storeFailed \/ \E f \in Fields : config[f] = "freed")
    /\ UNCHANGED <<config, pem, identityVars, inTime, turns, signalVars>>

\* (mutant) a certificate that was loaded once is not loaded again
LoadsPemOnce ==
    /\ kvsAt = "loadPem"
    /\ pem' = IF pem = "empty" THEN "loaded" ELSE pem
    /\ kvsAt' = "start"
    /\ UNCHANGED <<config, identityVars, inTime, turns, signalVars, storeFailed>>

\* prvLoadCertAndKeyPem
LoadsPem ==
    /\ kvsAt = "loadPem"
    /\ pem' = "loaded"
    /\ kvsAt' = "start"
    /\ UNCHANGED <<config, identityVars, inTime, turns, signalVars, storeFailed>>

\* It has freed its own buffers of the last turn when it fails
LacksPem ==
    /\ kvsAt = "loadPem"
    /\ pem' = IF pem = "loaded" THEN "freed" ELSE pem
    /\ kvsAt' = "delay"
    /\ UNCHANGED <<config, identityVars, inTime, turns, signalVars, storeFailed>>

\* AppMediaSource_Init or AppCommon_Init fails: to "retry"
StartFails ==
    /\ kvsAt = "start"
    /\ config' = FreedConfig /\ pem' = FreedPem
    /\ kvsAt' = "delay"
    /\ storeFailed' = (storeFailed \/ \E f \in Fields : config[f] = "store")
    /\ UNCHANGED <<identityVars, inTime, turns, signalVars>>

\* AppCommon_StartSignalingController creates the signaling task
StartsSignaling ==
    /\ kvsAt = "start"
    /\ kvsAt' = "signaling" /\ signaling' = TRUE
    /\ UNCHANGED <<config, pem, identityVars, inTime, turns, reads, used, storeFailed>>

\* The signaling task is connected, or could not be created: either way
\* AppCommon_WaitSignalingControllerStop deletes the task that calls it
KvsTaskGoes ==
    /\ \/ kvsAt = "start"
       \/ kvsAt = "signaling" /\ reads = 5
    /\ kvsAt' = "gone"
    /\ UNCHANGED <<config, pem, identityVars, inTime, turns, signalVars, storeFailed>>

-----------------------------------------------------------------------------
(* The signaling task. *)

ReadsGlobal ==
    /\ signaling /\ reads < 5
    /\ LET f == ReadOrder[reads + 1] IN used' = [used EXCEPT ![f] = config[f]]
    /\ reads' = reads + 1
    /\ UNCHANGED <<kvsAt, config, pem, identityVars, inTime, turns, signaling, storeFailed>>

-----------------------------------------------------------------------------

KvsNext ==
    \/ SetsGlobal \/ SetsBit
    \/ EndsWait \/ BeginsTurn \/ FindsConfig \/ FindsNoConfig
    \/ LoadsStore \/ LacksStore \/ LoadsPem \/ LacksPem
    \/ StartFails \/ StartsSignaling \/ KvsTaskGoes
    \/ ReadsGlobal

KvsSpec == KvsInit /\ [][KvsNext]_kvsVars

-----------------------------------------------------------------------------
(* Properties. *)

Sources == {"empty", "identity", "store", "freed"}

KvsTypeOK ==
    /\ kvsAt \in {"waitIdentity", "waitMqtt", "check", "loadStore", "loadPem", "start",
                 "signaling", "delay", "gone"}
    /\ config \in [Fields -> Sources]
    /\ used \in [Fields -> Sources]
    /\ pem \in {"empty", "store", "loaded", "freed"}
    /\ {hasUrl, configBit, inTime, signaling, storeFailed} \subseteq BOOLEAN
    /\ identitySet \in 0..5
    /\ turns \in 0..MaxTurns
    /\ reads \in 0..5

\* An identity that comes in time, with its URL, is the configuration signaling runs with,
\* whole, whatever fails and is tried again in between ("the runtime config globals
\* (pcKvsAwsRegion etc.) are already populated - no KVStore read needed").
IdentityInTimeIsUsed ==
    inTime /\ hasUrl =>
        /\ \A f \in Fields : used[f] \in {"empty", "identity"}
        /\ reads = 5 => \A f \in Fields : used[f] = "identity"

\* Signaling never starts with a certificate or key whose buffer has been freed, although
\* each failure frees them.
SignalsWithLivePem == signaling => pem = "loaded"

\* A pointer into freed memory reaches signaling only in a turn after one that failed with
\* a configuration from the store.  (There it does: the globals are not reset.)
FreedOnlyAfterFailure == (\E f \in Fields : used[f] = "freed") => storeFailed

=============================================================================
