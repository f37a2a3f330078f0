------------------------------- MODULE KvStore -------------------------------
(***************************************************************************)
(* The settings of the firmware: a cache entry in RAM for each key, and a  *)
(* littlefs file for each key that has been committed.  A setter stages a  *)
(* value in the cache; KVStore_xCommitChanges writes the staged entries to *)
(* their files, one key after the other, while other tasks go on setting;  *)
(* power may fail at any step; KVStore_init reloads the cache from the     *)
(* files at the next boot.                                                 *)
(*                                                                         *)
(* Sources: Appli/Common/kvstore/{kvstore,kvstore_cache,                   *)
(* kvstore_nv_littlefs}.c.                                                 *)
(*                                                                         *)
(* Data left out: a value is its length and one datum.  A key has a single *)
(* type (the setters refuse any other), so the type tells only whether the *)
(* entry is set.  Reads change nothing and are left out, with the defaults.*)
(* A setter is one step: a setter that is preempted half-way by a commit   *)
(* only adds the outcome Torn for a key that counts as changed anyway.     *)
(***************************************************************************)
EXTENDS Naturals

CONSTANTS
    NumKeys,     \* CS_NUM_KEYS
    Lengths,     \* lengths of the values that are set
    Data,        \* contents that are set
    Torn,        \* contents nobody has set
    Word,        \* sizeof( void * )
    MaxLength,   \* KVSTORE_VAL_MAX_LEN
    Setters,     \* tasks that set values
    Committers,  \* tasks that commit
    Empty,       \* a file of length zero
    NULL

Contents == [len : Lengths, data : Data \cup {Torn}]

ASSUME ConstantsAssumption ==
    /\ NumKeys \in Nat \ {0}
    /\ Lengths \subseteq Nat \ {0}
    /\ Word \in Nat \ {0}
    /\ MaxLength \in Nat
    /\ Torn \notin Data
    /\ Empty # NULL
    /\ Empty \notin Contents
    /\ NULL \notin Contents

VARIABLES
    value,      \* kvStoreCache[].{type, length, data}: NULL while KV_TYPE_NONE
    capacity,   \* size of the heap block pvData points to, 0 when it points to none
    pending,    \* kvStoreCache[].xChangePending
    file,       \* what littlefs holds of each key's file when power fails
    pc,         \* where each task is in KVStore_xCommitChanges
    at,         \* the key a commit has come to
    ok,         \* its xSuccess
    length,     \* the length it has passed to xprvWriteValueToImpl
    stale,      \* the pointer it has passed is no longer the data of the entry
    buffer,     \* what it has written to the open file
    touched,    \* (history) keys set since it began
    lost        \* (history) keys whose sync has failed since it began

cacheVars   == <<value, capacity, pending>>
writeVars   == <<length, stale, buffer>>
historyVars == <<touched, lost>>
vars == <<value, capacity, pending, file, pc, at, ok, length, stale, buffer, touched, lost>>

-----------------------------------------------------------------------------

Keys == 1..NumKeys

LengthOf(v) == IF v = NULL THEN 0 ELSE v.len

\* Values longer than a pointer live in a heap block, the others in the union itself
OnHeap(v) == LengthOf(v) > Word

\* (mutant) a value that is one longer still goes into the old block
CapacityOffByOne(k, v) ==
    IF ~OnHeap(v) THEN 0
    ELSE IF v.len > LengthOf(value[k]) + 1 \/ ~OnHeap(value[k]) THEN v.len ELSE capacity[k]

\* vAllocateDataBuffer and vReallocDataBuffer: a new block for an entry that was not
\* set or that grows; a smaller value stays in the block it finds, or goes to the
\* union and overwrites the pointer to the block
CapacityAfter(k, v) ==
    IF ~OnHeap(v) THEN 0
    ELSE IF v.len > LengthOf(value[k]) THEN v.len ELSE capacity[k]

\* The data a pointer taken before the change refers to have been freed, or moved
\* between the union and the heap
Moves(k, v) == v.len > LengthOf(value[k]) \/ OnHeap(v) # OnHeap(value[k])

\* xprvWriteCacheEntry
Set(k, v) ==
    /\ value' = [value EXCEPT ![k] = v]
    /\ capacity' = [capacity EXCEPT ![k] = CapacityAfter(k, v)]
    /\ pending' = [pending EXCEPT ![k] = @ \/ v # value[k]]
    /\ stale' = [t \in Committers |->
                   stale[t] \/ (pc[t] = "write" /\ at[t] = k /\ Moves(k, v))]
    /\ touched' = [t \in Committers |->
                     IF pc[t] = "idle" THEN touched[t] ELSE touched[t] \cup {k}]
    /\ UNCHANGED <<file, pc, at, ok, length, buffer, lost>>

\* A task that is in the middle of its own commit does not set
Stage(t, k, v) ==
    /\ t \in Committers => pc[t] = "idle"
    /\ Set(k, v)

-----------------------------------------------------------------------------
(* KVStore_xCommitChanges *)

Begin(t) ==
    /\ pc[t] = "idle"
    /\ pc' = [pc EXCEPT ![t] = "scan"]
    /\ UNCHANGED <<cacheVars, file, at, ok, writeVars, historyVars>>

\* On to the next key, with what the last one adds to xSuccess
Proceed(t, success) ==
    /\ ok' = [ok EXCEPT ![t] = @ /\ success]
    /\ at' = [at EXCEPT ![t] = @ + 1]
    /\ pc' = [pc EXCEPT ![t] = "scan"]

Skip(t) ==
    /\ pc[t] = "scan"
    /\ at[t] \in Keys
    /\ ~pending[at[t]]
    /\ Proceed(t, TRUE)
    /\ UNCHANGED <<cacheVars, file, writeVars, historyVars>>

\* The loop has come to a changed entry
Changed(t) == pc[t] = "scan" /\ at[t] \in Keys /\ pending[at[t]]

TooLong(v) == LengthOf(v) >= MaxLength

\* (mutant) the result of a refused value is lost
RefuseQuietly(t) ==
    /\ Changed(t)
    /\ TooLong(value[at[t]])
    /\ Proceed(t, TRUE)
    /\ UNCHANGED <<cacheVars, file, writeVars, historyVars>>

\* xprvWriteValueToImpl refuses a value that is too long, and leaves the old file
Refuse(t) ==
    /\ Changed(t)
    /\ TooLong(value[at[t]])
    /\ Proceed(t, FALSE)
    /\ UNCHANGED <<cacheVars, file, writeVars, historyVars>>

\* (mutant) the file is empty as soon as it is opened
OpenTruncates(t) ==
    /\ Changed(t)
    /\ ~TooLong(value[at[t]])
    /\ length' = [length EXCEPT ![t] = LengthOf(value[at[t]])]
    /\ file' = [file EXCEPT ![at[t]] = Empty]
    /\ pc' = [pc EXCEPT ![t] = "write"]
    /\ UNCHANGED <<cacheVars, at, ok, stale, buffer, historyVars>>

\* lfs_file_open with LFS_O_TRUNC and LFS_O_CREAT: the truncation is not durable
\* before the sync, the creation of a file is
Open(t) ==
    /\ Changed(t)
    /\ ~TooLong(value[at[t]])
    /\ length' = [length EXCEPT ![t] = LengthOf(value[at[t]])]
    /\ file' = [file EXCEPT ![at[t]] = IF @ = NULL THEN Empty ELSE @]
    /\ pc' = [pc EXCEPT ![t] = "write"]
    /\ UNCHANGED <<cacheVars, at, ok, stale, buffer, historyVars>>

OpenFails(t) ==
    /\ Changed(t)
    /\ ~TooLong(value[at[t]])
    /\ Proceed(t, FALSE)
    /\ UNCHANGED <<cacheVars, file, writeVars, historyVars>>

\* Header and data, through the length and the pointer passed to the function
Write(t) ==
    /\ pc[t] = "write"
    /\ buffer' = [buffer EXCEPT ![t] =
                    IF ~stale[t] /\ length[t] = LengthOf(value[at[t]])
                       THEN value[at[t]] ELSE [len |-> length[t], data |-> Torn]]
    /\ length' = [length EXCEPT ![t] = 0]
    /\ stale' = [stale EXCEPT ![t] = FALSE]
    /\ pc' = [pc EXCEPT ![t] = "sync"]
    /\ UNCHANGED <<cacheVars, file, at, ok, historyVars>>

\* lfs_file_write fails: the file is removed with its old value, or lfs_remove fails
\* as well
WriteFails(t) ==
    /\ pc[t] = "write"
    /\ \/ file' = [file EXCEPT ![at[t]] = NULL]
       \/ UNCHANGED file
    /\ Proceed(t, FALSE)
    /\ length' = [length EXCEPT ![t] = 0]
    /\ stale' = [stale EXCEPT ![t] = FALSE]
    /\ UNCHANGED <<cacheVars, buffer, historyVars>>

\* (mutant) the change counts as done once it is written
SyncClearsPending(t) ==
    /\ pc[t] = "sync"
    /\ file' = [file EXCEPT ![at[t]] = buffer[t]]
    /\ pending' = [pending EXCEPT ![at[t]] = FALSE]
    /\ buffer' = [buffer EXCEPT ![t] = NULL]
    /\ Proceed(t, TRUE)
    /\ UNCHANGED <<value, capacity, length, stale, historyVars>>

\* lfs_file_sync and lfs_file_close: the file changes in one step.  xChangePending
\* is not cleared, here or anywhere else: the key is written by every later commit.
Sync(t) ==
    /\ pc[t] = "sync"
    /\ file' = [file EXCEPT ![at[t]] = buffer[t]]
    /\ buffer' = [buffer EXCEPT ![t] = NULL]
    /\ Proceed(t, TRUE)
    /\ UNCHANGED <<cacheVars, length, stale, historyVars>>

\* lfs_file_sync fails, which leaves the old file; its result is not looked at
SyncFails(t) ==
    /\ pc[t] = "sync"
    /\ lost' = [lost EXCEPT ![t] = @ \cup {at[t]}]
    /\ buffer' = [buffer EXCEPT ![t] = NULL]
    /\ Proceed(t, TRUE)
    /\ UNCHANGED <<cacheVars, file, length, stale, touched>>

\* The function returns, and its locals are gone
End(t) ==
    /\ pc[t] = "scan"
    /\ at[t] \notin Keys
    /\ pc' = [pc EXCEPT ![t] = "idle"]
    /\ at' = [at EXCEPT ![t] = 1]
    /\ ok' = [ok EXCEPT ![t] = TRUE]
    /\ touched' = [touched EXCEPT ![t] = {}]
    /\ lost' = [lost EXCEPT ![t] = {}]
    /\ UNCHANGED <<cacheVars, file, writeVars>>

-----------------------------------------------------------------------------
(* Power failure, and vprvCacheInit *)

\* (mutant) an empty file loads as a value of length zero
LoadedUnchecked(k) == IF file[k] = Empty THEN [len |-> 0, data |-> Torn] ELSE file[k]

\* xprvGetValueLengthFromImpl: the length of an empty file, less that of the header,
\* wraps round to a huge one, for which the file is deleted
Loaded(k) == IF file[k] = Empty THEN NULL ELSE file[k]

\* A file that cannot be looked at or read stays as it is, an empty one included, and its
\* entry counts as not set: the result of xprvReadValueFromImpl is not looked at
PowerCycle ==
    /\ \E unread \in SUBSET Keys :
         /\ file' = [k \in Keys |-> IF k \in unread THEN file[k] ELSE Loaded(k)]
         /\ value' = [k \in Keys |-> IF k \in unread THEN NULL ELSE Loaded(k)]
    /\ capacity' = [k \in Keys |-> IF OnHeap(value'[k]) THEN LengthOf(value'[k]) ELSE 0]
    /\ pending' = [k \in Keys |-> FALSE]
    /\ pc' = [t \in Committers |-> "idle"]
    /\ at' = [t \in Committers |-> 1]
    /\ ok' = [t \in Committers |-> TRUE]
    /\ length' = [t \in Committers |-> 0]
    /\ stale' = [t \in Committers |-> FALSE]
    /\ buffer' = [t \in Committers |-> NULL]
    /\ touched' = [t \in Committers |-> {}]
    /\ lost' = [t \in Committers |-> {}]

-----------------------------------------------------------------------------

\* A device with an empty file system
Init ==
    /\ value = [k \in Keys |-> NULL]
    /\ capacity = [k \in Keys |-> 0]
    /\ pending = [k \in Keys |-> FALSE]
    /\ file = [k \in Keys |-> NULL]
    /\ pc = [t \in Committers |-> "idle"]
    /\ at = [t \in Committers |-> 1]
    /\ ok = [t \in Committers |-> TRUE]
    /\ length = [t \in Committers |-> 0]
    /\ stale = [t \in Committers |-> FALSE]
    /\ buffer = [t \in Committers |-> NULL]
    /\ touched = [t \in Committers |-> {}]
    /\ lost = [t \in Committers |-> {}]

Commit(t) ==
    \/ Begin(t) \/ Skip(t) \/ Refuse(t) \/ Open(t) \/ OpenFails(t)
    \/ Write(t) \/ WriteFails(t) \/ Sync(t) \/ SyncFails(t) \/ End(t)

Next ==
    \/ \E t \in Setters, k \in Keys, v \in [len : Lengths, data : Data] : Stage(t, k, v)
    \/ \E t \in Committers : Commit(t)
    \/ PowerCycle

Spec == Init /\ [][Next]_vars

-----------------------------------------------------------------------------
(* Properties *)

\* Types; a commit never passes the end of the table.
TypeOK ==
    /\ value \in [Keys -> Contents \cup {NULL}]
    /\ capacity \in [Keys -> Nat]
    /\ pending \in [Keys -> BOOLEAN]
    /\ file \in [Keys -> Contents \cup {NULL, Empty}]
    /\ pc \in [Committers -> {"idle", "scan", "write", "sync"}]
    /\ at \in [Committers -> 1..(NumKeys + 1)]
    /\ ok \in [Committers -> BOOLEAN]
    /\ length \in [Committers -> Nat]
    /\ stale \in [Committers -> BOOLEAN]
    /\ buffer \in [Committers -> Contents \cup {NULL}]
    /\ touched \in [Committers -> SUBSET Keys]
    /\ lost \in [Committers -> SUBSET Keys]
    /\ \A t \in Committers : pc[t] \in {"write", "sync"} => at[t] \in Keys

\* However a value grows and shrinks between the union and the heap, and whatever
\* the file it was loaded from, the block of an entry is as long as its value:
\* memcpy never writes past it, although only the last length is remembered.
BufferFits == \A k \in Keys : OnHeap(value[k]) => capacity[k] >= LengthOf(value[k])

\* The entry is not set, or its value is in its file
Saved(k) == value[k] \in {NULL, file[k]}

\* An entry that is set and differs from its file is marked as changed, through values set
\* while a commit is writing, failed and refused writes, power failures and files that
\* cannot be read after them: no later commit passes over it.
PendingCoversDifference == \A k \in Keys : Saved(k) \/ pending[k]

\* KVStore_xCommitChanges is about to return success
AboutToReport(t) == pc[t] = "scan" /\ at[t] \notin Keys /\ ok[t]

\* When KVStore_xCommitChanges reports success, every key that nobody has set during
\* the call, and whose sync did not fail, has its value in its file: refused and
\* failed writes are all reported, and no old value is left behind.
SavedUnlessSyncFails ==
    \A t \in Committers :
        AboutToReport(t) =>
            \A k \in Keys \ (touched[t] \cup lost[t]) : Saved(k)

\* "Configuration saved to NVM.": what the command prints when KVStore_xCommitChanges
\* reports success holds of every key that nobody has set during the call.
SavedMeansSaved ==
    \A t \in Committers :
        AboutToReport(t) => \A k \in Keys \ touched[t] : Saved(k)

Durable == INSTANCE DurableSettings WITH
    Settings <- [len : Lengths, data : Data],
    Broken   <- [len : Lengths, data : {Torn}],
    Savers   <- Committers,
    current  <- value,
    durable  <- file,
    saving   <- {t \in Committers : pc[t] # "idle"},
    found    <- [t \in Committers |-> IF buffer[t] = NULL THEN {} ELSE {<<at[t], buffer[t]>>}]

\* Whatever is set, freed or moved under a commit, and wherever it fails or power does, the
\* file of a key holds a setting that KVStore_xCommitChanges found in the cache, the last one
\* that was synced, and half of one only if the key was set during that commit; after a power
\* failure the cache has it again, or nothing.
ImplementsDurable == Durable!Spec

=============================================================================
