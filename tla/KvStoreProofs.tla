---------------------------- MODULE KvStoreProofs ----------------------------
(***************************************************************************)
(* What holds of the key-value store for any table of keys, any values and *)
(* any tasks, and, where a single task commits at a time, what a reported  *)
(* success means.                                                          *)
(***************************************************************************)
EXTENDS KvStore, TLAPS

\* What a file loads as, and what a value's length is
LEMMA ContentsFacts ==
    /\ NULL \notin Contents
    /\ Empty \notin Contents
    /\ Empty # NULL
    /\ LengthOf(NULL) = 0
    /\ \A v \in Contents : LengthOf(v) = v.len /\ v.len \in Lengths
    /\ \A v \in Contents : v.len \in Nat /\ v.len > 0
    /\ \A v \in Contents \cup {NULL} : LengthOf(v) \in Nat
<1>1. /\ NULL \notin Contents
      /\ Empty \notin Contents
      /\ Empty # NULL
  BY ConstantsAssumption
<1>2. LengthOf(NULL) = 0
  BY DEF LengthOf
<1>3. \A v \in Contents : v.len \in Lengths
  BY DEF Contents
<1>4. \A n \in Lengths : n \in Nat /\ n > 0
  BY ConstantsAssumption
<1>5. \A v \in Contents : LengthOf(v) = v.len
  BY <1>1 DEF LengthOf
<1> QED
  BY <1>1, <1>2, <1>3, <1>4, <1>5

LEMMA KeysFacts ==
    /\ NumKeys \in Nat
    /\ 1 \in Keys
    /\ \A k \in Keys : k \in Nat /\ k + 1 \in 1..(NumKeys + 1)
    /\ 1 \in 1..(NumKeys + 1)
    /\ Keys \subseteq 1..(NumKeys + 1)
  BY ConstantsAssumption DEF Keys

-----------------------------------------------------------------------------
(* Types *)

\* A commit that is writing holds the length of a value that was set, for only an
\* entry that is set can be marked as changed.
TypeInv ==
    /\ TypeOK
    /\ \A t \in Committers : pc[t] = "write" => length[t] \in Lengths
    /\ \A k \in Keys : pending[k] => value[k] # NULL

LEMMA InitTypes == Init => TypeInv
  BY KeysFacts DEF Init, TypeInv, TypeOK

LEMMA SetTypes ==
    ASSUME TypeInv, NEW k \in Keys, NEW v \in [len : Lengths, data : Data], Set(k, v)
    PROVE  TypeInv'
<1>1. v \in Contents /\ v.len \in Nat
  BY ConstantsAssumption DEF Contents
<1>2. v # NULL
  BY <1>1, ContentsFacts
<1>3. CapacityAfter(k, v) \in Nat
  BY <1>1 DEF CapacityAfter, TypeInv, TypeOK
<1>4. TypeOK'
  <2>1. /\ value' \in [Keys -> Contents \cup {NULL}]
        /\ capacity' \in [Keys -> Nat]
        /\ pending' \in [Keys -> BOOLEAN]
    BY <1>1, <1>3 DEF Set, TypeInv, TypeOK
  <2>2. /\ stale' \in [Committers -> BOOLEAN]
        /\ touched' \in [Committers -> SUBSET Keys]
    BY DEF Set, TypeInv, TypeOK
  <2> QED
    BY <2>1, <2>2 DEF Set, TypeInv, TypeOK
<1>5. \A j \in Keys : pending'[j] => value'[j] # NULL
  BY <1>2 DEF Set, TypeInv, TypeOK
<1> QED
  BY <1>4, <1>5 DEF Set, TypeInv

\* What going on to the next key does to the types
LEMMA ProceedTypes ==
    ASSUME TypeOK, NEW t \in Committers, at[t] \in Keys, NEW success \in BOOLEAN,
           Proceed(t, success)
    PROVE  /\ at' \in [Committers -> 1..(NumKeys + 1)]
           /\ ok' \in [Committers -> BOOLEAN]
           /\ pc' \in [Committers -> {"idle", "scan", "write", "sync"}]
           /\ \A u \in Committers :
                pc'[u] \in {"write", "sync"} => at'[u] \in Keys /\ u # t /\ pc'[u] = pc[u]
<1>1. at[t] + 1 \in 1..(NumKeys + 1)
  BY KeysFacts
<1> QED
  BY <1>1 DEF TypeOK, Proceed

LEMMA CommitTypes ==
    ASSUME TypeInv, NEW t \in Committers, Commit(t)
    PROVE  TypeInv'
<1>1. CASE Begin(t)
  BY <1>1, KeysFacts DEF Begin, TypeInv, TypeOK, cacheVars, writeVars, historyVars
<1>2. CASE Skip(t) \/ Refuse(t) \/ OpenFails(t)
  <2>1. /\ at[t] \in Keys
        /\ Proceed(t, TRUE) \/ Proceed(t, FALSE)
        /\ UNCHANGED <<cacheVars, file, writeVars, historyVars>>
    BY <1>2 DEF Skip, Refuse, OpenFails, Changed
  <2> QED
    BY <2>1, ProceedTypes DEF TypeInv, TypeOK, cacheVars, writeVars, historyVars
<1>3. CASE Open(t)
  <2>1. at[t] \in Keys /\ value[at[t]] # NULL /\ value[at[t]] \in Contents
    BY <1>3 DEF Open, Changed, TypeInv, TypeOK
  <2>2. LengthOf(value[at[t]]) \in Lengths /\ LengthOf(value[at[t]]) \in Nat
    BY <2>1, ContentsFacts, ConstantsAssumption
  <2>3. file' \in [Keys -> Contents \cup {NULL, Empty}]
    BY <1>3, <2>1 DEF Open, TypeInv, TypeOK
  <2> QED
    BY <1>3, <2>1, <2>2, <2>3
       DEF Open, TypeInv, TypeOK, cacheVars, historyVars
<1>4. CASE Write(t)
  <2>1. at[t] \in Keys /\ length[t] \in Lengths
    BY <1>4 DEF Write, TypeInv, TypeOK
  <2>2. [len |-> length[t], data |-> Torn] \in Contents
    BY <2>1 DEF Contents
  <2>3. buffer' \in [Committers -> Contents \cup {NULL}]
    BY <1>4, <2>1, <2>2 DEF Write, TypeInv, TypeOK
  <2> QED
    BY <1>4, <2>1, <2>3 DEF Write, TypeInv, TypeOK, cacheVars, historyVars
<1>5. CASE WriteFails(t)
  <2>1. at[t] \in Keys
    BY <1>5 DEF WriteFails, TypeInv, TypeOK
  <2>2. file' \in [Keys -> Contents \cup {NULL, Empty}]
    BY <1>5 DEF WriteFails, TypeInv, TypeOK
  <2>3. /\ length' \in [Committers -> Nat]
        /\ stale' \in [Committers -> BOOLEAN]
        /\ \A u \in Committers : u # t => length'[u] = length[u]
    BY <1>5 DEF WriteFails, TypeInv, TypeOK
  <2>4. Proceed(t, FALSE) /\ UNCHANGED <<value, capacity, pending, buffer, touched, lost>>
    BY <1>5 DEF WriteFails, cacheVars, historyVars
  <2> QED
    BY <2>1, <2>2, <2>3, <2>4, ProceedTypes DEF TypeInv, TypeOK
<1>6. CASE Sync(t) \/ SyncFails(t)
  <2>1. at[t] \in Keys
    BY <1>6 DEF Sync, SyncFails, TypeInv, TypeOK
  <2>2. file' \in [Keys -> Contents \cup {NULL, Empty}]
    <3>1. CASE Sync(t)
      BY <3>1, <2>1 DEF Sync, TypeInv, TypeOK
    <3>2. CASE SyncFails(t)
      BY <3>2 DEF SyncFails, TypeInv, TypeOK
    <3> QED
      BY <1>6, <3>1, <3>2
  <2>4. buffer' \in [Committers -> Contents \cup {NULL}]
    BY <1>6 DEF Sync, SyncFails, TypeInv, TypeOK
  <2>5. lost' \in [Committers -> SUBSET Keys]
    <3>1. CASE Sync(t)
      BY <3>1 DEF Sync, TypeInv, TypeOK, historyVars
    <3>2. CASE SyncFails(t)
      BY <3>2, <2>1 DEF SyncFails, TypeInv, TypeOK
    <3> QED
      BY <1>6, <3>1, <3>2
  <2>3. Proceed(t, TRUE) /\ UNCHANGED <<value, capacity, pending, length, stale, touched>>
    BY <1>6 DEF Sync, SyncFails, cacheVars, historyVars
  <2> QED
    BY <2>1, <2>2, <2>3, <2>4, <2>5, ProceedTypes DEF TypeInv, TypeOK
<1>7. CASE End(t)
  BY <1>7, KeysFacts DEF End, TypeInv, TypeOK, cacheVars, writeVars
<1> QED
  BY <1>1, <1>2, <1>3, <1>4, <1>5, <1>6, <1>7 DEF Commit

\* What is loaded at boot is a value or nothing
LEMMA LoadedType ==
    ASSUME TypeOK, NEW k \in Keys
    PROVE  Loaded(k) \in Contents \cup {NULL}
  BY DEF TypeOK, Loaded

LEMMA PowerCycleTypes == TypeInv /\ PowerCycle => TypeInv'
<1> SUFFICES ASSUME TypeInv, PowerCycle PROVE TypeInv'
  OBVIOUS
<1>1. \A k \in Keys : Loaded(k) \in Contents \cup {NULL} /\ LengthOf(Loaded(k)) \in Nat
  BY LoadedType, ContentsFacts DEF TypeInv
<1>2. /\ value' \in [Keys -> Contents \cup {NULL}]
      /\ file' \in [Keys -> Contents \cup {NULL, Empty}]
  BY <1>1 DEF PowerCycle, TypeInv, TypeOK
<1>3. \A k \in Keys : LengthOf(value'[k]) \in Nat
  BY <1>2, ContentsFacts
<1>4. /\ capacity' \in [Keys -> Nat]
      /\ pending' = [k \in Keys |-> FALSE]
  BY <1>3 DEF PowerCycle
<1> QED
  BY <1>2, <1>4, KeysFacts DEF PowerCycle, TypeInv, TypeOK

LEMMA NextTypes == TypeInv /\ [Next]_vars => TypeInv'
<1> SUFFICES ASSUME TypeInv, [Next]_vars PROVE TypeInv'
  OBVIOUS
<1>1. ASSUME NEW t \in Setters, NEW k \in Keys, NEW v \in [len : Lengths, data : Data],
             Stage(t, k, v)
      PROVE  TypeInv'
  BY <1>1, SetTypes DEF Stage
<1>2. CASE UNCHANGED vars
  BY <1>2 DEF vars, TypeInv, TypeOK
<1> QED
  BY <1>1, <1>2, CommitTypes, PowerCycleTypes DEF Next

\* The cache, the files and the locals of every commit keep their types; a commit
\* never passes the end of the table.
THEOREM TypeCorrect == Spec => []TypeOK
<1>1. Spec => []TypeInv
  BY InitTypes, NextTypes, PTL DEF Spec
<1>2. TypeInv => TypeOK
  BY DEF TypeInv
<1> QED
  BY <1>1, <1>2, PTL

-----------------------------------------------------------------------------
(* The heap blocks *)

LEMMA SetFits ==
    ASSUME TypeInv, BufferFits,
           NEW k \in Keys, NEW v \in [len : Lengths, data : Data], Set(k, v)
    PROVE  BufferFits'
<1>1. v \in Contents /\ LengthOf(v) = v.len /\ v.len \in Nat
  BY ContentsFacts DEF Contents
<1>2. LengthOf(value[k]) \in Nat /\ capacity[k] \in Nat
  BY ContentsFacts DEF TypeInv, TypeOK
<1>3. OnHeap(v) => CapacityAfter(k, v) >= LengthOf(v)
  BY <1>1, <1>2, ConstantsAssumption DEF CapacityAfter, BufferFits, OnHeap
<1>4. value'[k] = v /\ capacity'[k] = CapacityAfter(k, v)
  BY DEF Set, TypeInv, TypeOK
<1>5. \A j \in Keys \ {k} : value'[j] = value[j] /\ capacity'[j] = capacity[j]
  BY DEF Set, TypeInv, TypeOK
<1>6. ASSUME NEW j \in Keys, OnHeap(value'[j]) PROVE capacity'[j] >= LengthOf(value'[j])
  BY <1>3, <1>4, <1>5, <1>6 DEF BufferFits
<1> QED
  BY <1>6 DEF BufferFits, OnHeap, LengthOf

LEMMA PowerCycleFits == TypeInv /\ PowerCycle => BufferFits'
<1> SUFFICES ASSUME TypeInv, PowerCycle PROVE BufferFits'
  OBVIOUS
<1>1. \A k \in Keys : value'[k] \in Contents \cup {NULL}
  BY LoadedType DEF PowerCycle, TypeInv
<1>2. \A k \in Keys : LengthOf(value'[k]) \in Nat
  BY <1>1, ContentsFacts
<1>3. ASSUME NEW k \in Keys, OnHeap(value'[k]) PROVE capacity'[k] >= LengthOf(value'[k])
  <2>1. capacity'[k] = LengthOf(value'[k])
    BY <1>3 DEF PowerCycle
  <2>2. QED
    BY <1>2, <2>1
<1> QED
  BY <1>3 DEF BufferFits, OnHeap, LengthOf

\* However a value grows and shrinks between the union and the heap, its block is as
\* long as it is.
THEOREM BlocksAreLongEnough == Spec => []BufferFits
<1>1. Init => BufferFits
  BY ContentsFacts, ConstantsAssumption DEF Init, BufferFits, OnHeap
<1>2. TypeInv /\ BufferFits /\ [Next]_vars => BufferFits'
  <2> SUFFICES ASSUME TypeInv, BufferFits, [Next]_vars PROVE BufferFits'
    OBVIOUS
  <2>1. ASSUME NEW t \in Setters, NEW k \in Keys,
               NEW v \in [len : Lengths, data : Data], Stage(t, k, v)
        PROVE  BufferFits'
    BY <2>1, SetFits DEF Stage
  <2>2. ASSUME NEW t \in Committers, Commit(t) PROVE UNCHANGED <<value, capacity>>
    BY <2>2 DEF Commit, Begin, Skip, Refuse, Open, OpenFails, Write, WriteFails, Sync,
                SyncFails, End, cacheVars
  <2>3. UNCHANGED <<value, capacity>> => BufferFits'
    BY DEF BufferFits, OnHeap, LengthOf
  <2> QED
    BY <2>1, <2>2, <2>3, PowerCycleFits DEF Next, vars
<1>3. Spec => []TypeInv
  BY InitTypes, NextTypes, PTL DEF Spec
<1> QED
  BY <1>1, <1>2, <1>3, PTL DEF Spec

-----------------------------------------------------------------------------
(* Changes are marked *)

\* The entry whose file is open is marked, and only its file changes.
PendingInv ==
    /\ PendingCoversDifference
    /\ \A t \in Committers : pc[t] \in {"write", "sync"} => pending[at[t]]

LEMMA NextPending == TypeInv /\ PendingInv /\ [Next]_vars => PendingInv'
<1> SUFFICES ASSUME TypeInv, PendingInv, [Next]_vars PROVE PendingInv'
  OBVIOUS
<1>1. ASSUME NEW t \in Setters, NEW k \in Keys,
             NEW v \in [len : Lengths, data : Data], Stage(t, k, v)
      PROVE  PendingInv'
  <2>1. /\ value' = [value EXCEPT ![k] = v]
        /\ pending' = [pending EXCEPT ![k] = @ \/ v # value[k]]
        /\ UNCHANGED <<file, pc, at>>
    BY <1>1 DEF Stage, Set
  <2>2. \A j \in Keys : pending[j] => pending'[j]
    BY <2>1 DEF TypeInv, TypeOK
  <2>3. \A j \in Keys : value'[j] \in {NULL, file[j]} \/ pending'[j]
    BY <2>1 DEF TypeInv, TypeOK, PendingInv, PendingCoversDifference, Saved
  <2> QED
    BY <2>1, <2>2, <2>3 DEF TypeInv, TypeOK, PendingInv, PendingCoversDifference, Saved
<1>2. ASSUME NEW t \in Committers, Commit(t)
      PROVE  PendingInv'
  <2>1. UNCHANGED <<value, pending>>
    BY <1>2 DEF Commit, Begin, Skip, Refuse, Open, OpenFails, Write, WriteFails, Sync,
                SyncFails, End, cacheVars
  <2>2. \A k \in Keys : file'[k] = file[k] \/ pending[k]
    <3>1. CASE pending[at[t]] /\ \E w : file' = [file EXCEPT ![at[t]] = w]
      BY <3>1 DEF TypeInv, TypeOK
    <3>2. CASE UNCHANGED file
      BY <3>2
    <3> QED
      BY <1>2, <3>1, <3>2
         DEF Commit, Begin, Skip, Refuse, Open, OpenFails, Write, WriteFails, Sync,
             SyncFails, End, Changed, PendingInv
  <2>3. \A u \in Committers : pc'[u] \in {"write", "sync"} =>
            \/ pc[u] \in {"write", "sync"} /\ at'[u] = at[u]
            \/ u = t /\ at'[u] = at[u] /\ pending[at[u]]
    BY <1>2
       DEF Commit, Begin, Skip, Refuse, Open, OpenFails, Write, WriteFails, Sync,
           SyncFails, End, Changed, Proceed, TypeInv, TypeOK
  <2> QED
    BY <2>1, <2>2, <2>3 DEF PendingInv, PendingCoversDifference, Saved
<1>3. CASE PowerCycle
  BY <1>3 DEF PowerCycle, PendingInv, PendingCoversDifference, Saved
<1>4. CASE UNCHANGED vars
  BY <1>4 DEF vars, PendingInv, PendingCoversDifference, Saved
<1> QED
  BY <1>1, <1>2, <1>3, <1>4 DEF Next

\* No commit passes over an entry that differs from its file, whoever sets and
\* commits at the same time and whatever has failed before.
THEOREM ChangesAreMarked == Spec => []PendingCoversDifference
<1>1. Init => PendingInv
  BY DEF Init, PendingInv, PendingCoversDifference, Saved
<1>2. Spec => []TypeInv
  BY InitTypes, NextTypes, PTL DEF Spec
<1>3. PendingInv => PendingCoversDifference
  BY DEF PendingInv
<1> QED
  BY <1>1, <1>2, <1>3, NextPending, PTL DEF Spec

-----------------------------------------------------------------------------
(* What a success means.  Two commits at once can overwrite each other's files *)
(* with older values, so that one committing task is assumed.                  *)

OneCommitter == \A t, u \in Committers : t = u

\* The keys the report of t is about
Vouched(t) == Keys \ (touched[t] \cup lost[t])

\* Where the commit is at home, and what it has done so far: the keys it has passed
\* are saved unless it knows of a failure, and the value it has in hand is the value
\* of the key unless that has been set since.
CommitSound(t) ==
    /\ pc[t] = "idle" => at[t] = 1
    /\ pc[t] # "write" => ~stale[t]
    /\ ok[t] => \A k \in Vouched(t) : k < at[t] => Saved(k)
    /\ pc[t] = "write" /\ at[t] \notin touched[t]
         => ~stale[t] /\ length[t] = LengthOf(value[at[t]])
    /\ pc[t] = "sync" /\ at[t] \notin touched[t] => buffer[t] = value[at[t]]

SavedInv == \A t \in Committers : CommitSound(t)

LEMMA SetSound ==
    ASSUME TypeInv, SavedInv, NEW t \in Committers,
           NEW k \in Keys, NEW v \in [len : Lengths, data : Data], Set(k, v)
    PROVE  CommitSound(t)'
<1> USE DEF TypeInv, TypeOK
<1>1. UNCHANGED <<file, pc, at, ok, length, buffer, lost>>
  BY DEF Set
<1>2. \A j \in Keys \ {k} : value'[j] = value[j]
  BY DEF Set
<1>3. CommitSound(t)
  BY DEF SavedInv
<1>4. CASE pc[t] = "idle"
  <2>1. at[t] = 1
    BY <1>3, <1>4 DEF CommitSound
  <2>2. \A j \in Keys : ~(j < at[t])
    BY <2>1 DEF Keys
  <2>3. stale'[t] = stale[t]
    BY <1>4 DEF Set
  <2> QED
    BY <1>1, <1>3, <1>4, <2>1, <2>2, <2>3 DEF CommitSound, Vouched
<1>5. CASE pc[t] # "idle"
  <2>1. touched'[t] = touched[t] \cup {k}
    BY <1>5 DEF Set
  <2>2. stale'[t] = (stale[t] \/ (pc[t] = "write" /\ at[t] = k /\ Moves(k, v)))
    BY DEF Set
  <2>3. \A j \in Vouched(t)' : j \in Vouched(t) /\ j # k
    BY <1>1, <2>1 DEF Vouched
  <2>4. ok'[t] => \A j \in Vouched(t)' : j < at'[t] => value'[j] \in {NULL, file'[j]}
    BY <1>1, <1>2, <1>3, <2>3 DEF CommitSound, Vouched, Saved
  <2>5. pc[t] \in {"write", "sync"} /\ at[t] \notin touched'[t] =>
            at[t] \notin touched[t] /\ at[t] # k /\ value'[at[t]] = value[at[t]]
    BY <1>2, <2>1
  <2> QED
    BY <1>1, <1>3, <2>2, <2>4, <2>5 DEF CommitSound, LengthOf, Saved
<1> QED
  BY <1>4, <1>5

\* Passing a key whose file is what it should be, or a failure
LEMMA ProceedSound ==
    ASSUME TypeInv, NEW t \in Committers, CommitSound(t), at[t] \in Keys,
           NEW success \in BOOLEAN, Proceed(t, success),
           UNCHANGED <<value, touched>>, ~stale'[t],
           success /\ at[t] \notin touched'[t] \cup lost'[t]
               => value[at[t]] \in {NULL, file'[at[t]]},
           \A k \in Keys \ {at[t]} : file'[k] = file[k],
           lost[t] \subseteq lost'[t]
    PROVE  CommitSound(t)'
<1> USE DEF TypeInv, TypeOK
<1>1. /\ ok'[t] = (ok[t] /\ success)
      /\ at'[t] = at[t] + 1
      /\ pc'[t] = "scan"
  BY DEF Proceed
<1>2. ASSUME ok'[t], NEW k \in Vouched(t)', k < at'[t]
      PROVE  value'[k] \in {NULL, file'[k]}
  <2>1. k \in Keys /\ k \in Nat /\ at[t] \in Nat /\ k \in Vouched(t)
    BY KeysFacts DEF Vouched
  <2>2. CASE k = at[t]
    BY <1>1, <1>2, <2>2 DEF Vouched
  <2>3. CASE k # at[t]
    <3>1. k < at[t]
      BY <1>1, <1>2, <2>1, <2>3
    <3> QED
      BY <1>1, <1>2, <2>1, <2>3, <3>1 DEF CommitSound, Saved
  <2> QED
    BY <2>2, <2>3
<1> QED
  BY <1>1, <1>2 DEF CommitSound, Saved

LEMMA CommitKeepsSound ==
    ASSUME TypeInv, PendingInv, SavedInv, NEW t \in Committers, Commit(t)
    PROVE  CommitSound(t)'
<1> USE DEF TypeInv, TypeOK
<1>1. CommitSound(t)
  BY DEF SavedInv
<1>2. CASE Begin(t)
  <2>1. pc'[t] = "scan" /\ at[t] = 1 /\ ~stale[t]
    BY <1>1, <1>2 DEF Begin, CommitSound
  <2>2. \A k \in Keys : ~(k < 1)
    BY DEF Keys
  <2> QED
    BY <1>2, <2>1, <2>2 DEF Begin, CommitSound, Vouched, Saved, cacheVars, writeVars, historyVars
<1>3. CASE Skip(t)
  <2>1. at[t] \in Keys /\ Proceed(t, TRUE) /\ ~stale[t]
    BY <1>1, <1>3 DEF Skip, CommitSound
  <2>2. UNCHANGED <<value, file, stale, touched, lost>>
    BY <1>3 DEF Skip, cacheVars, writeVars, historyVars
  <2>3. value[at[t]] \in {NULL, file[at[t]]}
    BY <1>3, <2>1 DEF Skip, PendingInv, PendingCoversDifference, Saved
  <2> QED
    BY <1>1, <2>1, <2>2, <2>3, ProceedSound
<1>4. CASE Refuse(t) \/ OpenFails(t)
  <2>1. at[t] \in Keys /\ Proceed(t, FALSE) /\ ~stale[t]
    BY <1>1, <1>4 DEF Refuse, OpenFails, Changed, CommitSound
  <2>2. UNCHANGED <<value, file, stale, touched, lost>>
    BY <1>4 DEF Refuse, OpenFails, cacheVars, writeVars, historyVars
  <2> QED
    BY <1>1, <2>1, <2>2, ProceedSound
<1>5. CASE Open(t)
  <2>1. at[t] \in Keys /\ ~stale[t] /\ pc'[t] = "write"
    BY <1>1, <1>5 DEF Open, Changed, CommitSound
  <2>2. length'[t] = LengthOf(value[at[t]])
    BY <1>5 DEF Open
  <2>3. UNCHANGED <<value, at, ok, stale, touched, lost>>
    BY <1>5 DEF Open, cacheVars, historyVars
  <2>4. \A k \in Keys \ {at[t]} : file'[k] = file[k]
    BY <1>5 DEF Open
  <2>5. \A k \in Keys : k < at[t] => k # at[t]
    BY KeysFacts, <2>1
  <2> QED
    BY <1>1, <2>1, <2>2, <2>3, <2>4, <2>5 DEF CommitSound, Vouched, LengthOf, Saved
<1>6. CASE Write(t)
  <2>1. pc[t] = "write" /\ pc'[t] = "sync" /\ ~stale'[t]
    BY <1>6 DEF Write
  <2>2. UNCHANGED <<value, file, at, ok, touched, lost>>
    BY <1>6 DEF Write, cacheVars, historyVars
  <2>3. at[t] \notin touched[t] => buffer'[t] = value[at[t]]
    BY <1>1, <1>6, <2>1 DEF Write, CommitSound
  <2> QED
    BY <1>1, <2>1, <2>2, <2>3 DEF CommitSound, Vouched, Saved
<1>7. CASE WriteFails(t)
  <2>1. at[t] \in Keys /\ Proceed(t, FALSE) /\ ~stale'[t]
    BY <1>7 DEF WriteFails
  <2>2. UNCHANGED <<value, touched, lost>>
    BY <1>7 DEF WriteFails, cacheVars, historyVars
  <2>3. \A k \in Keys \ {at[t]} : file'[k] = file[k]
    BY <1>7 DEF WriteFails
  <2> QED
    BY <1>1, <2>1, <2>2, <2>3, ProceedSound
<1>8. CASE Sync(t)
  <2>1. at[t] \in Keys /\ Proceed(t, TRUE) /\ ~stale'[t]
    BY <1>1, <1>8 DEF Sync, CommitSound
  <2>2. UNCHANGED <<value, touched, lost>>
    BY <1>8 DEF Sync, cacheVars, historyVars
  <2>3. file' = [file EXCEPT ![at[t]] = buffer[t]]
    BY <1>8 DEF Sync
  <2>4. at[t] \notin touched[t] => file'[at[t]] = value[at[t]]
    BY <1>1, <1>8, <2>1, <2>3 DEF Sync, CommitSound
  <2> QED
    BY <1>1, <2>1, <2>2, <2>3, <2>4, ProceedSound
<1>9. CASE SyncFails(t)
  <2>1. at[t] \in Keys /\ Proceed(t, TRUE) /\ ~stale'[t]
    BY <1>1, <1>9 DEF SyncFails, CommitSound
  <2>2. UNCHANGED <<value, file, touched>>
    BY <1>9 DEF SyncFails, cacheVars
  <2>3. lost'[t] = lost[t] \cup {at[t]}
    BY <1>9 DEF SyncFails
  <2> QED
    BY <1>1, <2>1, <2>2, <2>3, ProceedSound
<1>10. CASE End(t)
  <2>1. pc'[t] = "idle" /\ at'[t] = 1 /\ ~stale'[t]
    BY <1>1, <1>10 DEF End, CommitSound, writeVars
  <2>2. \A k \in Keys : ~(k < 1)
    BY DEF Keys
  <2> QED
    BY <2>1, <2>2 DEF CommitSound, Vouched
<1> QED
  BY <1>2, <1>3, <1>4, <1>5, <1>6, <1>7, <1>8, <1>9, <1>10 DEF Commit

LEMMA NextSaved ==
    OneCommitter /\ TypeInv /\ PendingInv /\ SavedInv /\ [Next]_vars => SavedInv'
<1> SUFFICES ASSUME OneCommitter, TypeInv, PendingInv, SavedInv, [Next]_vars,
                    NEW t \in Committers
             PROVE  CommitSound(t)'
  BY DEF SavedInv
<1>1. ASSUME NEW u \in Setters, NEW k \in Keys,
             NEW v \in [len : Lengths, data : Data], Stage(u, k, v)
      PROVE  CommitSound(t)'
  BY <1>1, SetSound DEF Stage
<1>2. ASSUME NEW u \in Committers, Commit(u)
      PROVE  CommitSound(t)'
  <2>1. u = t
    BY DEF OneCommitter
  <2> QED
    BY <1>2, <2>1, CommitKeepsSound
<1>3. CASE PowerCycle
  <2>1. pc'[t] = "idle" /\ at'[t] = 1 /\ ~stale'[t]
    BY <1>3 DEF PowerCycle
  <2>2. \A k \in Keys : ~(k < 1)
    BY DEF Keys
  <2> QED
    BY <2>1, <2>2 DEF CommitSound, Vouched
<1>4. CASE UNCHANGED vars
  BY <1>4 DEF vars, SavedInv, CommitSound, Vouched, LengthOf, Saved
<1> QED
  BY <1>1, <1>2, <1>3, <1>4 DEF Next

\* Where one task commits at a time, a reported success is the truth for every key
\* nobody has set meanwhile, but for the syncs that failed unnoticed.
THEOREM SuccessIsDurable ==
    ASSUME OneCommitter
    PROVE  Spec => []SavedUnlessSyncFails
<1>1. Init => SavedInv
  <2>1. \A k \in Keys : ~(k < 1)
    BY DEF Keys
  <2> QED
    BY <2>1 DEF Init, SavedInv, CommitSound, Vouched
<1>2. Init => PendingInv
  BY DEF Init, PendingInv, PendingCoversDifference, Saved
<1>3. TypeInv /\ SavedInv => SavedUnlessSyncFails
  <2> SUFFICES ASSUME TypeInv, SavedInv, NEW t \in Committers, AboutToReport(t),
                      NEW k \in Keys \ (touched[t] \cup lost[t])
               PROVE  Saved(k)
    BY DEF SavedUnlessSyncFails
  <2>1. at[t] = NumKeys + 1 /\ k < at[t]
    BY KeysFacts DEF AboutToReport, TypeInv, TypeOK, Keys
  <2> QED
    BY <2>1 DEF AboutToReport, SavedInv, CommitSound, Vouched
<1>4. TypeInv /\ PendingInv /\ SavedInv /\ [Next]_vars => SavedInv'
  BY NextSaved
<1> QED
  BY <1>1, <1>2, <1>3, <1>4, InitTypes, NextTypes, NextPending, PTL DEF Spec

-----------------------------------------------------------------------------
(* The refinement of DurableSettings, for any number of committing tasks.  *)
(* What a commit writes is what the entry holds now, unless the key was    *)
(* set since the commit began.                                             *)

HandSound(t) ==
    /\ pc[t] # "write" => ~stale[t]
    /\ pc[t] = "write" /\ at[t] \notin touched[t]
         => ~stale[t] /\ length[t] = LengthOf(value[at[t]])
    /\ pc[t] = "sync" <=> buffer[t] # NULL
    /\ pc[t] = "idle" => touched[t] = {}

HandInv == \A t \in Committers : HandSound(t)

\* What DurableSettings sees
Saving   == {t \in Committers : pc[t] # "idle"}
Found(t) == IF buffer[t] = NULL THEN {} ELSE {<<at[t], buffer[t]>>}
FoundOf  == [t \in Committers |-> Found(t)]

LEMMA SetKeepsHand ==
    ASSUME TypeInv, HandInv, NEW k \in Keys, NEW v \in [len : Lengths, data : Data], Set(k, v)
    PROVE  HandInv'
<1> SUFFICES ASSUME NEW t \in Committers PROVE HandSound(t)'
  BY DEF HandInv
<1> USE DEF TypeInv, TypeOK
<1>1. HandSound(t) /\ UNCHANGED <<pc, at, length, buffer>>
  BY DEF HandInv, Set
<1>2. /\ touched'[t] = IF pc[t] = "idle" THEN touched[t] ELSE touched[t] \cup {k}
      /\ stale'[t] = (stale[t] \/ (pc[t] = "write" /\ at[t] = k /\ Moves(k, v)))
      /\ \A j \in Keys \ {k} : value'[j] = value[j]
  BY DEF Set
<1>3. pc[t] = "write" /\ at[t] \notin touched'[t]
        => at[t] # k /\ at[t] \in Keys /\ at[t] \notin touched[t] /\ value'[at[t]] = value[at[t]]
  BY <1>2
<1>4. QED
  BY <1>1, <1>2, <1>3 DEF HandSound, LengthOf

LEMMA CommitKeepsHand ==
    ASSUME TypeInv, PendingInv, HandInv, NEW u \in Committers, Commit(u)
    PROVE  HandInv'
<1> SUFFICES ASSUME NEW t \in Committers PROVE HandSound(t)'
  BY DEF HandInv
<1> USE DEF TypeInv, TypeOK
<1>0. HandSound(t) /\ HandSound(u)
  BY DEF HandInv
<1>1. UNCHANGED value
  BY DEF Commit, Begin, Skip, Refuse, Open, OpenFails, Write, WriteFails, Sync, SyncFails, End,
         cacheVars
<1>2. CASE t # u
  <2>1. /\ pc'[t] = pc[t] /\ at'[t] = at[t] /\ stale'[t] = stale[t] /\ length'[t] = length[t]
        /\ buffer'[t] = buffer[t] /\ touched'[t] = touched[t]
    BY <1>2
       DEF Commit, Begin, Skip, Refuse, Open, OpenFails, Write, WriteFails, Sync, SyncFails, End,
           Proceed, writeVars, historyVars
  <2>2. QED
    BY <1>0, <1>1, <2>1 DEF HandSound, LengthOf
<1>3. CASE t = u
  <2>1. CASE Begin(u)
    BY <1>0, <1>1, <1>3, <2>1 DEF Begin, HandSound, writeVars, historyVars
  <2>2. CASE Skip(u) \/ Refuse(u) \/ OpenFails(u)
    BY <1>0, <1>1, <1>3, <2>2
       DEF Skip, Refuse, OpenFails, Changed, Proceed, HandSound, writeVars, historyVars
  <2>3. CASE Open(u)
    BY <1>0, <1>1, <1>3, <2>3 DEF Open, Changed, HandSound, LengthOf, historyVars
  <2>4. CASE Write(u)
    <3>1. value[at[u]] # NULL /\ at[u] \in Keys
      BY <2>4 DEF Write, PendingInv
    <3>2. buffer'[u] # NULL
      <4>1. length[u] \in Lengths
        BY <2>4 DEF Write
      <4>2. [len |-> length[u], data |-> Torn] \in Contents
        BY <4>1 DEF Contents
      <4>3. [len |-> length[u], data |-> Torn] # NULL
        BY <4>2, ContentsFacts
      <4>4. QED
        BY <2>4, <3>1, <4>3 DEF Write
    <3>3. QED
      BY <1>0, <1>1, <1>3, <2>4, <3>2 DEF Write, HandSound, historyVars
  <2>5. CASE WriteFails(u)
    BY <1>0, <1>1, <1>3, <2>5 DEF WriteFails, Proceed, HandSound, historyVars
  <2>6. CASE Sync(u) \/ SyncFails(u)
    BY <1>0, <1>1, <1>3, <2>6 DEF Sync, SyncFails, Proceed, HandSound, historyVars
  <2>7. CASE End(u)
    BY <1>0, <1>1, <1>3, <2>7 DEF End, HandSound, writeVars
  <2>8. QED
    BY <2>1, <2>2, <2>3, <2>4, <2>5, <2>6, <2>7 DEF Commit
<1>4. QED
  BY <1>2, <1>3

LEMMA NextHand == TypeInv /\ PendingInv /\ HandInv /\ [Next]_vars => HandInv'
<1> SUFFICES ASSUME TypeInv, PendingInv, HandInv, [Next]_vars PROVE HandInv'
  OBVIOUS
<1>1. ASSUME NEW t \in Setters, NEW k \in Keys,
             NEW v \in [len : Lengths, data : Data], Stage(t, k, v)
      PROVE  HandInv'
  BY <1>1, SetKeepsHand DEF Stage
<1>2. CASE PowerCycle
  BY <1>2 DEF PowerCycle, HandInv, HandSound
<1>3. CASE UNCHANGED vars
  BY <1>3 DEF vars, HandInv, HandSound, LengthOf
<1>4. QED
  BY <1>1, <1>2, <1>3, CommitKeepsHand DEF Next

\* A setter puts a value, and what is in the hands of the commits stays
LEMMA SetRefines ==
    ASSUME TypeInv, HandInv, NEW k \in Keys, NEW v \in [len : Lengths, data : Data], Set(k, v)
    PROVE  Durable!Put(k, v)
<1>1. /\ value' = [value EXCEPT ![k] = v]
      /\ UNCHANGED <<file, pc, at, buffer>>
  BY DEF Set
<1>2. touched' = [t \in Committers |-> IF t \in Saving THEN touched[t] \cup {k} ELSE touched[t]]
  BY DEF Set, Saving
<1>3. Saving' = Saving /\ FoundOf' = FoundOf
  BY <1>1 DEF Saving, FoundOf, Found
<1>4. QED
  BY <1>1, <1>2, <1>3 DEF Durable!Put, Saving, FoundOf, Found

\* A step of one commit leaves what the others have in hand
LEMMA OthersHold ==
    ASSUME TypeInv, NEW t \in Committers, Commit(t)
    PROVE  /\ FoundOf' = [FoundOf EXCEPT ![t] = Found(t)']
           /\ UNCHANGED value
           /\ pc'[t] # "idle" /\ pc[t] # "idle" => Saving' = Saving /\ UNCHANGED touched
<1> USE DEF TypeInv, TypeOK
<1>1. UNCHANGED value
  BY DEF Commit, Begin, Skip, Refuse, Open, OpenFails, Write, WriteFails, Sync, SyncFails, End,
         cacheVars
<1>2. \A u \in Committers \ {t} : pc'[u] = pc[u] /\ at'[u] = at[u] /\ buffer'[u] = buffer[u]
  BY DEF Commit, Begin, Skip, Refuse, Open, OpenFails, Write, WriteFails, Sync, SyncFails, End,
         Proceed, writeVars
<1>3. \A u \in Committers \ {t} : Found(u)' = Found(u)
  BY <1>2 DEF Found
<1>4. FoundOf' = [FoundOf EXCEPT ![t] = Found(t)']
  BY <1>3 DEF FoundOf
<1>5. pc'[t] # "idle" /\ pc[t] # "idle" => Saving' = Saving /\ UNCHANGED touched
  <2>1. pc'[t] # "idle" /\ pc[t] # "idle" => UNCHANGED touched
    BY DEF Commit, Begin, Skip, Refuse, Open, OpenFails, Write, WriteFails, Sync, SyncFails, End,
           Proceed, historyVars
  <2>2. QED
    BY <1>2, <2>1 DEF Saving
<1>6. QED
  BY <1>1, <1>4, <1>5

LEMMA CommitRefines ==
    ASSUME TypeInv, PendingInv, HandInv, NEW t \in Committers, Commit(t)
    PROVE  Durable!Next \/ UNCHANGED Durable!vars
<1> USE DEF TypeInv, TypeOK
<1>0. HandSound(t) /\ UNCHANGED value /\ FoundOf' = [FoundOf EXCEPT ![t] = Found(t)']
  BY OthersHold DEF HandInv
<1>a. /\ pc'[t] # "idle" /\ pc[t] # "idle" => Saving' = Saving /\ UNCHANGED touched
      /\ t \in Saving <=> pc[t] # "idle"
      /\ FoundOf[t] = Found(t)
  BY OthersHold DEF Saving, FoundOf
<1>1. ASSUME Found(t)' = {}, pc[t] = "scan", pc'[t] # "idle", UNCHANGED file
      PROVE  UNCHANGED Durable!vars
  <2>1. Found(t) = {}
    BY <1>0, <1>1 DEF HandSound, Found
  <2>2. FoundOf' = FoundOf
    BY <1>0, <1>1, <2>1 DEF FoundOf
  <2>3. QED
    BY <1>0, <1>a, <1>1, <2>2 DEF Durable!vars, Saving, FoundOf, Found
<1>2. CASE Begin(t)
  <2>1. /\ pc[t] = "idle" /\ pc'[t] = "scan" /\ UNCHANGED <<file, buffer, at, touched>>
        /\ \A u \in Committers \ {t} : pc'[u] = pc[u]
    BY <1>2 DEF Begin, writeVars, historyVars
  <2>2. Saving' = Saving \cup {t} /\ t \notin Saving /\ FoundOf' = FoundOf
    BY <2>1 DEF Saving, FoundOf, Found
  <2>3. Durable!Start(t)
    BY <1>0, <2>1, <2>2 DEF Durable!Start, Saving, FoundOf, Found
  <2>4. QED
    BY <2>3 DEF Durable!Next
<1>3. CASE Skip(t) \/ Refuse(t) \/ OpenFails(t)
  <2>1. pc[t] = "scan" /\ pc'[t] = "scan" /\ UNCHANGED <<file, buffer>>
    BY <1>3 DEF Skip, Refuse, OpenFails, Changed, Proceed, writeVars
  <2>2. Found(t)' = {}
    BY <1>0, <2>1 DEF HandSound, Found
  <2>3. QED
    BY <1>1, <2>1, <2>2
<1>4. CASE Open(t)
  <2>1. /\ pc[t] = "scan" /\ pc'[t] = "write" /\ UNCHANGED buffer
        /\ at[t] \in Keys /\ value[at[t]] # NULL
        /\ file' = [file EXCEPT ![at[t]] = IF @ = NULL THEN Empty ELSE @]
    BY <1>4 DEF Open, Changed
  <2>2. Found(t)' = {} /\ Found(t) = {}
    BY <1>0, <2>1 DEF HandSound, Found
  <2>3. CASE file[at[t]] = NULL
    <3>1. Durable!Begin(t, at[t])
      <4>1. file' = [file EXCEPT ![at[t]] = Empty]
        BY <2>1, <2>3
      <4>2. FoundOf' = FoundOf
        BY <1>0, <2>2 DEF FoundOf
      <4>3. QED
        BY <1>0, <1>a, <2>1, <2>2, <2>3, <4>1, <4>2 DEF Durable!Begin, Saving, FoundOf, Found
    <3>2. QED
      BY <2>1, <3>1 DEF Durable!Next
  <2>4. CASE file[at[t]] # NULL
    <3>1. UNCHANGED file
      BY <2>1, <2>4
    <3>2. QED
      BY <1>1, <2>1, <2>2, <3>1
  <2>5. QED
    BY <2>3, <2>4
<1>5. CASE Write(t)
  <2> DEFINE read == buffer'[t]
  <2>1. /\ pc[t] = "write" /\ pc'[t] = "sync" /\ UNCHANGED <<file, at>>
        /\ at[t] \in Keys /\ value[at[t]] # NULL /\ length[t] \in Lengths
        /\ read = IF ~stale[t] /\ length[t] = LengthOf(value[at[t]])
               THEN value[at[t]] ELSE [len |-> length[t], data |-> Torn]
    BY <1>5 DEF Write, PendingInv, cacheVars
  <2>2. read = value[at[t]] \/ (at[t] \in touched[t] /\ read \in [len : Lengths, data : {Torn}])
    BY <1>0, <2>1 DEF HandSound
  <2>3. read # NULL
    <3>1. [len |-> length[t], data |-> Torn] \in Contents
      BY <2>1 DEF Contents
    <3>2. QED
      BY <2>1, <3>1, ContentsFacts
  <2>4. Found(t) = {} /\ Found(t)' = {<<at[t], read>>}
    BY <1>0, <2>1, <2>3 DEF HandSound, Found
  <2>5. PICK k \in Keys : k = at[t]
    BY <2>1
  <2>6. Durable!Find(t, k)
    <3>1. read \in {value[k]} \cup (IF k \in touched[t]
                                    THEN [len : Lengths, data : {Torn}] ELSE {})
      BY <2>2, <2>5
    <3>2. FoundOf' = [FoundOf EXCEPT ![t] = {<<k, read>>}]
      BY <1>0, <2>4, <2>5
    <3> HIDE DEF read
    <3>3. QED
      BY <1>0, <1>a, <2>1, <2>3, <2>4, <3>1, <3>2 DEF Durable!Find, Saving, FoundOf, Found
  <2>7. QED
    BY <2>6 DEF Durable!Next
<1>6. CASE WriteFails(t)
  <2>1. /\ pc[t] = "write" /\ pc'[t] = "scan" /\ UNCHANGED buffer
        /\ at[t] \in Keys /\ value[at[t]] # NULL
        /\ file' = [file EXCEPT ![at[t]] = NULL] \/ UNCHANGED file
    BY <1>6 DEF WriteFails, Proceed, PendingInv
  <2>2. Found(t)' = {} /\ Found(t) = {} /\ FoundOf' = FoundOf
    BY <1>0, <2>1 DEF HandSound, Found, FoundOf
  <2>3. CASE UNCHANGED file
    BY <1>0, <1>a, <2>1, <2>2, <2>3 DEF Durable!vars, Saving, FoundOf, Found
  <2>4. CASE file' = [file EXCEPT ![at[t]] = NULL]
    <3>1. Durable!Lose(t, at[t])
      BY <1>0, <1>a, <2>1, <2>2, <2>4 DEF Durable!Lose, Saving, FoundOf, Found
    <3>2. QED
      BY <2>1, <3>1 DEF Durable!Next
  <2>5. QED
    BY <2>1, <2>3, <2>4
<1>7. CASE Sync(t)
  <2>1. /\ pc[t] = "sync" /\ pc'[t] = "scan" /\ buffer'[t] = NULL /\ buffer[t] # NULL
        /\ at[t] \in Keys /\ file' = [file EXCEPT ![at[t]] = buffer[t]]
    BY <1>0, <1>7 DEF Sync, Proceed, HandSound
  <2>2. Found(t)' = {} /\ Found(t) = {<<at[t], buffer[t]>>} /\ FoundOf' = [FoundOf EXCEPT ![t] = {}]
    BY <1>0, <2>1 DEF Found
  <2>3. buffer[t] \in [len : Lengths, data : Data] \cup [len : Lengths, data : {Torn}]
    <3>1. buffer[t] \in Contents
      BY <2>1
    <3>2. QED
      BY <3>1 DEF Contents
  <2>4. Durable!Make(t)
    BY <1>0, <1>a, <2>1, <2>2, <2>3 DEF Durable!Make, Saving, FoundOf, Found
  <2>5. QED
    BY <2>4 DEF Durable!Next
<1>8. CASE SyncFails(t)
  <2>1. /\ pc[t] = "sync" /\ pc'[t] = "scan" /\ buffer'[t] = NULL /\ buffer[t] # NULL
        /\ UNCHANGED file
    BY <1>0, <1>8 DEF SyncFails, Proceed, HandSound
  <2>2. Found(t)' = {} /\ Found(t) # {} /\ FoundOf' = [FoundOf EXCEPT ![t] = {}]
    BY <1>0, <2>1 DEF Found
  <2>3. Durable!Miss(t)
    BY <1>0, <1>a, <2>1, <2>2 DEF Durable!Miss, Saving, FoundOf, Found
  <2>4. QED
    BY <2>3 DEF Durable!Next
<1>9. CASE End(t)
  <2>1. /\ pc[t] = "scan" /\ pc'[t] = "idle" /\ UNCHANGED <<file, buffer>>
        /\ touched' = [touched EXCEPT ![t] = {}]
        /\ \A u \in Committers \ {t} : pc'[u] = pc[u]
    BY <1>9 DEF End, writeVars
  <2>2. Found(t)' = {} /\ Found(t) = {} /\ FoundOf' = FoundOf /\ Saving' = Saving \ {t}
    BY <1>0, <2>1 DEF HandSound, Found, FoundOf, Saving
  <2>3. Durable!Finish(t)
    BY <1>0, <1>a, <2>1, <2>2 DEF Durable!Finish, Saving, FoundOf, Found
  <2>4. QED
    BY <2>3 DEF Durable!Next
<1>10. QED
  BY <1>2, <1>3, <1>4, <1>5, <1>6, <1>7, <1>8, <1>9 DEF Commit

LEMMA PowerCycleRefines == PowerCycle => Durable!Restart
<1> SUFFICES ASSUME PowerCycle PROVE Durable!Restart
  OBVIOUS
<1>1. \E unread \in SUBSET Keys :
        /\ file' = [k \in Keys |-> IF k \in unread THEN file[k]
                                  ELSE IF file[k] = Empty THEN NULL ELSE file[k]]
        /\ value' = [k \in Keys |-> IF k \in unread THEN NULL
                                   ELSE IF file[k] = Empty THEN NULL ELSE file[k]]
  BY DEF PowerCycle, Loaded
<1>2. \A t \in Committers : pc'[t] = "idle" /\ buffer'[t] = NULL
  BY DEF PowerCycle
<1>3. Saving' = {} /\ FoundOf' = [t \in Committers |-> {}]
  BY <1>2 DEF Saving, FoundOf, Found
<1>4. touched' = [t \in Committers |-> {}]
  BY DEF PowerCycle
<1>5. QED
  BY <1>1, <1>3, <1>4 DEF Durable!Restart, Saving, FoundOf, Found

LEMMA NextRefines ==
    TypeInv /\ PendingInv /\ HandInv /\ [Next]_vars => [Durable!Next]_Durable!vars
<1> SUFFICES ASSUME TypeInv, PendingInv, HandInv, [Next]_vars
             PROVE  Durable!Next \/ UNCHANGED Durable!vars
  OBVIOUS
<1>1. ASSUME NEW t \in Setters, NEW k \in Keys,
             NEW v \in [len : Lengths, data : Data], Stage(t, k, v)
      PROVE  Durable!Next
  <2>1. Durable!Put(k, v)
    BY <1>1, SetRefines DEF Stage
  <2>2. QED
    BY <2>1 DEF Durable!Next
<1>2. CASE PowerCycle
  BY <1>2, PowerCycleRefines DEF Durable!Next
<1>3. CASE UNCHANGED vars
  BY <1>3 DEF vars, Durable!vars
<1>4. QED
  BY <1>1, <1>2, <1>3, CommitRefines DEF Next

LEMMA InitRefines == Init => Durable!Init
<1> SUFFICES ASSUME Init PROVE Durable!Init
  OBVIOUS
<1>1. Saving = {} /\ FoundOf = [t \in Committers |-> {}]
  BY DEF Init, Saving, FoundOf, Found
<1>2. QED
  BY <1>1 DEF Init, Durable!Init, Saving, FoundOf, Found

\* However many tasks set and commit at the same time, and wherever a write, a sync or the
\* power fails, the file of a key changes in one step to a setting the cache held, and to
\* half of one only if the key was set during the commit that wrote it.
THEOREM StoreImplementsDurable == Spec => ImplementsDurable
<1>1. Init => PendingInv
  BY DEF Init, PendingInv, PendingCoversDifference, Saved
<1>2. Init => HandInv
  BY DEF Init, HandInv, HandSound
<1>3. QED
  BY <1>1, <1>2, InitTypes, InitRefines, NextTypes, NextPending, NextHand, NextRefines, PTL
     DEF Spec, ImplementsDurable, Durable!Spec

=============================================================================
