---------------------- MODULE SubscriptionManagerProofs ----------------------
(***************************************************************************)
(* Safety of the subscription table for every number of tasks, filters and *)
(* slots, checked by TLAPS.                                                *)
(***************************************************************************)
EXTENDS SubscriptionManager, FiniteSetTheorems, TLAPS

-----------------------------------------------------------------------------
(* prvCompressSubscriptionList.  The position of an occupied slot once the  *)
(* holes are filled is a bijection onto the first slots of the table.       *)

LEMMA OccupiedIsFinite ==
    /\ IsFiniteSet(Occupied) /\ Occupied \subseteq Slots /\ Cardinality(Occupied) \in Nat
    /\ Cardinality(Occupied) <= NumSlots
<1>1. NumSlots \in Nat \ {0}
  BY SubscriptionAssumption
<1>2. IsFiniteSet(Slots) /\ Cardinality(Slots) = NumSlots
  <2>1. IsFiniteSet(1..NumSlots)
        /\ Cardinality(1..NumSlots) = IF 1 > NumSlots THEN 0 ELSE NumSlots - 1 + 1
    BY <1>1, FS_Interval
  <2>2. QED
    BY <1>1, <2>1 DEF Slots
<1>3. Occupied \subseteq Slots
  BY DEF Occupied
<1>4. IsFiniteSet(Occupied) /\ Cardinality(Occupied) <= Cardinality(Slots)
  BY <1>2, <1>3, FS_Subset
<1>5. QED
  BY <1>2, <1>3, <1>4, FS_CardinalityType

\* The same of the next state
LEMMA OccupiedBound == Cardinality(Occupied') \in 0..NumSlots
<1>1. NumSlots \in Nat \ {0} /\ Occupied' \subseteq Slots
  BY SubscriptionAssumption DEF Occupied, Slots
<1>2. IsFiniteSet(1..NumSlots)
      /\ Cardinality(1..NumSlots) = IF 1 > NumSlots THEN 0 ELSE NumSlots - 1 + 1
  BY <1>1, FS_Interval
<1>3. IsFiniteSet(Occupied') /\ Cardinality(Occupied') <= Cardinality(Slots)
  BY <1>1, <1>2, FS_Subset DEF Slots
<1>4. QED
  BY <1>1, <1>2, <1>3, FS_CardinalityType DEF Slots

LEMMA RankIsPosition ==
    ASSUME NEW i \in Occupied
    PROVE  Rank(i) \in 1..Cardinality(Occupied)
<1> DEFINE below == {j \in Occupied : j <= i}
<1>1. below \subseteq Occupied /\ i \in below
  BY OccupiedIsFinite DEF Slots
<1>2. IsFiniteSet(below) /\ Cardinality(below) <= Cardinality(Occupied)
      /\ Cardinality(below) \in Nat
  BY <1>1, OccupiedIsFinite, FS_Subset, FS_CardinalityType
<1>3. Cardinality(below) # 0
  BY <1>1, <1>2, FS_EmptySet
<1>4. QED
  BY <1>2, <1>3, OccupiedIsFinite DEF Rank

LEMMA RankGrows ==
    ASSUME NEW i \in Occupied, NEW j \in Occupied, i < j
    PROVE  Rank(i) # Rank(j)
<1> DEFINE upTo(n) == {k \in Occupied : k <= n}
<1>1. i \in Nat /\ j \in Nat /\ \A k \in Occupied : k \in Nat
  BY OccupiedIsFinite, SubscriptionAssumption DEF Slots
<1>2. upTo(i) \subseteq upTo(j) /\ j \in upTo(j) /\ j \notin upTo(i)
  <2>1. \A k \in Occupied : k <= i => k <= j
    BY <1>1
  <2>2. j <= j /\ ~(j <= i)
    BY <1>1
  <2>3. QED
    BY <2>1, <2>2
<1>3. IsFiniteSet(upTo(j))
  BY OccupiedIsFinite, FS_Subset
<1>4. Cardinality(upTo(i)) # Cardinality(upTo(j))
  BY <1>2, <1>3, FS_Subset
<1>5. QED
  BY <1>4 DEF Rank

LEMMA RankIsInjective ==
    ASSUME NEW i \in Occupied, NEW j \in Occupied, Rank(i) = Rank(j)
    PROVE  i = j
<1>1. i \in Nat /\ j \in Nat
  BY OccupiedIsFinite, SubscriptionAssumption DEF Slots
<1>2. i < j \/ j < i \/ i = j
  BY <1>1
<1>3. QED
  BY <1>2, RankGrows

LEMMA RankIsOnto ==
    ASSUME NEW k \in 1..Cardinality(Occupied)
    PROVE  \E i \in Occupied : Rank(i) = k
<1> DEFINE n == Cardinality(Occupied)
           f == [i \in Occupied |-> Rank(i)]
<1>1. f \in Injection(Occupied, 1..n)
  BY RankIsPosition, RankIsInjective DEF Injection, IsInjective
<1>2. IsFiniteSet(1..n) /\ Cardinality(1..n) = n
  <2>1. IsFiniteSet(1..n) /\ Cardinality(1..n) = IF 1 > n THEN 0 ELSE n - 1 + 1
    BY OccupiedIsFinite, FS_Interval
  <2>2. QED
    BY <2>1, OccupiedIsFinite
<1>3. f \in Surjection(Occupied, 1..n)
  BY <1>1, <1>2, FS_Injection
<1>4. QED
  BY <1>3 DEF Surjection

\* The filters stand in the first slots, each where its old slot has moved to
LEMMA CompressFills ==
    ASSUME Compress
    PROVE  /\ Occupied' = 1..Cardinality(Occupied) /\ subCount' = Cardinality(Occupied)
           /\ \A i \in Occupied : Rank(i) \in Slots /\ slot'[Rank(i)] = slot[i]
<1>1. slot' = [k \in Slots |-> IF \E i \in Occupied : Rank(i) = k
                                 THEN slot[CHOOSE i \in Occupied : Rank(i) = k] ELSE NULL]
  BY DEF Compress
<1>2. 1..Cardinality(Occupied) \subseteq Slots
  BY OccupiedIsFinite, SubscriptionAssumption DEF Slots
<1>3. ASSUME NEW i \in Occupied PROVE Rank(i) \in Slots /\ slot'[Rank(i)] = slot[i]
  <2>1. Rank(i) \in Slots
    BY <1>2, RankIsPosition
  <2>2. (CHOOSE j \in Occupied : Rank(j) = Rank(i)) = i
    BY RankIsInjective
  <2>3. QED
    BY <1>1, <2>1, <2>2
<1>4. ASSUME NEW k \in Slots PROVE slot'[k] # NULL <=> k \in 1..Cardinality(Occupied)
  <2>1. CASE k \in 1..Cardinality(Occupied)
    <3>1. PICK i \in Occupied : Rank(i) = k
      BY <2>1, RankIsOnto
    <3>2. QED
      BY <1>3, <2>1, <3>1 DEF Occupied
  <2>2. CASE k \notin 1..Cardinality(Occupied)
    BY <1>1, <2>2, RankIsPosition
  <2>3. QED
    BY <2>1, <2>2
<1>5. Occupied' = 1..Cardinality(Occupied)
  BY <1>2, <1>4 DEF Occupied, Slots
<1>6. QED
  BY <1>3, <1>5 DEF Compress

-----------------------------------------------------------------------------
(* The mutex between two sessions.                                          *)

\* Resubscribe commands are counted, and the agent keeps the mutex in its command loop only
\* for one of them, over a table that is whole
ResubscribeInv ==
    /\ lists \in Nat /\ flying \in Nat
    /\ HeldForResubscribe /\ ResubscribeCoversTable

\* Outside of the command loop nothing is promised of the mutex
LEMMA OutsideLoop ==
    ASSUME agent' # "online" \/ ~locked', lists' \in Nat, flying' \in Nat
    PROVE  ResubscribeInv'
BY DEF ResubscribeInv, HeldForResubscribe, ResubscribeCoversTable

\* A step that neither touches the filters nor the commands
LEMMA SameList ==
    ASSUME ResubscribeInv, UNCHANGED <<slot, subCount, locked, agent, listLen>>,
           lists' \in Nat, flying' \in Nat, lists' + flying' = lists + flying
    PROVE  ResubscribeInv'
BY DEF ResubscribeInv, HeldForResubscribe, ResubscribeCoversTable, Occupied

LEMMA TaskKeepsList ==
    ASSUME ResubscribeInv, NEW t \in Tasks, TaskStep(t)
    PROVE  ResubscribeInv'
<1> USE DEF agentVars, tableVars
<1>1. UNCHANGED <<locked, agent, lists, flying, listLen>>
  BY DEF TaskStep, Boot, Subscribe, NothingToSend, SendSubRequest, SubRequestAnswered,
         Unsubscribe, UnsubRequestAnswered, RemoveCallback
<1>2. CASE Subscribe(t) \/ RemoveCallback(t)
  <2>1. ~locked
    BY <1>2 DEF Subscribe, RemoveCallback
  <2>2. QED
    BY <1>1, <2>1, OutsideLoop DEF ResubscribeInv
<1>3. CASE ~(Subscribe(t) \/ RemoveCallback(t))
  <2>1. UNCHANGED <<slot, subCount>>
    BY <1>3 DEF TaskStep, Boot, NothingToSend, SendSubRequest, SubRequestAnswered,
                Unsubscribe, UnsubRequestAnswered
  <2>2. QED
    BY <1>1, <2>1, SameList DEF ResubscribeInv
<1>4. QED
  BY <1>2, <1>3

LEMMA LoopKeepsList ==
    ASSUME ResubscribeInv, CommandLoop
    PROVE  ResubscribeInv'
<1> USE DEF agentVars, tableVars
<1>1. ASSUME NEW t \in Tasks, SendRequest(t) PROVE ResubscribeInv'
  BY <1>1, SameList DEF SendRequest, ResubscribeInv
<1>2. ASSUME NEW t \in Tasks, RequestFails(t) PROVE ResubscribeInv'
  BY <1>2, OutsideLoop DEF RequestFails, ResubscribeInv
<1>3. ASSUME NEW t \in Tasks, NEW status \in {"granted", "refused"}, AckRequest(t, status)
      PROVE  ResubscribeInv'
  BY <1>3, SameList DEF AckRequest, ResubscribeInv
<1>4. ASSUME NEW fs \in SUBSET Listed, SendList(fs) PROVE ResubscribeInv'
  <2>1. lists' \in Nat /\ flying' \in Nat /\ lists' + flying' = lists + flying
    BY <1>4 DEF SendList, ResubscribeInv
  <2>2. QED
    BY <1>4, <2>1, SameList DEF SendList
<1>5. ASSUME NEW fs \in SUBSET Listed, AckList(fs) PROVE ResubscribeInv'
  BY <1>5, OutsideLoop DEF AckList, ResubscribeInv
<1>6. CASE ListFails
  BY <1>6, OutsideLoop DEF ListFails, CancelLists, ResubscribeInv
<1>7. CASE IncomingPublish \/ ConnectionLost
  BY <1>7, OutsideLoop DEF IncomingPublish, ConnectionLost, ResubscribeInv
<1>8. QED
  BY <1>1, <1>2, <1>3, <1>4, <1>5, <1>6, <1>7 DEF CommandLoop

LEMMA CancelKeepsList ==
    ASSUME ResubscribeInv, NEW next, next # "online", CancelAll(next)
    PROVE  ResubscribeInv'
<1>1. PICK n \in 0..lists : lists' = lists - n /\ CancelLists(n + flying, next)
  BY DEF CancelAll
<1>2. agent' # "online"
  BY <1>1 DEF CancelLists
<1>3. lists' \in Nat /\ flying' \in Nat
  BY <1>1 DEF CancelAll, ResubscribeInv
<1>4. QED
  BY <1>2, <1>3, OutsideLoop

LEMMA ConnectKeepsList ==
    ASSUME ResubscribeInv, ConnectResubscribe
    PROVE  ResubscribeInv'
<1>1. lists' \in Nat /\ flying' \in Nat
  BY DEF ConnectResubscribe, ResubscribeInv
<1>2. CASE agent' # "online" \/ ~locked'
  BY <1>1, <1>2, OutsideLoop
<1>3. CASE agent' = "online" /\ locked'
  <2>1. /\ Compress /\ Occupied # {} /\ listLen' = subCount' /\ lists' = lists + 1
        /\ flying' = flying
    BY <1>3 DEF ConnectResubscribe
  <2>2. Occupied' = 1..listLen'
    BY <2>1, CompressFills
  <2>3. lists' + flying' > 0
    BY <2>1 DEF ResubscribeInv
  <2>4. QED
    BY <1>1, <2>1, <2>2, <2>3 DEF ResubscribeInv, HeldForResubscribe, ResubscribeCoversTable
<1>4. QED
  BY <1>2, <1>3

LEMMA ResubscribeInvStep == ResubscribeInv /\ [Next]_vars => ResubscribeInv'
<1> SUFFICES ASSUME ResubscribeInv, [Next]_vars PROVE ResubscribeInv'
  OBVIOUS
<1>1. ASSUME NEW t \in Tasks, TaskStep(t) PROVE ResubscribeInv'
  BY <1>1, TaskKeepsList
<1>2. CASE CommandLoop
  BY <1>2, LoopKeepsList
<1>3. CASE LeaveLoop \/ Reopen
  BY <1>3, CancelKeepsList DEF LeaveLoop, Reopen
<1>4. CASE LockTable \/ ConnectFails \/ ConnectClean \/ ConnectResumed
  BY <1>4, OutsideLoop
     DEF LockTable, ConnectFails, ConnectClean, ConnectResumed, ResubscribeInv
<1>5. CASE ConnectResubscribe
  BY <1>5, ConnectKeepsList
<1>6. CASE UNCHANGED vars
  BY <1>6, SameList DEF vars, ResubscribeInv
<1>7. QED
  BY <1>1, <1>2, <1>3, <1>4, <1>5, <1>6 DEF Next, AgentStep

LEMMA AlwaysResubscribeInv == Spec => []ResubscribeInv
<1>1. Init => ResubscribeInv
  BY DEF Init, ResubscribeInv, HeldForResubscribe, ResubscribeCoversTable
<1>2. QED
  BY <1>1, ResubscribeInvStep, PTL DEF Spec

\* The agent never goes back to MQTTAgent_CommandLoop with the mutex of the table unless the
\* command whose callback gives it back is in the queue or in flight.
THEOREM MutexIsHeldForCommand == Spec => []HeldForResubscribe
<1>1. ResubscribeInv => HeldForResubscribe
  BY DEF ResubscribeInv
<1>2. QED
  BY <1>1, AlwaysResubscribeInv, PTL

\* Whatever holes the tasks have left in it, the table that prvHandleResubscribe sends is
\* whole: prvCompressSubscriptionList has filled each of them, and the callback reads as
\* many SUBACK codes as were asked for.
THEOREM ResubscribeIsWhole == Spec => []ResubscribeCoversTable
<1>1. ResubscribeInv => ResubscribeCoversTable
  BY DEF ResubscribeInv
<1>2. QED
  BY <1>1, AlwaysResubscribeInv, PTL

-----------------------------------------------------------------------------
(* One slot per filter, as long as no task unsubscribes.  The scan of        *)
(* MqttAgent_SubscribeSync ends at the second empty slot; that no filter     *)
(* stands behind it is what makes the scan complete.                         *)

Typed ==
    /\ slot \in [Slots -> Filters \cup {NULL}]
    /\ pc \in [Tasks -> TaskStates]

\* No task is on its way out of the table
NoneLeaves == \A t \in Tasks : pc[t] \notin {"unsubWait", "remove"}

\* At most one of the slots before an occupied one is empty
OneHole ==
    \A i \in Occupied : \A j, k \in Slots \ Occupied : j < i /\ k < i => j = k

TableInv == Typed /\ NoneLeaves /\ OneHole /\ NoDuplicateFilters

LEMMA FirstIsLeast ==
    ASSUME NEW S \in SUBSET Slots, S # {}
    PROVE  FirstOf(S) \in S /\ \A j \in S : FirstOf(S) <= j
<1>1. S \subseteq Nat
  BY SubscriptionAssumption DEF Slots
<1>2. PICK i \in S : \A j \in S : ~(<<j, i>> \in OpToRel(<, Nat))
  BY <1>1, NatLessThanWellFounded, WFMin
<1>3. \A j \in S : ~(j < i)
  BY <1>1, <1>2, Zenon DEF OpToRel
<1>4. \A j \in S : i <= j
  BY <1>1, <1>3
<1>5. QED
  BY <1>4 DEF FirstOf

LEMMA CandidateIsSlot ==
    ASSUME NEW f, NEW i \in Candidates(f)
    PROVE  /\ i \in Slots
           /\ \/ i \in StopsScan(f) /\ \A j \in StopsScan(f) : i <= j
              \/ StopsScan(f) = {} /\ i \in Empty /\ \A j \in Empty : i <= j
<1>1. StopsScan(f) \in SUBSET Slots /\ Empty \in SUBSET Slots
  BY DEF StopsScan, Empty
<1>2. QED
  BY <1>1, FirstIsLeast DEF Candidates

\* An empty slot that is taken for a filter: no other slot has the filter, although the scan
\* has not seen all of them
LEMMA TakenSlotIsFresh ==
    ASSUME OneHole, NEW f \in Filters, NEW i \in Candidates(f), slot[i] = NULL
    PROVE  /\ \A o \in Occupied : slot[o] # f
           /\ \A j, k \in Slots \ Occupied : j < i /\ k < i => j = k
<1>1. i \in Slots /\ i \in Nat /\ \A j \in Slots : j \in Nat /\ 0 < j
  BY CandidateIsSlot, SubscriptionAssumption DEF Slots
<1>2. ASSUME NEW o \in Occupied, slot[o] = f PROVE o \in StopsScan(f)
  BY <1>2 DEF Occupied, StopsScan, Matches
<1>3. ASSUME NEW j \in Slots \ Occupied, NEW k \in Slots \ Occupied, j < k
      PROVE  k \in StopsScan(f)
  <2>1. slot[j] = NULL /\ slot[k] = NULL /\ j \in 1..(k - 1)
    BY <1>1, <1>3 DEF Occupied
  <2>2. QED
    BY <2>1 DEF StopsScan
<1>4. CASE i \in StopsScan(f) /\ \A j \in StopsScan(f) : i <= j
  <2>1. PICK j \in 1..(i - 1) : slot[j] = NULL
    BY <1>4 DEF StopsScan
  <2>2. j \in Slots \ Occupied /\ i \in Slots \ Occupied /\ j < i
    <3>1. j \in Nat /\ 0 < j /\ j < i /\ i <= NumSlots
      BY <1>1, SubscriptionAssumption DEF Slots
    <3>2. j \in Slots
      BY <1>1, <3>1, SubscriptionAssumption DEF Slots
    <3>3. QED
      BY <1>1, <2>1, <3>1, <3>2 DEF Occupied
  <2>3. ASSUME NEW o \in Occupied, slot[o] = f PROVE FALSE
    <3>1. i <= o /\ i # o /\ o \in Nat
      BY <1>1, <1>2, <1>4, <2>2, <2>3 DEF Occupied
    <3>2. i < o /\ j < o
      BY <1>1, <2>1, <3>1
    <3>3. QED
      BY <1>1, <2>2, <3>2 DEF OneHole
  <2>4. ASSUME NEW m \in Slots \ Occupied, NEW k \in Slots \ Occupied, m < i, k < i, m # k
        PROVE  FALSE
    <3>1. m < k \/ k < m
      BY <1>1, <2>4
    <3>2. k \in StopsScan(f) \/ m \in StopsScan(f)
      BY <1>3, <3>1
    <3>3. QED
      BY <1>1, <1>4, <2>4, <3>2
  <2>5. QED
    BY <2>3, <2>4
<1>5. CASE StopsScan(f) = {} /\ i \in Empty /\ \A j \in Empty : i <= j
  BY <1>1, <1>2, <1>5 DEF Empty
<1>6. QED
  BY <1>4, <1>5, CandidateIsSlot

LEMMA TakenSlotKeepsOrder ==
    ASSUME Typed, OneHole, NoDuplicateFilters, NEW f \in Filters, NEW i \in Candidates(f),
           slot' = [slot EXCEPT ![i] = IF @ = NULL THEN f ELSE @]
    PROVE  /\ slot' \in [Slots -> Filters \cup {NULL}] /\ slot'[i] # NULL
           /\ OneHole' /\ NoDuplicateFilters' /\ Occupied' = Occupied \cup {i}
           /\ \A o \in Occupied : slot'[o] = slot[o]
<1>1. i \in Slots /\ f # NULL
  BY CandidateIsSlot, SubscriptionAssumption
<1>2. CASE slot[i] # NULL
  <2>1. slot' = slot
    BY <1>1, <1>2 DEF Typed
  <2>2. QED
    BY <1>1, <1>2, <2>1 DEF Typed, OneHole, NoDuplicateFilters, Occupied
<1>3. CASE slot[i] = NULL
  <2>1. /\ slot'[i] = f /\ \A o \in Slots : o # i => slot'[o] = slot[o]
        /\ slot' \in [Slots -> Filters \cup {NULL}]
    BY <1>1, <1>3 DEF Typed
  <2>2. Occupied' = Occupied \cup {i} /\ i \notin Occupied
    BY <1>1, <1>3, <2>1 DEF Occupied
  <2>3. /\ \A o \in Occupied : slot[o] # f
        /\ \A j, k \in Slots \ Occupied : j < i /\ k < i => j = k
    BY <1>3, TakenSlotIsFresh
  <2>4. OneHole'
    BY <2>2, <2>3 DEF OneHole
  <2>5. NoDuplicateFilters'
    BY <2>1, <2>2, <2>3 DEF NoDuplicateFilters, Occupied
  <2>6. QED
    BY <1>1, <2>1, <2>2, <2>4, <2>5 DEF Occupied
<1>4. QED
  BY <1>2, <1>3

\* prvCompressSubscriptionList closes the holes and moves no filter onto another
LEMMA CompressKeepsOrder ==
    ASSUME Typed, NoDuplicateFilters, Compress
    PROVE  slot' \in [Slots -> Filters \cup {NULL}] /\ OneHole' /\ NoDuplicateFilters'
<1>1. /\ Occupied' = 1..Cardinality(Occupied)
      /\ \A i \in Occupied : Rank(i) \in Slots /\ slot'[Rank(i)] = slot[i]
  BY CompressFills
<1>2. \A k \in Occupied' : \E i \in Occupied : Rank(i) = k /\ slot'[k] = slot[i]
  BY <1>1, RankIsOnto
<1>3. slot' \in [Slots -> Filters \cup {NULL}]
  <2>1. DOMAIN slot' = Slots /\ slot' = [k \in Slots |-> slot'[k]]
    BY DEF Compress
  <2>2. ASSUME NEW k \in Slots PROVE slot'[k] \in Filters \cup {NULL}
    BY <1>2 DEF Occupied, Typed
  <2>3. QED
    BY <2>1, <2>2
<1>4. OneHole'
  BY <1>1, OccupiedIsFinite, SubscriptionAssumption DEF OneHole, Slots
<1>5. NoDuplicateFilters'
  BY <1>2 DEF NoDuplicateFilters
<1>6. QED
  BY <1>3, <1>4, <1>5

\* Every other step leaves the filters where they are
LEMMA SameFilters ==
    ASSUME TableInv, UNCHANGED slot, pc' \in [Tasks -> TaskStates], NoneLeaves'
    PROVE  TableInv'
BY DEF TableInv, Typed, OneHole, NoDuplicateFilters, Occupied

LEMMA TableInvStep ==
    ASSUME Unsubscribers = {}, TableInv, [Next]_vars
    PROVE  TableInv'
<1> USE DEF agentVars, tableVars, taskVars
<1>1. ASSUME NEW t \in Tasks, TaskStep(t) PROVE TableInv'
  <2>1. pc' \in [Tasks -> TaskStates] /\ NoneLeaves'
    BY <1>1 DEF TaskStep, Boot, Subscribe, NothingToSend, SendSubRequest, SubRequestAnswered,
         Unsubscribe, UnsubRequestAnswered, RemoveCallback, TableInv, Typed, TaskStates, NoneLeaves
  <2>2. CASE Subscribe(t)
    <3>1. FilterOf[t] \in Filters
      BY SubscriptionAssumption
    <3>2. PICK i \in Candidates(FilterOf[t]) :
            slot' = [slot EXCEPT ![i] = IF @ = NULL THEN FilterOf[t] ELSE @]
      BY <2>2 DEF Subscribe
    <3>3. QED
      BY <2>1, <3>1, <3>2, TakenSlotKeepsOrder DEF TableInv, Typed
  <2>3. CASE ~Subscribe(t)
    <3>1. UNCHANGED slot
      BY <1>1, <2>3 DEF TaskStep, Boot, NothingToSend, SendSubRequest, SubRequestAnswered,
           Unsubscribe, UnsubRequestAnswered, RemoveCallback, TableInv, NoneLeaves
    <3>2. QED
      BY <2>1, <3>1, SameFilters
  <2>4. QED
    BY <2>2, <2>3
<1>2. CASE AgentStep
  <2>1. UNCHANGED pc
    BY <1>2 DEF AgentStep, CommandLoop, SendRequest, RequestFails, AckRequest, SendList, AckList,
         ListFails, IncomingPublish, ConnectionLost, LeaveLoop, Reopen, CancelAll, LockTable,
         ConnectFails, ConnectClean, ConnectResumed, ConnectResubscribe
  <2>2. CASE ConnectClean
    <3>1. slot' = [i \in Slots |-> NULL] /\ Occupied' = {}
      BY <2>2 DEF ConnectClean, Occupied
    <3>2. QED
      BY <2>1, <3>1 DEF TableInv, Typed, NoneLeaves, OneHole, NoDuplicateFilters
  <2>3. CASE ConnectResubscribe /\ Compress
    BY <2>1, <2>3, CompressKeepsOrder DEF TableInv, Typed, NoneLeaves
  <2>4. CASE ~ConnectClean /\ ~(ConnectResubscribe /\ Compress)
    <3>1. UNCHANGED slot
      BY <1>2, <2>4 DEF AgentStep, CommandLoop, SendRequest, RequestFails, AckRequest, SendList,
           AckList, ListFails, IncomingPublish, ConnectionLost, LeaveLoop, Reopen, CancelAll,
           LockTable, ConnectFails, ConnectResumed, ConnectResubscribe
    <3>2. QED
      BY <2>1, <3>1, SameFilters DEF TableInv, Typed, NoneLeaves
  <2>5. QED
    BY <2>2, <2>3, <2>4
<1>3. CASE UNCHANGED vars
  BY <1>3, SameFilters DEF vars, TableInv, Typed, NoneLeaves
<1>4. QED
  BY <1>1, <1>2, <1>3 DEF Next

LEMMA TableInvInit == Init => TableInv
BY DEF Init, TableInv, Typed, NoneLeaves, OneHole, NoDuplicateFilters, Occupied, TaskStates

\* While no task unsubscribes, no filter is entered twice, for tables of any size: although
\* the scan stops at the second empty slot, nothing is ever behind it.
THEOREM OneSlotPerFilter ==
    ASSUME Unsubscribers = {}
    PROVE  Spec => []NoDuplicateFilters
<1>1. TableInv /\ [Next]_vars => TableInv'
  BY TableInvStep
<1>2. TableInv => NoDuplicateFilters
  BY DEF TableInv
<1>3. QED
  BY <1>1, <1>2, TableInvInit, PTL DEF Spec

-----------------------------------------------------------------------------
(* The callback of each task, as long as no task unsubscribes and no filter *)
(* is a prefix of another.                                                  *)

CallbacksTyped ==
    /\ cb \in [Slots -> [task : Tasks \cup {NULL}, slot : {0} \cup Slots]]
    /\ idx \in [Tasks -> {0} \cup Slots]

\* A callback is of no task and no slot, or bound to the filter of its task
Bound ==
    \A k \in Slots : /\ cb[k].slot = 0 => cb[k].task = NULL
                     /\ cb[k].slot # 0 => /\ cb[k].task \in Tasks
                                          /\ slot[cb[k].slot] = FilterOf[cb[k].task]

OneEach == \A k, l \in Slots : cb[k].task = cb[l].task /\ cb[k].task # NULL => k = l

Entered == \A t \in Tasks : idx[t] # 0 => \E k \in Slots : cb[k].task = t

\* The table is emptied only before a task has been online
CleanStart ==
    clean => agent # "online" /\ \A t \in Tasks : pc[t] = "boot" /\ idx[t] = 0

CallbackInv == TableInv /\ CallbacksTyped /\ Bound /\ OneEach /\ Entered /\ CleanStart

LEMMA CallbackInvGives == CallbackInv => CallbackForFilter
<1> SUFFICES ASSUME CallbackInv, NEW t \in Tasks, idx[t] # 0
             PROVE  \E k \in Slots : CallbacksOf(t) = {k} /\ slot[cb[k].slot] = FilterOf[t]
  BY DEF CallbackForFilter
<1>1. PICK k \in Slots : cb[k].task = t
  BY DEF CallbackInv, Entered
<1>2. t # NULL
  BY SubscriptionAssumption
<1>3. CallbacksOf(t) = {k}
  BY <1>1, <1>2 DEF CallbackInv, OneEach, CallbacksOf
<1>4. slot[cb[k].slot] = FilterOf[t]
  BY <1>1, <1>2 DEF CallbackInv, Bound
<1>5. QED
  BY <1>3, <1>4

\* A task is entered: a second callback of its own would be bound to the same filter, so to
\* the same slot, and have been found
LEMMA SubscribeBinds ==
    ASSUME Prefixes = {}, CallbackInv, TableInv', NEW t \in Tasks, Subscribe(t)
    PROVE  CallbackInv'
<1> DEFINE f == FilterOf[t]
<1>1. f \in Filters /\ f # NULL /\ t # NULL
  BY SubscriptionAssumption
<1>2. PICK i \in Candidates(f), k \in Slots :
        /\ k \in CallbackEntries(t, i)
        /\ slot' = [slot EXCEPT ![i] = IF @ = NULL THEN f ELSE @]
        /\ cb' = [cb EXCEPT ![k] = [task |-> t, slot |-> i]]
        /\ idx' = [idx EXCEPT ![t] = i]
  BY DEF Subscribe
<1>3. i \in Slots /\ i # 0
  BY CandidateIsSlot, SubscriptionAssumption DEF Slots
<1>4. /\ \A o \in Occupied : slot'[o] = slot[o]
      /\ i \in Occupied'
  BY <1>1, <1>2, TakenSlotKeepsOrder DEF CallbackInv, TableInv
<1>5. slot'[i] = f
  <2>1. slot[i] = NULL \/ slot[i] = f
    BY CandidateIsSlot DEF StopsScan, Matches, Empty, Occupied
  <2>2. QED
    BY <1>2, <1>3, <2>1 DEF CallbackInv, TableInv, Typed
<1>6. /\ cb'[k] = [task |-> t, slot |-> i] /\ \A l \in Slots : l # k => cb'[l] = cb[l]
      /\ cb' \in [Slots -> [task : Tasks \cup {NULL}, slot : {0} \cup Slots]]
  BY <1>2, <1>3 DEF CallbackInv, CallbacksTyped
<1>7. ASSUME NEW l \in Slots, cb[l].slot # 0
      PROVE  /\ cb[l].task \in Tasks /\ cb[l].slot \in Occupied
             /\ slot'[cb[l].slot] = FilterOf[cb[l].task]
  <2>1. cb[l].task \in Tasks /\ slot[cb[l].slot] = FilterOf[cb[l].task]
    BY <1>7 DEF CallbackInv, Bound
  <2>2. cb[l].slot \in Slots
    BY <1>7 DEF CallbackInv, CallbacksTyped
  <2>3. cb[l].slot \in Occupied
    BY <2>1, <2>2, SubscriptionAssumption DEF Occupied
  <2>4. QED
    BY <1>4, <2>1, <2>3
<1>8. Bound'
  BY <1>3, <1>5, <1>6, <1>7 DEF CallbackInv, Bound
<1>9. ASSUME NEW l \in Slots, cb[l].task = t PROVE l = k
  <2>1. cb[l].slot # 0
    BY <1>1, <1>9 DEF CallbackInv, Bound
  <2>2. cb[l].slot \in Occupied' /\ slot'[cb[l].slot] = f
    BY <1>1, <1>7, <1>9, <2>1 DEF Occupied
  <2>3. cb[l].slot = i
    BY <1>4, <1>5, <2>2 DEF TableInv, NoDuplicateFilters
  <2>4. cb[l] = [task |-> t, slot |-> i]
    BY <1>9, <2>3 DEF CallbackInv, CallbacksTyped
  <2>5. l \in Own(t, i)
    BY <2>4 DEF Own
  <2>6. k \in Own(t, i)
    <3>1. Own(t, i) \in SUBSET Slots
      BY DEF Own
    <3>2. QED
      BY <1>2, <2>5, <3>1, FirstIsLeast DEF CallbackEntries
  <2>7. cb[k].task = t
    BY <2>6 DEF Own
  <2>8. QED
    BY <1>1, <1>9, <2>7 DEF CallbackInv, OneEach
<1>10. OneEach'
  BY <1>6, <1>9 DEF CallbackInv, OneEach
<1>11. idx' \in [Tasks -> {0} \cup Slots]
  BY <1>2, <1>3 DEF CallbackInv, CallbacksTyped
<1>12. Entered'
  <2>1. ASSUME NEW u \in Tasks, u # t, idx'[u] # 0 PROVE \E l \in Slots : cb'[l].task = u
    <3>1. PICK l \in Slots : cb[l].task = u
      BY <1>2, <2>1 DEF CallbackInv, CallbacksTyped, Entered
    <3>2. l # k
      <4>1. cb[k].task \in {t, NULL}
        <5>1. k \in Own(t, i) \/ k \in Free
          <6>1. Own(t, i) \in SUBSET Slots /\ Free \in SUBSET Slots
            BY DEF Own, Free
          <6>2. QED
            BY <1>2, <6>1, FirstIsLeast DEF CallbackEntries
        <5>2. QED
          BY <5>1 DEF Own, Free, CallbackInv, Bound
      <4>2. QED
        BY <2>1, <3>1, <4>1, SubscriptionAssumption
    <3>3. QED
      BY <1>6, <3>1, <3>2
  <2>2. QED
    BY <1>6, <2>1 DEF Entered
<1>13. CleanStart'
  BY DEF Subscribe, agentVars, CallbackInv, CleanStart
<1>14. QED
  BY <1>6, <1>8, <1>10, <1>11, <1>12, <1>13 DEF CallbackInv, CallbacksTyped

\* The callbacks move with their filters
LEMMA CompressBinds ==
    ASSUME CallbackInv, TableInv', Compress, UNCHANGED <<idx, pc, clean>>, ~clean
    PROVE  CallbackInv'
<1>1. ASSUME NEW k \in Slots
      PROVE  /\ cb'[k].task = cb[k].task
             /\ cb[k].slot = 0 => cb'[k].slot = 0
             /\ cb[k].slot # 0 => /\ cb'[k].slot \in Slots
                                  /\ slot'[cb'[k].slot] = slot[cb[k].slot]
             /\ cb'[k] \in [task : Tasks \cup {NULL}, slot : {0} \cup Slots]
  <2>1. cb[k] \in [task : Tasks \cup {NULL}, slot : {0} \cup Slots]
    BY DEF CallbackInv, CallbacksTyped
  <2>2. CASE cb[k].slot = 0
    <3>1. cb[k].slot \notin Occupied
      BY <2>2, SubscriptionAssumption DEF Occupied, Slots
    <3>2. cb'[k] = cb[k]
      BY <3>1 DEF Compress
    <3>3. QED
      BY <2>1, <2>2, <3>2
  <2>3. CASE cb[k].slot # 0
    <3>1. cb[k].slot \in Occupied
      BY <2>1, <2>3, SubscriptionAssumption DEF Occupied, CallbackInv, Bound
    <3>2. cb'[k] = [cb[k] EXCEPT !.slot = Rank(cb[k].slot)]
      BY <3>1 DEF Compress
    <3>3. Rank(cb[k].slot) \in Slots /\ slot'[Rank(cb[k].slot)] = slot[cb[k].slot]
      BY <3>1, CompressFills
    <3>4. QED
      BY <2>1, <2>3, <3>2, <3>3
  <2>4. QED
    BY <2>2, <2>3
<1>2. cb' \in [Slots -> [task : Tasks \cup {NULL}, slot : {0} \cup Slots]]
  <2>1. cb' = [k \in Slots |-> cb'[k]]
    BY DEF Compress
  <2>2. QED
    BY <1>1, <2>1
<1>3. Bound'
  <2>1. ASSUME NEW k \in Slots
        PROVE  /\ cb'[k].slot = 0 => cb'[k].task = NULL
               /\ cb'[k].slot # 0 => /\ cb'[k].task \in Tasks
                                     /\ slot'[cb'[k].slot] = FilterOf[cb'[k].task]
    <3>1. 0 \notin Slots
      BY SubscriptionAssumption DEF Slots
    <3>2. QED
      BY <1>1, <3>1 DEF CallbackInv, Bound
  <2>2. QED
    BY <2>1 DEF Bound
<1>4. OneEach' /\ Entered'
  BY <1>1 DEF CallbackInv, OneEach, Entered
<1>5. QED
  BY <1>2, <1>3, <1>4 DEF CallbackInv, CallbacksTyped, CleanStart

\* A step that leaves the table and the index of every task alone
LEMMA SameCallbacks ==
    ASSUME CallbackInv, TableInv', UNCHANGED <<slot, cb, idx>>, CleanStart'
    PROVE  CallbackInv'
BY DEF CallbackInv, CallbacksTyped, Bound, OneEach, Entered

LEMMA CallbackInvStep ==
    ASSUME Unsubscribers = {}, Prefixes = {}, CallbackInv, [Next]_vars
    PROVE  CallbackInv'
<1> USE DEF agentVars, tableVars, taskVars
<1>1. TableInv'
  BY TableInvStep DEF CallbackInv
<1>2. ASSUME NEW t \in Tasks, TaskStep(t) PROVE CallbackInv'
  <2>1. CASE Subscribe(t)
    BY <1>1, <2>1, SubscribeBinds
  <2>2. CASE ~Subscribe(t)
    <3>1. UNCHANGED <<slot, cb, idx>> /\ CleanStart'
      BY <1>2, <2>2 DEF TaskStep, Boot, NothingToSend, SendSubRequest, SubRequestAnswered,
           Unsubscribe, UnsubRequestAnswered, RemoveCallback, CallbackInv, TableInv, Typed,
           NoneLeaves, CleanStart
    <3>2. QED
      BY <1>1, <3>1, SameCallbacks
  <2>3. QED
    BY <2>1, <2>2
<1>3. CASE AgentStep
  <2>1. CASE ConnectClean
    <3>1. /\ \A t \in Tasks : idx[t] = 0
          /\ cb' = [k \in Slots |-> NoCallback] /\ slot' = [k \in Slots |-> NULL]
          /\ UNCHANGED idx /\ ~clean'
      BY <2>1 DEF ConnectClean, CallbackInv, CleanStart
    <3>2. \A k \in Slots : cb'[k].task = NULL /\ cb'[k].slot = 0
      BY <3>1 DEF NoCallback
    <3>3. CallbacksTyped'
      BY <3>1 DEF CallbackInv, CallbacksTyped, NoCallback
    <3>4. Bound' /\ OneEach' /\ Entered' /\ CleanStart'
      BY <3>1, <3>2 DEF Bound, OneEach, Entered, CleanStart
    <3>5. QED
      BY <1>1, <3>3, <3>4 DEF CallbackInv
  <2>2. CASE ConnectResubscribe /\ Compress
    BY <1>1, <2>2, CompressBinds DEF ConnectResubscribe
  <2>3. CASE ~ConnectClean /\ ~(ConnectResubscribe /\ Compress)
    <3>1. UNCHANGED <<slot, cb, idx, pc, clean>>
      BY <1>3, <2>3 DEF AgentStep, CommandLoop, SendRequest, RequestFails, AckRequest, SendList,
           AckList, ListFails, IncomingPublish, ConnectionLost, LeaveLoop, Reopen, CancelAll,
           LockTable, ConnectFails, ConnectResumed, ConnectResubscribe
    <3>2. clean => agent' # "online"
      <4>1. ASSUME clean PROVE agent # "online"
        BY <4>1 DEF CallbackInv, CleanStart
      <4>2. QED
        BY <1>3, <2>3, <4>1 DEF AgentStep, CommandLoop, SendRequest, RequestFails, AckRequest,
           SendList, AckList, ListFails, IncomingPublish, ConnectionLost, LeaveLoop, Reopen,
           CancelAll, CancelLists, LockTable, ConnectFails, ConnectResumed, ConnectResubscribe
    <3>3. QED
      BY <1>1, <3>1, <3>2, SameCallbacks DEF CallbackInv, CleanStart
  <2>4. QED
    BY <2>1, <2>2, <2>3
<1>4. CASE UNCHANGED vars
  BY <1>1, <1>4, SameCallbacks DEF vars, CallbackInv, CleanStart
<1>5. QED
  BY <1>2, <1>3, <1>4 DEF Next

LEMMA CallbackInvInit == Init => CallbackInv
<1> SUFFICES ASSUME Init PROVE CallbackInv
  OBVIOUS
<1>1. \A k \in Slots : cb[k].task = NULL /\ cb[k].slot = 0
  BY DEF Init, NoCallback
<1>2. CallbacksTyped
  BY DEF Init, CallbacksTyped, NoCallback
<1>3. Bound /\ OneEach /\ Entered /\ CleanStart
  BY <1>1 DEF Init, Bound, OneEach, Entered, CleanStart
<1>4. QED
  BY <1>2, <1>3, TableInvInit DEF CallbackInv

\* Each task that MqttAgent_SubscribeSync has entered has one callback, and it is bound to
\* the filter it asked for, through retries, lost sessions and prvUpdateCallbackRefs: for
\* every number of tasks and slots, if no filter begins another and no task unsubscribes.
THEOREM CallbackIsForFilter ==
    ASSUME Unsubscribers = {}, Prefixes = {}
    PROVE  Spec => []CallbackForFilter
<1>1. CallbackInv /\ [Next]_vars => CallbackInv'
  BY CallbackInvStep
<1>2. QED
  BY <1>1, CallbackInvInit, CallbackInvGives, PTL DEF Spec

-----------------------------------------------------------------------------
(* Types, for every table and with tasks that unsubscribe: the count of     *)
(* occupied slots, which neither underflows nor passes the table, is exact. *)

TypeInv ==
    /\ TypeOK
    /\ subCount = Cardinality(Occupied)
    /\ lists + flying <= MaxLists
    /\ agent = "connect" => flying = 0
    /\ \A t \in Tasks : /\ pc[t] \in {"check", "wait"} => idx[t] # 0
                        /\ request[t] = "sent" => sentFilter[t] # NULL

\* A filter is put into slot i, or is there already
LEMMA CountsTaken ==
    ASSUME slot \in [Slots -> Filters \cup {NULL}], subCount = Cardinality(Occupied),
           NEW i \in Slots, NEW f \in Filters,
           slot' = [slot EXCEPT ![i] = IF @ = NULL THEN f ELSE @], subCount' = CountAfter(i)
    PROVE  subCount' = Cardinality(Occupied)' /\ subCount' \in 0..NumSlots
<1>1. f # NULL
  BY SubscriptionAssumption
<1>2. Occupied' = Occupied \cup {i}
  BY <1>1 DEF Occupied
<1>3. subCount' = Cardinality(Occupied')
  <2>1. CASE slot[i] = NULL
    BY <1>2, <2>1, OccupiedIsFinite, FS_AddElement DEF Occupied, CountAfter
  <2>2. CASE slot[i] # NULL
    <3>1. Occupied' = Occupied
      BY <1>2, <2>2 DEF Occupied
    <3>2. QED
      BY <2>2, <3>1 DEF CountAfter
  <2>3. QED
    BY <2>1, <2>2
<1>4. QED
  BY <1>2, <1>3, OccupiedBound

LEMMA SubscribeTyped ==
    ASSUME TypeInv, NEW t \in Tasks, Subscribe(t)
    PROVE  TypeInv'
<1> DEFINE f == FilterOf[t]
<1>1. f \in Filters
  BY SubscriptionAssumption
<1>2. PICK i \in Candidates(f), k \in Slots :
        /\ k \in Free => count[i] < MaxCount
        /\ slot' = [slot EXCEPT ![i] = IF @ = NULL THEN f ELSE @]
        /\ subCount' = CountAfter(i)
        /\ cb' = [cb EXCEPT ![k] = [task |-> t, slot |-> i]]
        /\ count' = IF k \in Free THEN [count EXCEPT ![i] = @ + 1] ELSE count
        /\ idx' = [idx EXCEPT ![t] = i]
  BY DEF Subscribe
<1>3. i \in Slots
  BY CandidateIsSlot
<1>4. subCount' = Cardinality(Occupied)' /\ subCount' \in 0..NumSlots
  BY <1>1, <1>2, <1>3, CountsTaken DEF TypeInv, TypeOK
<1>5. ack' \in [Slots -> Statuses]
  BY DEF Subscribe, TypeInv, TypeOK, Statuses
<1>6. count' \in [Slots -> 0..MaxCount]
  BY <1>2, <1>3, SubscriptionAssumption DEF TypeInv, TypeOK
<1>7. cb' \in [Slots -> [task : Tasks \cup {NULL}, slot : {0} \cup Slots]]
  BY <1>2, <1>3 DEF TypeInv, TypeOK
<1>8. /\ slot' \in [Slots -> Filters \cup {NULL}] /\ idx' \in [Tasks -> {0} \cup Slots]
      /\ pc' = [pc EXCEPT ![t] = "check"] /\ pc' \in [Tasks -> TaskStates]
  BY <1>1, <1>2, <1>3 DEF Subscribe, TypeInv, TypeOK, TaskStates
<1>9. \A u \in Tasks : pc'[u] \in {"check", "wait"} => idx'[u] # 0
  BY <1>2, <1>3, <1>8, SubscriptionAssumption DEF TypeInv, TypeOK, Slots
<1>10. UNCHANGED <<agentVars, left, requestVars, brokerVars>>
  BY DEF Subscribe
<1>11. QED
  BY <1>4, <1>5, <1>6, <1>7, <1>8, <1>9, <1>10
     DEF agentVars, requestVars, brokerVars, TypeInv, TypeOK

LEMMA UnsubscribeTyped ==
    ASSUME TypeInv, NEW t \in Tasks, Unsubscribe(t)
    PROVE  TypeInv'
<1> USE DEF agentVars, brokerVars, TypeInv, TypeOK, TaskStates
<1>1. CASE SlotsOf(FilterOf[t]) = {}
  <2>1. left' \in [Tasks -> 0..MaxCount]
    BY <1>1, SubscriptionAssumption DEF Unsubscribe
  <2>2. QED
    BY <1>1, <2>1 DEF Unsubscribe, Occupied
<1>2. CASE SlotsOf(FilterOf[t]) # {}
  <2> DEFINE i == FirstOf(SlotsOf(FilterOf[t]))
  <2>1. i \in Slots
    BY <1>2, FirstIsLeast DEF SlotsOf
  <2>2. left' \in [Tasks -> 0..MaxCount] /\ count' \in [Slots -> 0..MaxCount]
    BY <1>2, <2>1, SubscriptionAssumption DEF Unsubscribe
  <2>3. /\ pc' = [pc EXCEPT ![t] = "unsubWait"] \/ pc' = [pc EXCEPT ![t] = "remove"]
        /\ request' = [request EXCEPT ![t] = "queued"] \/ request' = request
    BY <1>2 DEF Unsubscribe
  <2>4. UNCHANGED <<slot, ack, subCount, cb, agentVars, idx, sentFilter, brokerVars>>
    BY DEF Unsubscribe
  <2>5. QED
    BY <2>2, <2>3, <2>4 DEF Occupied
<1>3. QED
  BY <1>1, <1>2

LEMMA RemoveTyped ==
    ASSUME TypeInv, NEW t \in Tasks, RemoveCallback(t)
    PROVE  TypeInv'
<1> DEFINE found == {i \in SlotsOf(FilterOf[t]) : count[i] = 0}
           i     == FirstOf(found)
<1>1. /\ pc' = [pc EXCEPT ![t] = "idle"] /\ pc' \in [Tasks -> TaskStates]
      /\ left' \in [Tasks -> 0..MaxCount]
  BY SubscriptionAssumption DEF RemoveCallback, TypeInv, TypeOK, TaskStates
<1>2. UNCHANGED <<agentVars, idx, requestVars, brokerVars>>
  BY DEF RemoveCallback
<1>3. CASE UNCHANGED tableVars
  BY <1>1, <1>2, <1>3
     DEF tableVars, agentVars, requestVars, brokerVars, TypeInv, TypeOK, Occupied
<1>4. CASE found # {} /\ ~(UNCHANGED tableVars)
  <2>1. i \in Occupied /\ i \in Slots
    <3>1. found \in SUBSET Slots /\ \A j \in found : slot[j] = FilterOf[t]
      BY DEF SlotsOf
    <3>2. QED
      BY <1>4, <3>1, FirstIsLeast, SubscriptionAssumption DEF Occupied
  <2>2. cb' \in [Slots -> [task : Tasks \cup {NULL}, slot : {0} \cup Slots]]
    <3>1. \E k : cb' = [cb EXCEPT ![k] = NoCallback]
      BY <1>4 DEF RemoveCallback
    <3>2. NoCallback \in [task : Tasks \cup {NULL}, slot : {0} \cup Slots]
      BY DEF NoCallback
    <3>3. QED
      BY <3>1, <3>2 DEF TypeInv, TypeOK
  <2>3. CASE left[t] = 1
    <3>1. /\ slot' = [slot EXCEPT ![i] = NULL] /\ UNCHANGED count
          /\ ack' = [ack EXCEPT ![i] = "failure"]
          /\ subCount' = IF subCount > 0 THEN subCount - 1 ELSE 0
      BY <1>4, <2>3 DEF RemoveCallback
    <3>2. Occupied' = Occupied \ {i}
      BY <2>1, <3>1 DEF Occupied, TypeInv, TypeOK
    <3>3. Cardinality(Occupied') = Cardinality(Occupied) - 1
      BY <2>1, <3>2, OccupiedIsFinite, FS_RemoveElement
    <3>4. subCount' = Cardinality(Occupied') /\ subCount' \in 0..NumSlots
      <4>1. Cardinality(Occupied) # 0
        BY <2>1, OccupiedIsFinite, FS_EmptySet
      <4>2. QED
        BY <3>1, <3>3, <4>1, OccupiedIsFinite, SubscriptionAssumption DEF TypeInv
    <3>5. slot' \in [Slots -> Filters \cup {NULL}] /\ ack' \in [Slots -> Statuses]
      BY <3>1 DEF TypeInv, TypeOK, Statuses
    <3>6. QED
      BY <1>1, <1>2, <2>2, <3>1, <3>4, <3>5
         DEF agentVars, requestVars, brokerVars, TypeInv, TypeOK
  <2>4. CASE left[t] # 1
    <3>1. UNCHANGED <<slot, ack, subCount, count>>
      BY <1>4, <2>4 DEF RemoveCallback
    <3>2. QED
      BY <1>1, <1>2, <2>2, <3>1
         DEF agentVars, requestVars, brokerVars, TypeInv, TypeOK, Occupied
  <2>5. QED
    BY <2>3, <2>4
<1>5. QED
  BY <1>3, <1>4 DEF RemoveCallback

LEMMA TaskTyped ==
    ASSUME TypeInv, NEW t \in Tasks, TaskStep(t)
    PROVE  TypeInv'
<1> USE DEF tableVars, agentVars, requestVars, brokerVars, TypeInv, TypeOK, TaskStates,
            Statuses, Occupied
<1>1. CASE Boot(t)
  BY <1>1 DEF Boot
<1>2. CASE NothingToSend(t)
  BY <1>2 DEF NothingToSend
<1>3. CASE SendSubRequest(t)
  BY <1>3 DEF SendSubRequest
<1>4. CASE SubRequestAnswered(t)
  <2>1. /\ ack' \in [Slots -> Statuses] /\ pc' \in [Tasks -> TaskStates]
        /\ \A u \in Tasks : pc'[u] \in {"check", "wait"} => pc[u] = pc'[u]
    BY <1>4 DEF SubRequestAnswered
  <2>2. /\ request' = [request EXCEPT ![t] = "none"]
        /\ sentFilter' = [sentFilter EXCEPT ![t] = NULL]
        /\ UNCHANGED <<slot, count, subCount, cb, agentVars, idx, left, brokerVars>>
    BY <1>4 DEF SubRequestAnswered
  <2>3. QED
    BY <2>1, <2>2
<1>5. CASE UnsubRequestAnswered(t)
  BY <1>5 DEF UnsubRequestAnswered
<1>6. QED
  BY <1>1, <1>2, <1>3, <1>4, <1>5, SubscribeTyped, UnsubscribeTyped, RemoveTyped DEF TaskStep

\* Resubscribe commands end without a SUBACK
LEMMA CancelTyped ==
    ASSUME TypeInv, NEW n, NEW next \in AgentStates, CancelLists(n, next)
    PROVE  /\ ack' \in [Slots -> Statuses] /\ locked' \in BOOLEAN
           /\ agent' \in AgentStates /\ agent' \in {next, "halted"}
BY DEF CancelLists, TypeInv, TypeOK, AgentStates

LEMMA CancelAllTyped ==
    ASSUME TypeInv, NEW next \in AgentStates, CancelAll(next)
    PROVE  TypeInv'
<1> USE DEF TypeInv, TypeOK
<1>1. PICK gone \in SUBSET {t \in Tasks : request[t] = "queued"}, n \in 0..lists :
        /\ request' = [t \in Tasks |-> IF t \in gone \/ request[t] = "sent"
                                          THEN "failed" ELSE request[t]]
        /\ lists' = lists - n
        /\ CancelLists(n + flying, next)
  BY DEF CancelAll
<1>2. /\ ack' \in [Slots -> Statuses] /\ locked' \in BOOLEAN
      /\ agent' \in AgentStates
  BY <1>1, CancelTyped
<1>3. /\ request' \in [Tasks -> {"none", "queued", "sent", "granted", "refused", "failed"}]
      /\ \A t \in Tasks : request'[t] # "sent"
  BY <1>1
<1>4. /\ lists' \in 0..MaxLists /\ flying' \in 0..MaxLists /\ flying' = 0
      /\ lists' + flying' <= MaxLists
  BY <1>1, SubscriptionAssumption DEF CancelAll
<1>5. broker' \subseteq Filters
  <2>1. PICK seen \in SUBSET {t \in Tasks : request[t] = "sent"} :
          LET added   == {sentFilter[t] : t \in {u \in seen : pc[u] = "wait"}}
              dropped == {sentFilter[t] : t \in {u \in seen : pc[u] = "unsubWait"}}
          IN  broker' = (broker \ dropped) \cup added
    BY DEF CancelAll
  <2>2. \A t \in seen : sentFilter[t] \in Filters
    OBVIOUS
  <2>3. QED
    BY <2>1, <2>2
<1>6. UNCHANGED <<slot, count, subCount, cb, clean, listLen, taskVars, sentFilter, granted>>
  BY DEF CancelAll
<1>7. QED
  BY <1>2, <1>3, <1>4, <1>5, <1>6 DEF taskVars, Occupied

LEMMA LoopTyped ==
    ASSUME TypeInv, CommandLoop
    PROVE  TypeInv'
<1> USE DEF tableVars, agentVars, taskVars, requestVars, brokerVars, TypeInv, TypeOK,
            AgentStates, Occupied
<1>1. ASSUME NEW t \in Tasks, SendRequest(t) PROVE TypeInv'
  <2> DEFINE f == IF pc[t] = "wait" THEN slot[idx[t]] ELSE FilterOf[t]
  <2>1. f \in Filters
    BY <1>1, SubscriptionAssumption DEF SendRequest
  <2>2. /\ request' = [request EXCEPT ![t] = "sent"]
        /\ sentFilter' = [sentFilter EXCEPT ![t] = f]
        /\ UNCHANGED <<tableVars, agentVars, taskVars, brokerVars>>
    BY <1>1 DEF SendRequest
  <2>3. f # NULL
    BY <1>1 DEF SendRequest
  <2> HIDE DEF f
  <2>4. QED
    BY <2>1, <2>2, <2>3
<1>2. ASSUME NEW t \in Tasks, RequestFails(t) PROVE TypeInv'
  BY <1>2 DEF RequestFails
<1>3. ASSUME NEW t \in Tasks, NEW status \in {"granted", "refused"}, AckRequest(t, status)
      PROVE  TypeInv'
  <2>1. sentFilter[t] \in Filters
    BY <1>3 DEF AckRequest
  <2>2. broker' \subseteq Filters /\ granted' \subseteq Filters
    BY <1>3, <2>1 DEF AckRequest
  <2>3. request' = [request EXCEPT ![t] = status]
        /\ UNCHANGED <<tableVars, agentVars, taskVars, sentFilter>>
    BY <1>3 DEF AckRequest
  <2>4. QED
    BY <2>2, <2>3
<1>4. Listed \subseteq Filters
  <2>1. ASSUME NEW i \in 1..listLen PROVE slot[i] \in Filters \cup {NULL}
    BY <2>1, SubscriptionAssumption DEF Slots
  <2>2. QED
    BY <2>1 DEF Listed
<1>5. ASSUME NEW fs \in SUBSET Listed, SendList(fs) PROVE TypeInv'
  <2>1. /\ lists' \in 0..MaxLists /\ flying' \in 0..MaxLists
        /\ lists' + flying' <= MaxLists /\ agent = "online"
    BY <1>5, SubscriptionAssumption DEF SendList
  <2>2. broker' \subseteq Filters
    BY <1>4, <1>5 DEF SendList
  <2>3. UNCHANGED <<tableVars, locked, agent, clean, listLen, taskVars, requestVars, granted>>
    BY <1>5 DEF SendList
  <2>4. QED
    BY <2>1, <2>2, <2>3
<1>6. ASSUME NEW fs \in SUBSET Listed, AckList(fs) PROVE TypeInv'
  <2>1. flying' \in 0..MaxLists /\ lists + flying' <= MaxLists
    BY <1>6, SubscriptionAssumption DEF AckList
  <2>2. broker' \subseteq Filters /\ granted' \subseteq Filters
    BY <1>4, <1>6 DEF AckList
  <2>3. /\ ack' \in [Slots -> Statuses] /\ locked' \in BOOLEAN
        /\ agent' \in {"online", "halted"}
    BY <1>6 DEF AckList, Statuses
  <2>4. UNCHANGED <<slot, count, subCount, cb, clean, lists, listLen, taskVars, requestVars>>
    BY <1>6 DEF AckList
  <2>5. QED
    BY <2>1, <2>2, <2>3, <2>4
<1>7. CASE ListFails
  <2>1. lists' \in 0..MaxLists /\ lists' + flying <= MaxLists
    BY <1>7, SubscriptionAssumption DEF ListFails
  <2>2. /\ ack' \in [Slots -> Statuses] /\ locked' \in BOOLEAN
        /\ agent' \in {"failing", "halted"}
    BY <1>7, CancelTyped DEF ListFails
  <2>3. UNCHANGED <<slot, count, subCount, cb, clean, flying, listLen, taskVars,
                    requestVars, brokerVars>>
    BY <1>7 DEF ListFails
  <2>4. QED
    BY <2>1, <2>2, <2>3
<1>8. CASE IncomingPublish \/ ConnectionLost
  BY <1>8 DEF IncomingPublish, ConnectionLost
<1>9. QED
  BY <1>1, <1>2, <1>3, <1>5, <1>6, <1>7, <1>8 DEF CommandLoop

LEMMA ResubscribeTyped ==
    ASSUME TypeInv, ConnectResubscribe
    PROVE  TypeInv'
<1>1. /\ broker' = {} /\ UNCHANGED <<clean, flying, taskVars, requestVars, granted>>
      /\ flying = 0
  BY DEF ConnectResubscribe, TypeInv
<1>2. CASE ~locked
  BY <1>1, <1>2
     DEF ConnectResubscribe, tableVars, taskVars, requestVars, TypeInv, TypeOK, AgentStates,
         Occupied
<1>3. CASE locked
  <2>1. Compress /\ UNCHANGED <<ack, count>>
    BY <1>3 DEF ConnectResubscribe, Compress
  <2>2. /\ Occupied' = 1..Cardinality(Occupied) /\ subCount' = Cardinality(Occupied)
        /\ \A i \in Occupied : Rank(i) \in Slots
    BY <2>1, CompressFills
  <2>3. subCount' = Cardinality(Occupied') /\ subCount' \in 0..NumSlots
    <3>1. Cardinality(1..subCount')
            = IF 1 > subCount' THEN 0 ELSE subCount' - 1 + 1
      BY <2>2, OccupiedIsFinite, FS_Interval
    <3>2. QED
      BY <2>2, <3>1, OccupiedIsFinite, SubscriptionAssumption
  <2>4. slot' \in [Slots -> Filters \cup {NULL}]
    <3>1. \A k \in Slots : slot'[k] \in Filters \cup {NULL}
      BY <2>1, RankIsInjective DEF Compress, Occupied, TypeInv, TypeOK
    <3>2. QED
      BY <2>1, <3>1 DEF Compress
  <2>5. cb' \in [Slots -> [task : Tasks \cup {NULL}, slot : {0} \cup Slots]]
    BY <2>1, <2>2 DEF Compress, TypeInv, TypeOK
  <2>6. /\ listLen' \in 0..NumSlots /\ locked' \in BOOLEAN
        /\ agent' \in {"online", "failing"}
        /\ lists' \in 0..MaxLists
    BY <1>3, <2>3, SubscriptionAssumption DEF ConnectResubscribe, TypeInv, TypeOK
  <2>7. \E n \in 0..MaxLists : lists' = n /\ flying' = flying
    BY <1>1, <2>6
  <2>8. lists' + flying' <= MaxLists
    BY <1>1, <2>7, SubscriptionAssumption
  <2>9. TypeOK'
    BY <1>1, <2>1, <2>3, <2>4, <2>5, <2>6
       DEF taskVars, requestVars, TypeInv, TypeOK, AgentStates
  <2>10. QED
    BY <1>1, <2>3, <2>6, <2>8, <2>9 DEF taskVars, requestVars, TypeInv
<1>4. QED
  BY <1>2, <1>3 DEF TypeInv, TypeOK

LEMMA AgentTyped ==
    ASSUME TypeInv, AgentStep
    PROVE  TypeInv'
<1> USE DEF tableVars, taskVars, requestVars, brokerVars, TypeInv, TypeOK, AgentStates,
            Statuses, Occupied
<1>1. CASE LeaveLoop \/ Reopen
  BY <1>1, CancelAllTyped DEF LeaveLoop, Reopen
<1>2. CASE LockTable
  BY <1>2 DEF LockTable
<1>3. CASE ConnectFails
  BY <1>3 DEF ConnectFails
<1>4. CASE ConnectClean
  <2>1. /\ slot' = [i \in Slots |-> NULL] /\ subCount' = 0 /\ Occupied' = {}
        /\ \A i \in Slots : slot'[i] = NULL
    BY <1>4 DEF ConnectClean
  <2>2. subCount' = Cardinality(Occupied')
    BY <2>1, FS_EmptySet
  <2>3. /\ slot' \in [Slots -> Filters \cup {NULL}] /\ count' \in [Slots -> 0..MaxCount]
        /\ cb' \in [Slots -> [task : Tasks \cup {NULL}, slot : {0} \cup Slots]]
        /\ ack' \in [Slots -> Statuses] /\ subCount' \in 0..NumSlots /\ listLen' \in 0..NumSlots
    BY <1>4, <2>1, SubscriptionAssumption DEF ConnectClean, NoCallback
  <2>4. /\ locked' = FALSE /\ clean' = FALSE /\ broker' = {} /\ agent' = "online"
        /\ UNCHANGED <<lists, flying, taskVars, requestVars, granted>>
    BY <1>4 DEF ConnectClean
  <2>5. QED
    BY <2>2, <2>3, <2>4
<1>5. CASE ConnectResumed
  BY <1>5 DEF ConnectResumed
<1>6. QED
  BY <1>1, <1>2, <1>3, <1>4, <1>5, LoopTyped, ResubscribeTyped DEF AgentStep

LEMMA TypeInvInit == Init => TypeInv
<1> SUFFICES ASSUME Init PROVE TypeInv
  OBVIOUS
<1>1. Occupied = {} /\ Cardinality(Occupied) = 0
  <2>1. Occupied = {}
    BY DEF Init, Occupied
  <2>2. QED
    BY <2>1, FS_EmptySet
<1>2. TypeOK
  BY SubscriptionAssumption
     DEF Init, TypeOK, Statuses, NoCallback, AgentStates, TaskStates
<1>3. QED
  BY <1>1, <1>2, SubscriptionAssumption DEF Init, TypeInv

LEMMA TypeInvStep == TypeInv /\ [Next]_vars => TypeInv'
<1> SUFFICES ASSUME TypeInv, [Next]_vars PROVE TypeInv'
  OBVIOUS
<1>1. CASE UNCHANGED vars
  BY <1>1 DEF vars, TypeInv, TypeOK, Occupied
<1>2. QED
  BY <1>1, TaskTyped, AgentTyped DEF Next

\* The counts of prvSubscriptionManager stay within the table through every compression,
\* failed connection and unsubscription: uxSubscriptionCount is at all times the number of
\* slots with a filter.
THEOREM TableIsTyped == Spec => []TypeOK
<1>1. TypeInv => TypeOK
  BY DEF TypeInv
<1>2. QED
  BY <1>1, TypeInvInit, TypeInvStep, PTL DEF Spec

-----------------------------------------------------------------------------
(* What tasks that unsubscribe leave of the others.  Compression moves the   *)
(* filters and the callbacks but not their counts, so that a filter with two *)
(* tasks can lose its slot to the first that leaves: the filters of the      *)
(* tasks that stay must be their own.                                        *)

Staying == Tasks \ Unsubscribers

\* No task that unsubscribes asks for the filter of one that stays, and no filter begins it
OwnFilters ==
    \A t \in Staying : /\ \A u \in Unsubscribers : FilterOf[u] # FilterOf[t]
                       /\ \A g \in Filters : <<g, FilterOf[t]>> \notin Prefixes

BoundForStaying ==
    \A k \in Slots : cb[k].task \in Staying => /\ cb[k].slot # 0
                                               /\ slot[cb[k].slot] = FilterOf[cb[k].task]

StayingEntered == \A t \in Staying : idx[t] # 0 => \E k \in Slots : cb[k].task = t

KeptInv == TypeInv /\ BoundForStaying /\ StayingEntered /\ CleanStart

LEMMA KeptInvGives == KeptInv => CallbackKept
BY DEF KeptInv, BoundForStaying, StayingEntered, CallbackKept, CallbacksOf, Staying

\* A callback of a task that stays is bound to a slot that is occupied
LEMMA StayingOccupies ==
    ASSUME KeptInv, NEW k \in Slots, cb[k].task \in Staying
    PROVE  cb[k].slot \in Occupied /\ slot[cb[k].slot] = FilterOf[cb[k].task]
<1>1. cb[k].slot # 0 /\ slot[cb[k].slot] = FilterOf[cb[k].task]
  BY DEF KeptInv, BoundForStaying
<1>2. cb[k].slot \in Slots
  BY <1>1 DEF KeptInv, TypeInv, TypeOK
<1>3. FilterOf[cb[k].task] # NULL
  BY SubscriptionAssumption DEF Staying
<1>4. QED
  BY <1>1, <1>2, <1>3 DEF Occupied

\* Whoever is entered takes a free callback or its own, in a slot that is empty or has its
\* filter
LEMMA SubscribeKeeps ==
    ASSUME OwnFilters, KeptInv, TypeInv', NEW t \in Tasks, Subscribe(t)
    PROVE  KeptInv'
<1> DEFINE f == FilterOf[t]
<1>1. f \in Filters /\ f # NULL /\ t # NULL
  BY SubscriptionAssumption
<1>2. PICK i \in Candidates(f), k \in Slots :
        /\ k \in CallbackEntries(t, i)
        /\ slot' = [slot EXCEPT ![i] = IF @ = NULL THEN f ELSE @]
        /\ cb' = [cb EXCEPT ![k] = [task |-> t, slot |-> i]]
        /\ idx' = [idx EXCEPT ![t] = i]
  BY DEF Subscribe
<1>3. i \in Slots /\ i # 0
  BY CandidateIsSlot, SubscriptionAssumption DEF Slots
<1>4. \A o \in Occupied : slot'[o] = slot[o]
  BY <1>2, <1>3 DEF Occupied, KeptInv, TypeInv, TypeOK
<1>5. t \in Staying => slot'[i] = f
  <2>1. t \in Staying => slot[i] = NULL \/ slot[i] = f
    <3>1. slot[i] = NULL \/ Matches(slot[i], f)
      BY <1>3, CandidateIsSlot DEF StopsScan, Empty, Occupied
    <3>2. slot[i] \in Filters \cup {NULL}
      BY <1>3 DEF KeptInv, TypeInv, TypeOK
    <3>3. QED
      BY <3>1, <3>2 DEF Matches, OwnFilters
  <2>2. QED
    BY <1>2, <1>3, <2>1 DEF KeptInv, TypeInv, TypeOK
<1>6. cb'[k] = [task |-> t, slot |-> i] /\ \A l \in Slots : l # k => cb'[l] = cb[l]
  BY <1>2, <1>3 DEF KeptInv, TypeInv, TypeOK
<1>7. cb[k].task = t \/ cb[k].task \notin Staying
  <2>1. k \in Own(t, i) \/ k \in Free
    <3>1. Own(t, i) \in SUBSET Slots /\ Free \in SUBSET Slots
      BY DEF Own, Free
    <3>2. QED
      BY <1>2, <3>1, FirstIsLeast DEF CallbackEntries
  <2>2. QED
    BY <2>1 DEF Own, Free, KeptInv, BoundForStaying
<1>8. BoundForStaying'
  <2>1. ASSUME NEW l \in Slots, cb'[l].task \in Staying
        PROVE  cb'[l].slot # 0 /\ slot'[cb'[l].slot] = FilterOf[cb'[l].task]
    <3>1. CASE l = k
      BY <1>3, <1>5, <1>6, <2>1, <3>1
    <3>2. CASE l # k
      <4>1. cb[l].slot \in Occupied /\ slot[cb[l].slot] = FilterOf[cb[l].task]
        BY <1>6, <2>1, <3>2, StayingOccupies
      <4>2. cb[l].slot # 0
        BY <4>1, SubscriptionAssumption DEF Occupied, Slots
      <4>3. QED
        BY <1>4, <1>6, <3>2, <4>1, <4>2
    <3>3. QED
      BY <3>1, <3>2
  <2>2. QED
    BY <2>1 DEF BoundForStaying
<1>9. StayingEntered'
  <2>1. ASSUME NEW u \in Staying, idx'[u] # 0 PROVE \E l \in Slots : cb'[l].task = u
    <3>1. CASE u = t
      BY <1>6, <3>1
    <3>2. CASE u # t
      <4>1. PICK l \in Slots : cb[l].task = u
        BY <1>2, <2>1, <3>2 DEF KeptInv, TypeInv, TypeOK, StayingEntered, Staying
      <4>2. l # k
        BY <1>7, <2>1, <3>2, <4>1
      <4>3. QED
        BY <1>6, <4>1, <4>2
    <3>3. QED
      BY <3>1, <3>2
  <2>2. QED
    BY <2>1 DEF StayingEntered
<1>10. CleanStart'
  BY DEF Subscribe, agentVars, KeptInv, CleanStart
<1>11. QED
  BY <1>8, <1>9, <1>10 DEF KeptInv

\* What is removed is a callback and a slot of the task that leaves
LEMMA RemoveKeeps ==
    ASSUME OwnFilters, KeptInv, TypeInv', NEW t \in Unsubscribers, RemoveCallback(t)
    PROVE  KeptInv'
<1> DEFINE found == {i \in SlotsOf(FilterOf[t]) : count[i] = 0}
           i     == FirstOf(found)
           k     == FirstOf(Own(t, i))
<1>1. t \in Tasks /\ t \notin Staying
  BY SubscriptionAssumption DEF Staying
<1>2. CleanStart' /\ UNCHANGED idx
  BY <1>1 DEF RemoveCallback, agentVars, KeptInv, CleanStart
<1>3. CASE found = {} \/ Own(t, i) = {}
  <2>1. UNCHANGED <<slot, cb>>
    BY <1>3 DEF RemoveCallback, tableVars
  <2>2. QED
    BY <1>2, <2>1 DEF KeptInv, BoundForStaying, StayingEntered
<1>4. CASE found # {} /\ Own(t, i) # {}
  <2>1. i \in Slots /\ slot[i] = FilterOf[t]
    <3>1. found \in SUBSET Slots /\ \A j \in found : slot[j] = FilterOf[t]
      BY DEF SlotsOf
    <3>2. QED
      BY <1>4, <3>1, FirstIsLeast
  <2>2. k \in Slots /\ cb[k].task = t
    <3>1. Own(t, i) \in SUBSET Slots /\ \A j \in Own(t, i) : cb[j].task = t
      BY DEF Own
    <3>2. QED
      BY <1>4, <3>1, FirstIsLeast
  <2>3. /\ cb' = [cb EXCEPT ![k] = NoCallback]
        /\ slot' = [slot EXCEPT ![i] = NULL] \/ slot' = slot
    BY <1>4 DEF RemoveCallback
  <2> HIDE DEF i, k
  <2>4. cb'[k].task = NULL /\ \A l \in Slots : l # k => cb'[l] = cb[l]
    BY <2>2, <2>3 DEF KeptInv, TypeInv, TypeOK, NoCallback
  <2>5. \A o \in Occupied : o # i => slot'[o] = slot[o]
    BY <2>1, <2>3 DEF Occupied, KeptInv, TypeInv, TypeOK
  <2>6. NULL \notin Staying
    BY SubscriptionAssumption DEF Staying
  <2>7. ASSUME NEW l \in Slots, cb'[l].task \in Staying
        PROVE  cb'[l].slot # 0 /\ slot'[cb'[l].slot] = FilterOf[cb'[l].task]
    <3>1. cb'[l] = cb[l]
      BY <2>4, <2>6, <2>7
    <3>2. cb[l].slot \in Occupied /\ slot[cb[l].slot] = FilterOf[cb[l].task]
      BY <2>7, <3>1, StayingOccupies
    <3>3. cb[l].slot # i
      BY <2>1, <2>7, <3>1, <3>2 DEF OwnFilters
    <3>4. cb[l].slot # 0
      BY <3>2, SubscriptionAssumption DEF Occupied, Slots
    <3>5. QED
      BY <2>5, <3>1, <3>2, <3>3, <3>4
  <2>8. StayingEntered'
    BY <1>1, <1>2, <2>2, <2>4 DEF KeptInv, StayingEntered
  <2>9. QED
    BY <1>2, <2>7, <2>8 DEF KeptInv, BoundForStaying
<1>5. QED
  BY <1>3, <1>4

LEMMA CompressKeeps ==
    ASSUME KeptInv, TypeInv', Compress, UNCHANGED <<idx, pc, clean>>, ~clean
    PROVE  KeptInv'
<1>1. ASSUME NEW k \in Slots PROVE cb'[k].task = cb[k].task
  BY DEF Compress, KeptInv, TypeInv, TypeOK
<1>2. ASSUME NEW k \in Slots, cb[k].task \in Staying
      PROVE  cb'[k].slot # 0 /\ slot'[cb'[k].slot] = FilterOf[cb[k].task]
  <2>1. cb[k].slot \in Occupied /\ slot[cb[k].slot] = FilterOf[cb[k].task]
    BY <1>2, StayingOccupies
  <2>2. cb'[k].slot = Rank(cb[k].slot)
    BY <2>1 DEF Compress, KeptInv, TypeInv, TypeOK
  <2>3. Rank(cb[k].slot) \in Slots /\ slot'[Rank(cb[k].slot)] = slot[cb[k].slot]
    BY <2>1, CompressFills
  <2>4. QED
    BY <2>1, <2>2, <2>3, SubscriptionAssumption DEF Slots
<1>3. BoundForStaying' /\ StayingEntered'
  BY <1>1, <1>2 DEF KeptInv, BoundForStaying, StayingEntered
<1>4. QED
  BY <1>3 DEF KeptInv, CleanStart

LEMMA SameKept ==
    ASSUME KeptInv, TypeInv', UNCHANGED <<slot, cb, idx>>, CleanStart'
    PROVE  KeptInv'
BY DEF KeptInv, BoundForStaying, StayingEntered

\* Only a task that unsubscribes comes to the removal
Leaving == \A t \in Tasks : pc[t] \in {"unsubWait", "remove"} => t \in Unsubscribers

LEMMA LeavingStep == TypeInv /\ Leaving /\ [Next]_vars => Leaving'
<1> SUFFICES ASSUME TypeInv, Leaving, [Next]_vars PROVE Leaving'
  OBVIOUS
<1>1. ASSUME NEW t \in Tasks, TaskStep(t) PROVE Leaving'
  BY <1>1 DEF TaskStep, Boot, Subscribe, NothingToSend, SendSubRequest, SubRequestAnswered,
     Unsubscribe, UnsubRequestAnswered, RemoveCallback, TypeInv, TypeOK, Leaving
<1>2. CASE AgentStep
  <2>1. UNCHANGED pc
    BY <1>2 DEF taskVars, AgentStep, CommandLoop, SendRequest, RequestFails, AckRequest,
       SendList, AckList, ListFails, IncomingPublish, ConnectionLost, LeaveLoop, Reopen,
       CancelAll, LockTable, ConnectFails, ConnectClean, ConnectResumed, ConnectResubscribe
  <2>2. QED
    BY <2>1 DEF Leaving
<1>3. QED
  BY <1>1, <1>2 DEF Next, vars, Leaving

LEMMA KeptInvStep ==
    ASSUME OwnFilters, KeptInv, Leaving, [Next]_vars
    PROVE  KeptInv'
<1> USE DEF agentVars, tableVars, taskVars
<1>1. TypeInv'
  BY TypeInvStep DEF KeptInv
<1>2. ASSUME NEW t \in Tasks, TaskStep(t) PROVE KeptInv'
  <2>1. CASE Subscribe(t)
    BY <1>1, <2>1, SubscribeKeeps
  <2>2. CASE RemoveCallback(t)
    <3>1. t \in Unsubscribers
      BY <2>2 DEF RemoveCallback, Leaving
    <3>2. QED
      BY <1>1, <2>2, <3>1, RemoveKeeps
  <2>3. CASE ~Subscribe(t) /\ ~RemoveCallback(t)
    <3>1. UNCHANGED <<slot, cb, idx, agent, clean>>
      BY <1>2, <2>3 DEF TaskStep, Boot, NothingToSend, SendSubRequest, SubRequestAnswered,
           Unsubscribe, UnsubRequestAnswered
    <3>2. clean => pc[t] # "boot" \/ agent = "online"
      BY <1>2, <2>3 DEF TaskStep, Boot, NothingToSend, SendSubRequest, SubRequestAnswered,
           Unsubscribe, UnsubRequestAnswered
    <3>3. CleanStart'
      BY <3>1, <3>2 DEF KeptInv, CleanStart
    <3>4. QED
      BY <1>1, <3>1, <3>3, SameKept
  <2>4. QED
    BY <2>1, <2>2, <2>3
<1>3. CASE AgentStep
  <2>1. CASE ConnectClean
    <3>1. /\ \A t \in Tasks : idx[t] = 0
          /\ cb' = [k \in Slots |-> NoCallback]
          /\ UNCHANGED idx /\ ~clean'
      BY <2>1 DEF ConnectClean, KeptInv, CleanStart
    <3>2. \A k \in Slots : cb'[k].task \notin Staying
      BY <3>1, SubscriptionAssumption DEF NoCallback, Staying
    <3>3. QED
      BY <1>1, <3>1, <3>2 DEF KeptInv, BoundForStaying, StayingEntered, CleanStart, Staying
  <2>2. CASE ConnectResubscribe /\ Compress
    BY <1>1, <2>2, CompressKeeps DEF ConnectResubscribe
  <2>3. CASE ~ConnectClean /\ ~(ConnectResubscribe /\ Compress)
    <3>1. UNCHANGED <<slot, cb, idx, pc, clean>>
      BY <1>3, <2>3 DEF AgentStep, CommandLoop, SendRequest, RequestFails, AckRequest, SendList,
           AckList, ListFails, IncomingPublish, ConnectionLost, LeaveLoop, Reopen, CancelAll,
           LockTable, ConnectFails, ConnectResumed, ConnectResubscribe
    <3>2. clean => agent' # "online"
      <4>1. ASSUME clean PROVE agent # "online"
        BY <4>1 DEF KeptInv, CleanStart
      <4>2. QED
        BY <1>3, <2>3, <4>1 DEF AgentStep, CommandLoop, SendRequest, RequestFails, AckRequest,
           SendList, AckList, ListFails, IncomingPublish, ConnectionLost, LeaveLoop, Reopen,
           CancelAll, CancelLists, LockTable, ConnectFails, ConnectResumed, ConnectResubscribe
    <3>3. QED
      BY <1>1, <3>1, <3>2, SameKept DEF KeptInv, CleanStart
  <2>4. QED
    BY <2>1, <2>2, <2>3
<1>4. CASE UNCHANGED vars
  BY <1>1, <1>4, SameKept DEF vars, KeptInv, CleanStart
<1>5. QED
  BY <1>2, <1>3, <1>4 DEF Next

\* While other tasks come and go on their filters, and whatever compression does to the counts,
\* a task that stays keeps its callback and its slot: prvUnsubscribe never removes either for
\* somebody else, if the filters of the tasks that stay are their own.
THEOREM OthersKeepCallbacks ==
    ASSUME OwnFilters
    PROVE  Spec => []CallbackKept
<1>1. Init => KeptInv /\ Leaving
  <2>1. ASSUME Init PROVE BoundForStaying /\ StayingEntered /\ CleanStart /\ Leaving
    <3>1. \A k \in Slots : cb[k].task \notin Staying
      BY <2>1, SubscriptionAssumption DEF Init, NoCallback, Staying
    <3>2. QED
      BY <2>1, <3>1 DEF Init, BoundForStaying, StayingEntered, CleanStart, Leaving, Staying
  <2>2. QED
    BY <2>1, TypeInvInit DEF KeptInv
<1>2. KeptInv /\ Leaving /\ [Next]_vars => KeptInv' /\ Leaving'
  BY KeptInvStep, LeavingStep DEF KeptInv
<1>3. QED
  BY <1>1, <1>2, KeptInvGives, PTL DEF Spec

=============================================================================
