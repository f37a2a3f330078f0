------------------------- MODULE SubscriptionManager -------------------------
(***************************************************************************)
(* The subscription table of the MQTT agent task: topic filters, the       *)
(* status of each at the broker, and the callbacks of the tasks bound to   *)
(* them, under one non-recursive mutex that the agent also holds from the  *)
(* end of a connection until the next session is set up.                   *)
(*                                                                         *)
(* Tasks add and remove callbacks (MqttAgent_SubscribeSync, _UnSubscribe-  *)
(* Sync); the agent compresses the table, subscribes all of it again when  *)
(* the broker has lost the session, and dispatches incoming publishes.     *)
(*                                                                         *)
(* Source: Appli/Common/app/mqtt/mqtt_agent_task.c.  The way of a command  *)
(* to the broker is MqttAgent's business: here a command is queued, sent,  *)
(* answered or cancelled, and one that is queued when a connection ends    *)
(* may stay in the queue, since the drain of MQTTAgent_CancelAll ends with *)
(* the notifications.                                                      *)
(* Every subscription asks for QoS 1, as in the firmware.                  *)
(***************************************************************************)
EXTENDS Naturals, FiniteSets

CONSTANTS
    Tasks,
    Filters,
    FilterOf,       \* the topic filter each task asks for
    Prefixes,       \* pairs <<f, g>> where the string f begins the string g
    Unsubscribers,  \* the tasks that may call MqttAgent_UnSubscribeSync
    NumSlots,       \* MQTT_AGENT_MAX_SUBSCRIPTIONS and MQTT_AGENT_MAX_CALLBACKS
    MaxCount,       \* bound on pulSubCbCount, which can grow without end
    MaxLists,       \* bound on resubscribe commands in the queue or in flight
    NULL

ASSUME SubscriptionAssumption ==
    /\ FilterOf \in [Tasks -> Filters]
    /\ Prefixes \subseteq Filters \X Filters
    /\ Unsubscribers \subseteq Tasks
    /\ NumSlots \in Nat \ {0}
    /\ MaxCount \in Nat \ {0}
    /\ MaxLists \in Nat \ {0}
    /\ NULL \notin Filters \cup Tasks

VARIABLES
    slot,       \* pxSubscriptions: the filter in each slot
    ack,        \* pxSubAckStatus
    count,      \* pulSubCbCount: callbacks per slot
    subCount,   \* uxSubscriptionCount
    cb,         \* pxCallbacks: task and slot index of each
    locked,     \* xMutex is held by the agent task (the others hold it within a step)
    agent,      \* where the agent task is
    clean,      \* xConnectInfo.cleanSession
    lists,      \* resubscribe commands in the agent's queue
    flying,     \* resubscribe commands sent and not acknowledged
    listLen,    \* xInitialSubscribeArgs.numSubscriptions
    pc,         \* where each task is
    idx,        \* uxTargetSubIdx of each task
    left,       \* ulCallbackCount of each task
    request,    \* the command of each task
    sentFilter, \* the filter in it when it was sent
    broker,     \* the filters of the client's session at the broker
    granted     \* those the broker has granted and not been asked to drop

tableVars   == <<slot, ack, count, subCount, cb>>
agentVars   == <<locked, agent, clean, lists, flying, listLen>>
taskVars    == <<pc, idx, left>>
requestVars == <<request, sentFilter>>
brokerVars  == <<broker, granted>>
vars == <<slot, ack, count, subCount, cb, locked, agent, clean, lists, flying,
          listLen, pc, idx, left, request, sentFilter, broker, granted>>

-----------------------------------------------------------------------------
(* The table *)

Slots == 1..NumSlots

Statuses == {"granted", "failure"}

NoCallback == [task |-> NULL, slot |-> 0]

Occupied == {i \in Slots : slot[i] # NULL}

\* strncmp( stored, requested, strlen( stored ) ) == 0
Matches(stored, requested) == stored = requested \/ <<stored, requested>> \in Prefixes

FirstOf(S) == CHOOSE i \in S : \A j \in S : i <= j

\* The scan of MqttAgent_SubscribeSync stops at a stored filter that matches, or at
\* the second empty slot, whose filter length of zero matches anything; it falls
\* back on the first empty slot.
StopsScan(f) ==
    {i \in Slots : IF slot[i] = NULL THEN \E j \in 1..(i - 1) : slot[j] = NULL
                                     ELSE Matches(slot[i], f)}

Empty == Slots \ Occupied

\* (mutant) the first empty slot is taken, the rest of the table not looked at
CandidatesFirstFit(f) == IF Empty # {} THEN {FirstOf(Empty)} ELSE StopsScan(f)

Candidates(f) == IF StopsScan(f) # {} THEN {FirstOf(StopsScan(f))}
                 ELSE IF Empty # {} THEN {FirstOf(Empty)} ELSE {}

\* The callback entry for task t in slot i: its own, else the first free one
Own(t, i) == {k \in Slots : cb[k] = [task |-> t, slot |-> i]}

Free == {k \in Slots : cb[k].slot = 0}

CallbackEntries(t, i) == IF Own(t, i) # {} THEN {FirstOf(Own(t, i))}
                         ELSE IF Free # {} THEN {FirstOf(Free)} ELSE {}

\* Position of slot i once the holes before it are filled
Rank(i) == Cardinality({j \in Occupied : j <= i})

\* (mutant) prvUpdateCallbackRefs left out
CompressLosesCallbacks ==
    /\ slot' = [k \in Slots |-> IF \E i \in Occupied : Rank(i) = k
                                  THEN slot[CHOOSE i \in Occupied : Rank(i) = k] ELSE NULL]
    /\ subCount' = Cardinality(Occupied)
    /\ UNCHANGED <<ack, count, cb>>

\* (mutant) the entries that moved are not counted
CompressMiscounts ==
    /\ slot' = [k \in Slots |-> IF \E i \in Occupied : Rank(i) = k
                                  THEN slot[CHOOSE i \in Occupied : Rank(i) = k] ELSE NULL]
    /\ cb' = [k \in Slots |-> IF cb[k].slot \in Occupied
                                THEN [cb[k] EXCEPT !.slot = Rank(cb[k].slot)] ELSE cb[k]]
    /\ subCount' = Cardinality({i \in Occupied : Rank(i) = i})
    /\ UNCHANGED <<ack, count>>

\* prvCompressSubscriptionList: filters move down into the holes and the callbacks
\* follow them; the statuses and the counts stay where they are.
Compress ==
    /\ slot' = [k \in Slots |-> IF \E i \in Occupied : Rank(i) = k
                                  THEN slot[CHOOSE i \in Occupied : Rank(i) = k] ELSE NULL]
    /\ cb' = [k \in Slots |-> IF cb[k].slot \in Occupied
                                THEN [cb[k] EXCEPT !.slot = Rank(cb[k].slot)] ELSE cb[k]]
    /\ subCount' = Cardinality(Occupied)
    /\ UNCHANGED <<ack, count>>

-----------------------------------------------------------------------------
(* MqttAgent_SubscribeSync *)

\* vSleepUntilMQTTAgentConnected, once per task
Boot(t) ==
    /\ pc[t] = "boot"
    /\ agent = "online"
    /\ pc' = [pc EXCEPT ![t] = "idle"]
    /\ UNCHANGED <<tableVars, agentVars, idx, left, requestVars, brokerVars>>

\* (mutant) every call counts
CountsEveryCall(i) == subCount + 1

CountAfter(i) == IF slot[i] = NULL THEN subCount + 1 ELSE subCount

\* The section under the mutex.  With no slot or no callback entry left the call
\* returns MQTTNoMemory and the task calls again.
Subscribe(t) ==
    LET f == FilterOf[t]
    IN  /\ pc[t] = "idle"
        /\ ~locked
        /\ \E i \in Candidates(f), k \in Slots :
              /\ k \in CallbackEntries(t, i)
              /\ k \in Free => count[i] < MaxCount
              /\ LET first == IF Empty # {} THEN FirstOf(Empty) ELSE 0
                     reset == {j \in {first} : 0 < j /\ j <= i}
                              \cup (IF slot[i] = NULL THEN {i} ELSE {})
                 IN  ack' = [j \in Slots |-> IF j \in reset THEN "failure" ELSE ack[j]]
              /\ slot' = [slot EXCEPT ![i] = IF @ = NULL THEN f ELSE @]
              /\ subCount' = CountAfter(i)
              /\ cb' = [cb EXCEPT ![k] = [task |-> t, slot |-> i]]
              /\ count' = IF k \in Free THEN [count EXCEPT ![i] = @ + 1] ELSE count
              /\ idx' = [idx EXCEPT ![t] = i]
        /\ pc' = [pc EXCEPT ![t] = "check"]
        /\ UNCHANGED <<agentVars, left, requestVars, brokerVars>>

\* After the mutex is given back: is a SUBSCRIBE needed?
NothingToSend(t) ==
    /\ pc[t] = "check"
    /\ ack[idx[t]] = "granted"
    /\ pc' = [pc EXCEPT ![t] = "done"]
    /\ UNCHANGED <<tableVars, agentVars, idx, left, requestVars, brokerVars>>

\* prvSendSubRequest: the command carries a pointer to the slot
SendSubRequest(t) ==
    /\ pc[t] = "check"
    /\ ack[idx[t]] = "failure"
    /\ pc' = [pc EXCEPT ![t] = "wait"]
    /\ request' = [request EXCEPT ![t] = "queued"]
    /\ UNCHANGED <<tableVars, agentVars, idx, left, sentFilter, brokerVars>>

\* The answer: the status is the first SUBACK code, and zero, which is
\* MQTTSubAckSuccessQos0, when the command ended without one (prvSubscribeRqCallback)
SubRequestAnswered(t) ==
    /\ pc[t] = "wait"
    /\ request[t] \in {"granted", "refused", "failed"}
    /\ ack' = [ack EXCEPT ![idx[t]] = IF request[t] = "refused" THEN "failure" ELSE "granted"]
    /\ pc' = [pc EXCEPT ![t] = IF request[t] = "granted" THEN "done" ELSE "idle"]
    /\ request' = [request EXCEPT ![t] = "none"]
    /\ sentFilter' = [sentFilter EXCEPT ![t] = NULL]
    /\ UNCHANGED <<slot, count, subCount, cb, agentVars, idx, left, brokerVars>>

-----------------------------------------------------------------------------
(* MqttAgent_UnSubscribeSync *)

SlotsOf(f) == {i \in Slots : slot[i] = f}

\* First section: one callback fewer; an UNSUBSCRIBE only if it was the last.  A
\* filter that is not found is looked for again in the second section.
Unsubscribe(t) ==
    /\ pc[t] = "done"
    /\ t \in Unsubscribers
    /\ ~locked
    /\ IF SlotsOf(FilterOf[t]) = {}
          THEN /\ left' = [left EXCEPT ![t] = 0]
               /\ pc' = [pc EXCEPT ![t] = "remove"]
               /\ UNCHANGED <<count, request>>
          ELSE LET i == FirstOf(SlotsOf(FilterOf[t]))
               IN  /\ left' = [left EXCEPT ![t] = count[i]]
                   /\ count' = [count EXCEPT ![i] = IF @ > 0 THEN @ - 1 ELSE 0]
                   /\ IF count[i] = 1
                         THEN /\ pc' = [pc EXCEPT ![t] = "unsubWait"]
                              /\ request' = [request EXCEPT ![t] = "queued"]
                         ELSE /\ pc' = [pc EXCEPT ![t] = "remove"]
                              /\ UNCHANGED request
    /\ UNCHANGED <<slot, ack, subCount, cb, agentVars, idx, sentFilter, brokerVars>>

UnsubRequestAnswered(t) ==
    /\ pc[t] = "unsubWait"
    /\ request[t] \in {"granted", "failed"}
    /\ pc' = [pc EXCEPT ![t] = "remove"]
    /\ request' = [request EXCEPT ![t] = "none"]
    /\ UNCHANGED <<tableVars, agentVars, idx, left, sentFilter, brokerVars>>

\* Second section: the slot is found again only if no callback counts on it, and
\* only then is the callback removed and, if it was the last, the slot freed.
\* prvCompressCallbackList keeps the order of the rest, which nothing depends on.
RemoveCallback(t) ==
    /\ pc[t] = "remove"
    /\ ~locked
    /\ LET found == {i \in SlotsOf(FilterOf[t]) : count[i] = 0}
           i     == FirstOf(found)
       IN  IF found = {} \/ Own(t, i) = {}
              THEN UNCHANGED tableVars
              ELSE /\ cb' = [cb EXCEPT ![FirstOf(Own(t, i))] = NoCallback]
                   /\ IF left[t] = 1
                         THEN /\ slot' = [slot EXCEPT ![i] = NULL]
                              /\ ack' = [ack EXCEPT ![i] = "failure"]
                              /\ subCount' = IF subCount > 0 THEN subCount - 1 ELSE 0
                              /\ UNCHANGED count
                         ELSE UNCHANGED <<slot, ack, subCount, count>>
    /\ pc' = [pc EXCEPT ![t] = "idle"]
    /\ left' = [left EXCEPT ![t] = 0]
    /\ UNCHANGED <<agentVars, idx, requestVars, brokerVars>>

-----------------------------------------------------------------------------
(* The agent: commands, acknowledgments, publishes *)

\* The command of a task is sent: a SUBSCRIBE reads the slot it points to only now
SendRequest(t) ==
    LET f == IF pc[t] = "wait" THEN slot[idx[t]] ELSE FilterOf[t]
    IN  /\ agent = "online"
        /\ request[t] = "queued"
        /\ f # NULL
        /\ request' = [request EXCEPT ![t] = "sent"]
        /\ sentFilter' = [sentFilter EXCEPT ![t] = f]
        /\ UNCHANGED <<tableVars, agentVars, taskVars, brokerVars>>

\* MQTTBadParameter for an empty filter, or a send error: the command loop ends
RequestFails(t) ==
    /\ agent = "online"
    /\ request[t] = "queued"
    /\ request' = [request EXCEPT ![t] = "failed"]
    /\ agent' = "failing"
    /\ UNCHANGED <<tableVars, locked, clean, lists, flying, listLen, taskVars,
                   sentFilter, brokerVars>>

\* SUBACK or UNSUBACK
AckRequest(t, status) ==
    /\ agent = "online"
    /\ request[t] = "sent"
    /\ pc[t] = "unsubWait" => status = "granted"
    /\ request' = [request EXCEPT ![t] = status]
    /\ LET f == {sentFilter[t]}
       IN  IF pc[t] = "unsubWait" THEN /\ broker' = broker \ f
                                       /\ granted' = granted \ f
           ELSE IF status = "granted" THEN /\ broker' = broker \cup f
                                           /\ granted' = granted \cup f
           ELSE UNCHANGED brokerVars
    /\ UNCHANGED <<tableVars, agentVars, taskVars, sentFilter>>

Listed == {slot[i] : i \in 1..listLen} \ {NULL}

ListIsSound == \A i \in 1..listLen : slot[i] # NULL

\* The SUBSCRIBE of prvHandleResubscribe: the broker may grant (and begin to
\* publish on) filters before its SUBACK arrives
SendList(already) ==
    /\ agent = "online"
    /\ lists > 0
    /\ ListIsSound
    /\ lists' = lists - 1
    /\ flying' = flying + 1
    /\ broker' = broker \cup already
    /\ UNCHANGED <<tableVars, locked, agent, clean, listLen, taskVars, requestVars, granted>>

\* prvResubscribeCommandCallback with the codes of the SUBACK; it asserts that the
\* agent task owns the mutex, and gives it back
AckList(ok) ==
    /\ agent = "online"
    /\ flying > 0
    /\ flying' = flying - 1
    /\ broker' = broker \cup ok
    /\ granted' = (granted \ Listed) \cup ok
    /\ IF locked
          THEN /\ ack' = [i \in Slots |-> IF i > subCount THEN ack[i]
                                          ELSE IF slot[i] \in ok THEN "granted" ELSE "failure"]
               /\ locked' = FALSE
               /\ UNCHANGED agent
          ELSE /\ agent' = "halted"
               /\ UNCHANGED <<ack, locked>>
    /\ UNCHANGED <<slot, count, subCount, cb, clean, lists, listLen, taskVars, requestVars>>

\* prvIncomingPublishCallback locks the table, calls every callback bound to a
\* filter of the topic and unlocks.  If the agent holds the mutex itself, waiting
\* for its SUBACK, it waits for ever.
IncomingPublish ==
    /\ agent = "online"
    /\ locked
    /\ broker # {}
    /\ agent' = "stuck"
    /\ UNCHANGED <<tableVars, locked, clean, lists, flying, listLen, taskVars,
                   requestVars, brokerVars>>

-----------------------------------------------------------------------------
(* The agent: the end of a connection and the next *)

\* n resubscribe commands end without a SUBACK: prvResubscribeCommandCallback reads the
\* codes through a null pointer, so that any status may result, and gives the mutex
\* back.  Without the mutex, as for the second of two, its assertion hangs the system.
CancelLists(n, next) ==
    IF n = 0 THEN /\ agent' = next
                  /\ UNCHANGED <<ack, locked>>
    ELSE IF n = 1 /\ locked
       THEN /\ ack' \in {a \in [Slots -> Statuses] : \A i \in Slots : i > subCount => a[i] = ack[i]}
            /\ locked' = FALSE
            /\ agent' = next
       ELSE /\ agent' = "halted"
            /\ UNCHANGED <<ack, locked>>

\* An error ends the command loop
ConnectionLost ==
    /\ agent = "online"
    /\ agent' = "failing"
    /\ UNCHANGED <<tableVars, locked, clean, lists, flying, listLen, taskVars,
                   requestVars, brokerVars>>

\* The list cannot be sent: a hole in it, or a send error
ListFails ==
    /\ agent = "online"
    /\ lists > 0
    /\ lists' = lists - 1
    /\ CancelLists(1, "failing")
    /\ UNCHANGED <<slot, count, subCount, cb, clean, flying, listLen, taskVars,
                   requestVars, brokerVars>>

\* MQTTAgent_CancelAll: everything sent is cancelled, and of the queue as much as
\* there are notifications for; the broker may have seen what was sent
CancelAll(next) ==
    /\ \E gone \in SUBSET {t \in Tasks : request[t] = "queued"}, n \in 0..lists :
          /\ request' = [t \in Tasks |-> IF t \in gone \/ request[t] = "sent"
                                            THEN "failed" ELSE request[t]]
          /\ lists' = lists - n
          /\ CancelLists(n + flying, next)
    /\ flying' = 0
    /\ \E seen \in SUBSET {t \in Tasks : request[t] = "sent"} :
          LET added   == {sentFilter[t] : t \in {u \in seen : pc[u] = "wait"}}
              dropped == {sentFilter[t] : t \in {u \in seen : pc[u] = "unsubWait"}}
          IN  broker' = (broker \ dropped) \cup added
    /\ UNCHANGED <<slot, count, subCount, cb, clean, listLen, taskVars, sentFilter, granted>>

\* After the command loop, or a connection that was refused
LeaveLoop == agent = "failing" /\ CancelAll("closing")

\* The socket is closed; the agent takes the mutex, if it does not have it already
LockTable ==
    /\ agent = "closing"
    /\ agent' = "offline"
    /\ locked' = TRUE
    /\ ack' = [i \in Slots |-> "failure"]
    /\ UNCHANGED <<slot, count, subCount, cb, clean, lists, flying, listLen, taskVars,
                   requestVars, brokerVars>>

\* A new socket: what the tasks have queued since is cancelled
Reopen == agent = "offline" /\ CancelAll("connect")

\* MQTT_Connect or MQTTAgent_ResumeSession fails; the broker may have begun a new session
ConnectFails ==
    /\ agent = "connect"
    /\ agent' = "failing"
    /\ broker' \in {broker, {}}
    /\ UNCHANGED <<tableVars, locked, clean, lists, flying, listLen, taskVars,
                   requestVars, granted>>

\* The first session: the table is emptied and the mutex given back
ConnectClean ==
    /\ agent = "connect"
    /\ clean
    /\ slot' = [i \in Slots |-> NULL]
    /\ ack' = [i \in Slots |-> "failure"]
    /\ count' = [i \in Slots |-> 0]
    /\ cb' = [k \in Slots |-> NoCallback]
    /\ subCount' = 0
    /\ listLen' = 0
    /\ locked' = FALSE
    /\ agent' = "online"
    /\ clean' = FALSE
    /\ broker' = {}
    /\ UNCHANGED <<lists, flying, taskVars, requestVars, granted>>

\* (mutant) only the resubscription gives the mutex back
ConnectResumedKeepsMutex ==
    /\ agent = "connect"
    /\ ~clean
    /\ agent' = "online"
    /\ UNCHANGED <<tableVars, locked, clean, lists, flying, listLen, taskVars,
                   requestVars, brokerVars>>

\* The broker has the session: no SUBSCRIBE, the mutex is given back
ConnectResumed ==
    /\ agent = "connect"
    /\ ~clean
    /\ locked' = FALSE
    /\ agent' = "online"
    /\ UNCHANGED <<tableVars, clean, lists, flying, listLen, taskVars, requestVars, brokerVars>>

\* The broker has lost the session: prvHandleResubscribe asserts that the agent has
\* the mutex, and keeps it until the SUBACK if there is something to subscribe to.
\* With no free command or no room in the queue the connection is given up.
ConnectResubscribe ==
    /\ agent = "connect"
    /\ ~clean
    /\ broker' = {}
    /\ IF ~locked
          THEN /\ agent' = "halted"
               /\ UNCHANGED <<tableVars, locked, lists, listLen>>
          ELSE /\ Compress
               /\ listLen' = IF Occupied # {} THEN subCount' ELSE listLen
               /\ locked' = (Occupied # {})
               /\ \/ /\ agent' = "online"
                     /\ lists' = IF Occupied # {} THEN lists + 1 ELSE lists
                     /\ lists' <= MaxLists
                  \/ /\ Occupied # {}
                     /\ agent' = "failing"
                     /\ UNCHANGED lists
    /\ UNCHANGED <<clean, flying, taskVars, requestVars, granted>>

-----------------------------------------------------------------------------

\* prvSubscriptionManagerCtxInit: an empty table, its mutex taken
Init ==
    /\ slot = [i \in Slots |-> NULL]
    /\ ack = [i \in Slots |-> "failure"]
    /\ count = [i \in Slots |-> 0]
    /\ subCount = 0
    /\ cb = [k \in Slots |-> NoCallback]
    /\ locked = TRUE
    /\ agent = "offline"
    /\ clean = TRUE
    /\ lists = 0 /\ flying = 0 /\ listLen = 0
    /\ pc = [t \in Tasks |-> "boot"]
    /\ idx = [t \in Tasks |-> 0]
    /\ left = [t \in Tasks |-> 0]
    /\ request = [t \in Tasks |-> "none"]
    /\ sentFilter = [t \in Tasks |-> NULL]
    /\ broker = {} /\ granted = {}

TaskStep(t) ==
    \/ Boot(t) \/ Subscribe(t) \/ NothingToSend(t) \/ SendSubRequest(t)
    \/ SubRequestAnswered(t)
    \/ Unsubscribe(t) \/ UnsubRequestAnswered(t) \/ RemoveCallback(t)

CommandLoop ==
    \/ \E t \in Tasks : SendRequest(t) \/ RequestFails(t)
    \/ \E t \in Tasks, status \in {"granted", "refused"} : AckRequest(t, status)
    \/ \E fs \in SUBSET Listed : SendList(fs) \/ AckList(fs)
    \/ ListFails \/ IncomingPublish \/ ConnectionLost

AgentStep ==
    \/ CommandLoop \/ LeaveLoop \/ LockTable \/ Reopen
    \/ ConnectFails \/ ConnectClean \/ ConnectResumed \/ ConnectResubscribe

Next == (\E t \in Tasks : TaskStep(t)) \/ AgentStep

Spec == Init /\ [][Next]_vars

-----------------------------------------------------------------------------
(* Properties *)

AgentStates == {"offline", "connect", "online", "failing", "closing", "stuck", "halted"}
TaskStates == {"boot", "idle", "check", "wait", "done", "unsubWait", "remove"}

\* Types: the counts never exceed the table, indices stay within it.
TypeOK ==
    /\ slot \in [Slots -> Filters \cup {NULL}]
    /\ ack \in [Slots -> Statuses]
    /\ count \in [Slots -> 0..MaxCount]
    /\ subCount \in 0..NumSlots
    /\ cb \in [Slots -> [task : Tasks \cup {NULL}, slot : {0} \cup Slots]]
    /\ locked \in BOOLEAN
    /\ agent \in AgentStates
    /\ clean \in BOOLEAN
    /\ lists \in 0..MaxLists
    /\ flying \in 0..MaxLists
    /\ listLen \in 0..NumSlots
    /\ pc \in [Tasks -> TaskStates]
    /\ idx \in [Tasks -> {0} \cup Slots]
    /\ left \in [Tasks -> 0..MaxCount]
    /\ request \in [Tasks -> {"none", "queued", "sent", "granted", "refused", "failed"}]
    /\ sentFilter \in [Tasks -> Filters \cup {NULL}]
    /\ broker \subseteq Filters
    /\ granted \subseteq Filters

CallbacksOf(t) == {k \in Slots : cb[k].task = t}

\* Once a task has been entered in the table, it has one callback, and that callback is
\* bound to the filter it asked for: through refused and cancelled requests and the
\* retries after them, the moves of prvCompressSubscriptionList and reconnections.  So it
\* is as long as no task unsubscribes (Unsubscribers = {}).  A task that does can leave a
\* second empty slot before the entry of a task whose SUBSCRIBE was refused; the retry of
\* that task stops its scan there, stores the filter once more and gets a second callback
\* (what remains then of its entry is CallbackKept).
CallbackForFilter ==
    \A t \in Tasks \ Unsubscribers :
        idx[t] # 0 => \E k \in Slots : /\ CallbacksOf(t) = {k}
                                       /\ slot[cb[k].slot] = FilterOf[t]

\* What another task removes is never the callback, nor the slot, of a task that does
\* not unsubscribe: it keeps a callback, and all its callbacks are bound to its filter.
CallbackKept ==
    \A t \in Tasks \ Unsubscribers :
        idx[t] # 0 => /\ CallbacksOf(t) # {}
                      /\ \A k \in CallbacksOf(t) : slot[cb[k].slot] = FilterOf[t]

\* A filter has one slot, wherever the scan of MqttAgent_SubscribeSync finds room and
\* however often the table has been compressed.
NoDuplicateFilters ==
    \A i, j \in Occupied : slot[i] = slot[j] => i = j

\* The agent goes back to its command loop with the mutex only if a resubscribe
\* command is under way, whose callback gives the mutex back; else no task could
\* use the table again (prvHandleResubscribe, vMQTTAgentTask).
HeldForResubscribe == agent = "online" /\ locked => lists + flying > 0

\* While the agent keeps the mutex for a resubscription, the list that the pending
\* SUBSCRIBE points to is the table: every filter is in it, without a hole, and the
\* callback reads as many SUBACK codes as were asked for.
ResubscribeCoversTable ==
    agent = "online" /\ locked => listLen = subCount /\ Occupied = 1..listLen

-----------------------------------------------------------------------------
(* What comments and assertions say, and the code does not do *)

\* "configASSERT_CONTINUE( !MUTEX_IS_OWNED( pxSubCtx->xMutex ) )" in xLockSubCtx: the
\* agent never waits for a mutex it holds.
NeverWaitsForItself == agent # "stuck"

\* "Add a callback for a given topic filter. Subscribe if not already subscribed.":
\* MqttAgent_SubscribeSync succeeds only for a filter the broker has granted.
SuccessMeansGranted ==
    [][\A t \in Tasks : pc[t] # "done" /\ pc'[t] = "done" => FilterOf[t] \in granted]_vars

=============================================================================
