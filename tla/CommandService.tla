--------------------------- MODULE CommandService ---------------------------
(***************************************************************************)
(* What the MQTT agent promises to the tasks that call it, with none of    *)
(* its machinery: a task has at most one request; a request is answered    *)
(* exactly once before the task may make the next; "success" is answered   *)
(* only to a request that needs no acknowledgment or that the broker has   *)
(* received on the present connection; and a request the broker has        *)
(* received does not outlive that connection.                              *)
(***************************************************************************)
EXTENDS Naturals

CONSTANT Clients

VARIABLES
    stage,    \* how far the request of each task has come
    unacked,  \* the tasks whose request needs no acknowledgment (QoS 0)
    online    \* whether requests can reach the broker

vars == <<stage, unacked, online>>

Stages == {"none", "submitted", "atBroker", "success", "failed"}

Answered == {"success", "failed"}

TypeOK ==
    /\ stage \in [Clients -> Stages]
    /\ unacked \in SUBSET Clients
    /\ online \in BOOLEAN

Init ==
    /\ stage = [c \in Clients |-> "none"]
    /\ unacked = {}
    /\ online = FALSE

Submit(c) ==
    /\ stage[c] = "none"
    /\ stage' = [stage EXCEPT ![c] = "submitted"]
    /\ unacked' \in {unacked, unacked \cup {c}}
    /\ UNCHANGED online

Transmit(c) ==
    /\ online
    /\ stage[c] = "submitted"
    /\ c \notin unacked
    /\ stage' = [stage EXCEPT ![c] = "atBroker"]
    /\ UNCHANGED <<unacked, online>>

Succeed(c) ==
    /\ online
    /\ stage[c] = "atBroker" \/ (stage[c] = "submitted" /\ c \in unacked)
    /\ stage' = [stage EXCEPT ![c] = "success"]
    /\ unacked' = unacked \ {c}
    /\ UNCHANGED online

Fail(c) ==
    /\ stage[c] \in {"submitted", "atBroker"}
    /\ stage' = [stage EXCEPT ![c] = "failed"]
    /\ unacked' = unacked \ {c}
    /\ UNCHANGED online

Collect(c) ==
    /\ stage[c] \in Answered
    /\ stage' = [stage EXCEPT ![c] = "none"]
    /\ UNCHANGED <<unacked, online>>

GoOnline ==
    /\ ~online
    /\ online' = TRUE
    /\ UNCHANGED <<stage, unacked>>

\* Everything the broker was still expected to answer fails at once
GoOffline ==
    /\ online
    /\ online' = FALSE
    /\ stage' = [c \in Clients |-> IF stage[c] = "atBroker" THEN "failed" ELSE stage[c]]
    /\ UNCHANGED unacked

Next ==
    \/ \E c \in Clients : Submit(c) \/ Transmit(c) \/ Succeed(c) \/ Fail(c) \/ Collect(c)
    \/ GoOnline
    \/ GoOffline

Spec == Init /\ [][Next]_vars

=============================================================================
