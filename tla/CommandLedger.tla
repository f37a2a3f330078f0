---------------------------- MODULE CommandLedger -----------------------------
(***************************************************************************)
(* What the cloud may rely on when it asks for the acknowledgment of a     *)
(* command, with no task, queue entry or publish in sight.  Commands are   *)
(* handled in the order in which they arrived, one at a time, and each     *)
(* that asks is acknowledged before the next is looked at.  One is         *)
(* abandoned only on arrival when Capacity others wait, or when its turn   *)
(* comes and there is no connection.                                       *)
(***************************************************************************)
EXTENDS Naturals, FiniteSets

CONSTANT Capacity  \* how many commands can wait

VARIABLES
    arrived,    \* the number of commands that have arrived; they are numbered from 1
    asking,     \* those that ask for an acknowledgment
    waiting,    \* those that wait for their turn
    inHand,     \* the one that is being acknowledged, 0 for none
    acked,      \* those that are acknowledged
    abandoned,  \* those that will not be
    connected

vars == <<arrived, asking, waiting, inHand, acked, abandoned, connected>>

Init ==
    /\ arrived = 0 /\ asking = {} /\ waiting = {} /\ inHand = 0
    /\ acked = {} /\ abandoned = {}
    /\ connected = TRUE

Arrive ==
    /\ connected
    /\ arrived' = arrived + 1
    /\ asking' \in {asking, asking \cup {arrived'}}
    /\ IF Cardinality(waiting) < Capacity
       THEN waiting' = waiting \cup {arrived'} /\ UNCHANGED abandoned
       ELSE abandoned' = abandoned \cup {arrived'} /\ UNCHANGED waiting
    /\ UNCHANGED <<inHand, acked, connected>>

\* The turn of a command that asks comes while there is a connection
TakeInHand(c) ==
    /\ c \in asking /\ connected
    /\ inHand' = c
    /\ UNCHANGED abandoned

\* The turn of any other
PassOver(c) ==
    /\ ~(c \in asking /\ connected)
    /\ abandoned' = abandoned \cup (asking \cap {c})
    /\ UNCHANGED inHand

Handle ==
    /\ inHand = 0
    /\ \E c \in waiting :
         /\ \A d \in waiting : c <= d
         /\ waiting' = waiting \ {c}
         /\ TakeInHand(c) \/ PassOver(c)
    /\ UNCHANGED <<arrived, asking, acked, connected>>

\* The acknowledgment gets through; that it did may be learned only after a reconnection
Acknowledge ==
    /\ inHand # 0 /\ connected
    /\ acked' = acked \cup {inHand}
    /\ \/ inHand' = 0 /\ UNCHANGED connected
       \/ connected' = FALSE /\ UNCHANGED inHand
    /\ UNCHANGED <<arrived, asking, waiting, abandoned>>

Reconnect ==
    /\ connected' = ~connected
    /\ UNCHANGED <<arrived, asking, waiting, inHand, acked, abandoned>>

Next == Arrive \/ Handle \/ Acknowledge \/ Reconnect

Spec == Init /\ [][Next]_vars

==============================================================================
