------------------------ MODULE MCSubscriptionManager ------------------------
(* Instances of SubscriptionManager for TLC. *)
EXTENDS SubscriptionManager, TLC

CONSTANTS t1, t2, topicA, topicB

\* Each task on a filter of its own
TwoFilters == (t1 :> topicA) @@ (t2 :> topicB)

\* The string topicA is a proper prefix of the string topicB
ABeginsB == {<<topicA, topicB>>}

\* No action depends on what the broker has granted, nor do the invariants
WithoutGranted ==
    <<slot, ack, count, subCount, cb, locked, agent, clean, lists, flying, listLen,
      pc, idx, left, request, sentFilter, broker>>

=============================================================================
