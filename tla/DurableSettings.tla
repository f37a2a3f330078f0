--------------------------- MODULE DurableSettings ---------------------------
(***************************************************************************)
(* What the key-value store promises of the settings across a power        *)
(* failure, with none of its machinery: what is durable for a key changes  *)
(* only while some task saves, and in one step from what it was to what    *)
(* that task has found as the setting of the key.  It is never half of     *)
(* one setting and half of another, unless the key was set while the task  *)
(* was saving.  A save may fail, and may then lose what was durable for    *)
(* the key, but it changes no setting and no other key.                    *)
(***************************************************************************)

CONSTANTS
    Keys,
    Settings,  \* what a key can be set to
    Broken,    \* contents that nobody has set
    Savers,    \* the tasks that save
    Empty,     \* what is durable for a key that has never been saved to the end
    NULL

VARIABLES
    current,  \* the setting of each key, or NULL
    durable,  \* what is left of it when power fails
    saving,   \* the tasks that are saving
    found,    \* the setting each of them is about to make durable: none, or a pair of
              \*   its key and what was found
    touched   \* the keys that were set since each of them began

vars == <<current, durable, saving, found, touched>>

Init ==
    /\ current = [k \in Keys |-> NULL]
    /\ durable = [k \in Keys |-> NULL]
    /\ saving = {}
    /\ found = [t \in Savers |-> {}]
    /\ touched = [t \in Savers |-> {}]

Put(k, v) ==
    /\ current' = [current EXCEPT ![k] = v]
    /\ touched' = [t \in Savers |-> IF t \in saving THEN touched[t] \cup {k} ELSE touched[t]]
    /\ UNCHANGED <<durable, saving, found>>

Start(t) ==
    /\ t \notin saving
    /\ saving' = saving \cup {t}
    /\ UNCHANGED <<current, durable, found, touched>>

Find(t, k) ==
    /\ t \in saving /\ found[t] = {}
    /\ \E c \in {current[k]} \cup (IF k \in touched[t] THEN Broken ELSE {}) :
         /\ c # NULL
         /\ found' = [found EXCEPT ![t] = {<<k, c>>}]
    /\ UNCHANGED <<current, durable, saving, touched>>

\* A key that was never saved leaves a trace of the attempt
Begin(t, k) ==
    /\ t \in saving /\ found[t] = {}
    /\ durable[k] = NULL /\ current[k] # NULL
    /\ durable' = [durable EXCEPT ![k] = Empty]
    /\ UNCHANGED <<current, saving, found, touched>>

Make(t) ==
    /\ \E k \in Keys : \E c \in Settings \cup Broken :
         /\ found[t] = {<<k, c>>}
         /\ durable' = [durable EXCEPT ![k] = c]
    /\ found' = [found EXCEPT ![t] = {}]
    /\ UNCHANGED <<current, saving, touched>>

\* What was found does not become durable
Miss(t) ==
    /\ found[t] # {}
    /\ found' = [found EXCEPT ![t] = {}]
    /\ UNCHANGED <<current, durable, saving, touched>>

\* What was durable is lost
Lose(t, k) ==
    /\ t \in saving /\ found[t] = {} /\ current[k] # NULL
    /\ durable' = [durable EXCEPT ![k] = NULL]
    /\ UNCHANGED <<current, saving, found, touched>>

Finish(t) ==
    /\ t \in saving /\ found[t] = {}
    /\ saving' = saving \ {t}
    /\ touched' = [touched EXCEPT ![t] = {}]
    /\ UNCHANGED <<current, durable, found>>

\* Power fails: the settings are those that were durable, but for the keys that cannot be
\* read, which have none until they are set, or until they can be read after the next failure
Restart ==
    /\ \E unread \in SUBSET Keys :
         LET Left(k) == IF durable[k] = Empty THEN NULL ELSE durable[k] IN
         /\ durable' = [k \in Keys |-> IF k \in unread THEN durable[k] ELSE Left(k)]
         /\ current' = [k \in Keys |-> IF k \in unread THEN NULL ELSE Left(k)]
    /\ saving' = {}
    /\ found' = [t \in Savers |-> {}]
    /\ touched' = [t \in Savers |-> {}]

Next ==
    \/ \E k \in Keys, v \in Settings : Put(k, v)
    \/ \E t \in Savers : Start(t) \/ Make(t) \/ Miss(t) \/ Finish(t)
    \/ \E t \in Savers, k \in Keys : Find(t, k) \/ Begin(t, k) \/ Lose(t, k)
    \/ Restart

Spec == Init /\ [][Next]_vars

==============================================================================
