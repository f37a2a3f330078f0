----------------------------- MODULE MCMqttAgent -----------------------------
EXTENDS MqttAgent, TLC

\* Tasks and structures are interchangeable: only safety is checked with it.
TaskSymmetry == Permutations(Clients) \cup Permutations(Commands)
=============================================================================
