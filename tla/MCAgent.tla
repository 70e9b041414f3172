------------------------------ MODULE MCAgent -------------------------------
(* Instances of AgentDispatcher for TLC.                                   *)
EXTENDS AgentProperties

\* Fresh UUIDs: a task id per exec message.
FreshIds == [e \in Execs |-> e]

=============================================================================
