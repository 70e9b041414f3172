---------------------------- MODULE MCTaskRelay -----------------------------
(* Instances of TaskRelay for TLC.                                         *)
EXTENDS TaskRelayProperties, TLC

CONSTANTS h1, h2,   \* hostnames
          OnSecond  \* the connections, requests and closers of h2

MCHosts == IF OnSecond = {} THEN {h1} ELSE {h1, h2}
MCHostOf ==
  [p \in Conns \cup Reqs \cup Closers |-> IF p \in OnSecond THEN h2 ELSE h1]

\* Fresh UUIDs: a task id per request.
FreshIds == [r \in Reqs |-> r]
Permuted == Permutations(Conns) \cup Permutations(Reqs)
=============================================================================
