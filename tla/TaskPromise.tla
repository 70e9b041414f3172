---------------------------- MODULE TaskPromise -----------------------------
(***************************************************************************)
(* What a relay of tasks promises whoever sends them, whatever connections *)
(* come and go: every task that is accepted gets one answer; some answers  *)
(* (that it ran, with its exit code or as killed) are given only to a task *)
(* that was run; others (agent_offline or send_failed of the server,       *)
(* agent_busy, expiry or a failed start of the agent) say that the task    *)
(* was not run and will not be; a timeout, a lost connection or a transfer *)
(* that failed half way leave it open.  The server's exec, upload and      *)
(* fetch handlers implement it (TaskRelay), and so does the agent at its   *)
(* end of the connection (AgentDispatcher).                                *)
(***************************************************************************)
CONSTANTS Reqs,   \* tasks
          Kinds,  \* kinds of answer, "none" aside
          OfRun,  \* those only a task that was run gets
          NotRun  \* those that promise that it is not run

VARIABLES asked,  \* tasks accepted
          answer, \* Reqs -> Kinds or "none"
          ran     \* tasks that were run

vars == <<asked, answer, ran>>

Init ==
  /\ asked = {}
  /\ answer = [r \in Reqs |-> "none"]
  /\ ran = {}

Give(r, kind) ==
  /\ answer[r] = "none"
  /\ kind \in OfRun => r \in ran
  /\ kind \in NotRun => r \notin ran
  /\ answer' = [answer EXCEPT ![r] = kind]
  /\ ran' = ran

Ask(r) ==
  /\ r \notin asked
  /\ asked' = asked \cup {r}
  /\ UNCHANGED <<answer, ran>>

Refuse(r) ==
  /\ r \notin asked
  /\ asked' = asked \cup {r}
  /\ \E kind \in NotRun : Give(r, kind)

Reply(r) ==
  /\ r \in asked
  /\ \E kind \in Kinds : Give(r, kind)
  /\ UNCHANGED asked

\* A task is run once, possibly after its sender was told of a timeout or of a
\* lost connection, never after an answer in NotRun.
Run(r) ==
  /\ r \in asked \ ran
  /\ answer[r] \notin NotRun
  /\ ran' = ran \cup {r}
  /\ UNCHANGED <<asked, answer>>

Next == \E r \in Reqs : Ask(r) \/ Refuse(r) \/ Reply(r) \/ Run(r)

Spec == Init /\ [][Next]_vars

\* Every accepted task is answered.
Fairness == \A r \in Reqs : WF_vars(Reply(r))

FairSpec == Spec /\ Fairness
=============================================================================
