---------------------------- MODULE PromiseProofs ----------------------------
(***************************************************************************)
(* What callers are told, for every set of hosts, connections, requests    *)
(* and closers: with task ids without duplicates the relay implements      *)
(* TaskPromise and a result that is answered is complete; with any task    *)
(* ids, a result is at least of the task id it is answered for.            *)
(***************************************************************************)
EXTENDS DisconnectProofs, FiniteSetTheorems

-----------------------------------------------------------------------------
(* What answers and messages on their way tell of.                         *)

\* What is left after a message was read was there before.
LEMMA ConsumeShifts ==
  ASSUME TypeOK, NEW c \in Conns, fromAgent[c] # <<>>, Consume(c)
  PROVE  \A d \in Conns : \A i \in 1..Len(fromAgent'[d]) :
           \E j \in 1..Len(fromAgent[d]) : fromAgent'[d][i] = fromAgent[d][j]
<1>1. fromAgent[c] \in Seq(Messages) /\ fromAgent'[c] = Tail(fromAgent[c])
  BY DEF TypeOK, Consume
<1>2. \A i \in 1..Len(fromAgent'[c]) :
        /\ i + 1 \in 1..Len(fromAgent[c])
        /\ fromAgent'[c][i] = fromAgent[c][i+1]
  BY <1>1
<1>3. \A d \in Conns \ {c} : fromAgent'[d] = fromAgent[d]
  BY DEF TypeOK, Consume
<1>4. QED
  BY <1>2, <1>3

\* A message in a queue, and the request it is of.
LEMMA MessageType ==
  ASSUME TypeOK, NEW c \in Conns, NEW i \in 1..Len(fromAgent[c])
  PROVE  fromAgent[c][i] \in Messages /\ fromAgent[c][i].req \in Reqs
<1>1. fromAgent[c] \in Seq(Messages)
  BY DEF TypeOK
<1>2. fromAgent[c][i] \in Messages
  BY <1>1
<1>3. QED
  BY <1>2 DEF Messages

\* An agent is done with the task it answers, and with no other by that.
LEMMA SetIsServed ==
  ASSUME TypeOK, NEW c \in Conns, NEW r \in Reqs, AgentResult(c, r)
  PROVE  /\ \A s \in Reqs \ {r} : verdict'[s] = verdict[s]
         /\ \A s \in Reqs : Served(s) => Served(s)'
         /\ verdict'[r] \in Verdicts /\ Served(r)'
<1>1. PICK v \in Verdicts : verdict' = [verdict EXCEPT ![r] = v]
  BY DEF AgentResult
<1>2. v # "none"
  BY ConstantsAssumption DEF AllVerdicts
<1>3. verdict'[r] = v /\ \A s \in Reqs \ {r} : verdict'[s] = verdict[s]
  BY <1>1 DEF TypeOK
<1>4. QED
  BY <1>2, <1>3 DEF Served

\* A result begins in the agent that is done with the task, and is copied from there.
LEMMA CarriedStep ==
  ASSUME TypeInv, LoopHeld, CarriedResults, [Next]_vars
  PROVE  CarriedResults'
<1> USE ConstantsAssumption
    DEF TypeInv, vars, registry, futures, locals, requests, agents, Goto,
        RequestGoto, Servers, Served
<1>1. ASSUME NEW c \in Conns, Upgrade(c) PROVE CarriedResults'
  BY <1>1 DEF Upgrade, CarriedResults, Settling
<1>2. ASSUME NEW c \in Conns, RegisterConnection(c) PROVE CarriedResults'
  BY <1>2 DEF RegisterConnection, CarriedResults, Settling
<1>3. ASSUME NEW c \in Conns, HandleStdout(c) PROVE CarriedResults'
  <2>1. \A d \in Conns : \A i \in 1..Len(fromAgent'[d]) :
          \E j \in 1..Len(fromAgent[d]) : fromAgent'[d][i] = fromAgent[d][j]
    BY <1>3, ConsumeShifts DEF HandleStdout, Readable
  <2>2. UNCHANGED <<pc, cur, out, channel, verdict>>
    BY <1>3 DEF HandleStdout
  <2>3. \A d \in Conns : \A i \in 1..Len(fromAgent'[d]) :
          fromAgent'[d][i].kind = "result" => verdict'[fromAgent'[d][i].req] # "none"
    BY <2>1, <2>2 DEF CarriedResults, Served
  <2>4. QED
    BY <2>2, <2>3 DEF CarriedResults
<1>4. ASSUME NEW c \in Conns, HandleResult(c) PROVE CarriedResults'
  <2>1. \A d \in Conns : \A i \in 1..Len(fromAgent'[d]) :
          \E j \in 1..Len(fromAgent[d]) : fromAgent'[d][i] = fromAgent[d][j]
    BY <1>4, ConsumeShifts DEF HandleResult, Readable
  <2>2. /\ UNCHANGED <<channel, verdict>>
        /\ \A q \in Servers \ {c} : UNCHANGED <<pc[q], cur[q], out[q]>>
    BY <1>4 DEF HandleResult, TypeOK
  <2>3. PICK r \in Reqs : r = Head(fromAgent[c]).req /\ Served(r)
    <3>1. /\ fromAgent[c] \in Seq(Messages) /\ fromAgent[c] # <<>>
          /\ Head(fromAgent[c]).kind = "result"
      BY <1>4 DEF HandleResult, Readable, TypeOK
    <3>2. /\ 1 \in 1..Len(fromAgent[c]) /\ Head(fromAgent[c]) = fromAgent[c][1]
          /\ Head(fromAgent[c]) \in Messages
      BY <3>1, HeadTail
    <3>3. Head(fromAgent[c]).req \in Reqs
      BY <3>2 DEF Messages
    <3>4. Served(Head(fromAgent[c]).req)
      BY <3>1, <3>2 DEF CarriedResults
    <3>5. QED
      BY <3>3, <3>4
  <2>4. out'[c].kind = "result" /\ out'[c].req = r /\ cur'[c] = TaskOf[r]
    BY <1>4, <2>3 DEF HandleResult, TypeOK
  <2>5. \A d \in Conns : \A i \in 1..Len(fromAgent'[d]) :
          fromAgent'[d][i].kind = "result" => verdict'[fromAgent'[d][i].req] # "none"
    BY <2>1, <2>2 DEF CarriedResults, Served
  <2>6. \A q \in Servers :
          /\ pc'[q] \in Settling \cup {"resolving"} => out'[q].kind \in Outcomes
          /\ pc'[q] \in Settling /\ out'[q].kind = "result" =>
               /\ cur'[q] = TaskOf[out'[q].req]
               /\ out'[q].req \in Reqs /\ verdict'[out'[q].req] # "none"
    <3>1. ASSUME NEW q \in Servers, q # c
          PROVE  /\ pc'[q] \in Settling \cup {"resolving"} => out'[q].kind \in Outcomes
                 /\ pc'[q] \in Settling /\ out'[q].kind = "result" =>
                      /\ cur'[q] = TaskOf[out'[q].req]
                      /\ out'[q].req \in Reqs /\ verdict'[out'[q].req] # "none"
      BY <2>2, <3>1 DEF CarriedResults, Served
    <3>2. out'[c].kind \in Outcomes /\ out'[c].req \in Reqs /\ verdict'[out'[c].req] # "none"
      BY <2>2, <2>3, <2>4 DEF Outcomes, Served
    <3>3. QED
      BY <2>4, <3>1, <3>2
  <2>7. QED
    BY <2>2, <2>5, <2>6 DEF CarriedResults
<1>5. ASSUME NEW c \in Conns, ReadError(c) PROVE CarriedResults'
  BY <1>5 DEF ReadError, CarriedResults, Settling
<1>6. ASSUME NEW c \in Conns, UnregisterConnection(c) PROVE CarriedResults'
  BY <1>6 DEF UnregisterConnection, CarriedResults, Settling
<1>7. ASSUME NEW c \in Conns, AgentLost(c) PROVE CarriedResults'
  BY <1>7 DEF AgentLost, CarriedResults
<1>8. ASSUME NEW a \in Closers, CloseAgent(a) PROVE CarriedResults'
  BY <1>8 DEF CloseAgent, CarriedResults, Settling
<1>9. ASSUME NEW a \in Closers, CloseSocket(a) PROVE CarriedResults'
  BY <1>9 DEF CloseSocket, CarriedResults, Settling
<1>10. ASSUME NEW p \in Servers, SnapshotTasks(p) PROVE CarriedResults'
  BY <1>10 DEF SnapshotTasks, Error, ResolveReason, TypeOK, CarriedResults, Outcomes
<1>11. ASSUME NEW p \in Servers, EndResolve(p) PROVE CarriedResults'
  BY <1>11 DEF EndResolve, TypeOK, CarriedResults, Settling
<1>12. ASSUME NEW p \in Servers, NEW t \in Tasks, NextTask(p, t) PROVE CarriedResults'
  BY <1>12 DEF NextTask, LoopHeld, Resolving, CarriedResults
<1>13. ASSUME NEW p \in Servers, LookupFuture(p) PROVE CarriedResults'
  BY <1>13 DEF LookupFuture, CarriedResults, Settling
<1>14. ASSUME NEW p \in Servers, Deliver(p) PROVE CarriedResults'
  BY <1>14 DEF Deliver, CarriedResults, Settling
<1>15. ASSUME NEW p \in Servers, DeletePending(p) PROVE CarriedResults'
  BY <1>15 DEF DeletePending, CarriedResults, Settling
<1>16. ASSUME NEW p \in Servers, DeleteStdout(p) PROVE CarriedResults'
  BY <1>16 DEF DeleteStdout, CarriedResults, Settling
<1>17. ASSUME NEW p \in Servers, DeleteHost(p) PROVE CarriedResults'
  BY <1>17 DEF DeleteHost, TypeOK, CarriedResults, Settling
<1>18. ASSUME NEW r \in Reqs, CheckAgentOnline(r) PROVE CarriedResults'
  BY <1>18 DEF CheckAgentOnline, CarriedResults
<1>19. ASSUME NEW r \in Reqs, RegisterFuture(r) PROVE CarriedResults'
  BY <1>19 DEF RegisterFuture, CarriedResults
<1>20. ASSUME NEW r \in Reqs, GetConnection(r) PROVE CarriedResults'
  BY <1>20 DEF GetConnection, CarriedResults
<1>21. ASSUME NEW r \in Reqs, SendToAgent(r) PROVE CarriedResults'
  BY <1>21 DEF SendToAgent, CarriedResults
<1>22. ASSUME NEW r \in Reqs, ReceiveResult(r) PROVE CarriedResults'
  BY <1>22 DEF ReceiveResult, CarriedResults
<1>23. ASSUME NEW r \in Reqs, Timeout(r) PROVE CarriedResults'
  BY <1>23 DEF Timeout, CarriedResults
<1>24. ASSUME NEW r \in Reqs, UnregisterPending(r) PROVE CarriedResults'
  BY <1>24 DEF UnregisterPending, CarriedResults
<1>25. ASSUME NEW r \in Reqs, UnregisterHost(r) PROVE CarriedResults'
  BY <1>25 DEF UnregisterHost, CarriedResults
<1>26. ASSUME NEW r \in Reqs, UnregisterStdout(r) PROVE CarriedResults'
  BY <1>26 DEF UnregisterStdout, CarriedResults
<1>27. ASSUME NEW c \in Conns, NEW r \in Reqs, AgentStdout(c, r) PROVE CarriedResults'
  BY <1>27 DEF AgentStdout, CarriedResults
<1>28. ASSUME NEW c \in Conns, NEW r \in Reqs, AgentResult(c, r) PROVE CarriedResults'
  <2>1. /\ \A s \in Reqs : Served(s) => Served(s)'
        /\ Served(r)'
    BY <1>28, SetIsServed
  <2>2. \A d \in Conns : \A i \in 1..Len(fromAgent'[d]) :
          fromAgent'[d][i].kind = "result" => verdict'[fromAgent'[d][i].req] # "none"
    <3>1. \/ fromAgent' = fromAgent
          \/ \E m \in Messages :
                m.req = r /\ fromAgent' = [fromAgent EXCEPT ![c] = Append(fromAgent[c], m)]
      BY <1>28 DEF AgentResult, TypeOK, Messages
    <3>2. CASE fromAgent' = fromAgent
      BY <2>1, <3>2, MessageType DEF CarriedResults
    <3>3. ASSUME NEW m \in Messages, m.req = r,
                 fromAgent' = [fromAgent EXCEPT ![c] = Append(fromAgent[c], m)]
          PROVE  \A d \in Conns : \A i \in 1..Len(fromAgent'[d]) :
                   fromAgent'[d][i].kind = "result" => verdict'[fromAgent'[d][i].req] # "none"
      <4>1. \A d \in Conns : \A i \in 1..Len(fromAgent'[d]) :
              \/ fromAgent'[d][i] = m
              \/ i \in 1..Len(fromAgent[d]) /\ fromAgent'[d][i] = fromAgent[d][i]
        BY <3>3 DEF TypeOK
      <4>2. \A d \in Conns : \A i \in 1..Len(fromAgent[d]) :
              fromAgent[d][i].kind = "result" => verdict'[fromAgent[d][i].req] # "none"
        BY <2>1, MessageType DEF CarriedResults
      <4>3. QED
        BY <2>1, <3>3, <4>1, <4>2
    <3>4. QED
      BY <3>1, <3>2, <3>3
  <2>3. UNCHANGED <<pc, out, cur, channel>>
    BY <1>28 DEF AgentResult
  <2>4. QED
    BY <2>1, <2>2, <2>3 DEF CarriedResults
<1>29. CASE UNCHANGED vars
  BY <1>29 DEF CarriedResults
<1>30. QED
  BY <1>1, <1>2, <1>3, <1>4, <1>5, <1>6, <1>7, <1>8, <1>9, <1>10, <1>11, <1>12,
     <1>13, <1>14, <1>15, <1>16, <1>17, <1>18, <1>19, <1>20, <1>21, <1>22, <1>23,
     <1>24, <1>25, <1>26, <1>27, <1>28, <1>29, NextActions

\* A task an agent is done with stays so.
LEMMA ServedGrows ==
  ASSUME TypeInv, [Next]_vars PROVE \A s \in Reqs : Served(s) => Served(s)'
<1>1. CASE verdict' = verdict
  BY <1>1 DEF Served
<1>2. ASSUME NEW c \in Conns, NEW r \in Reqs, AgentResult(c, r)
      PROVE  \A s \in Reqs : Served(s) => Served(s)'
  BY <1>2, SetIsServed DEF TypeInv
<1>3. QED
  BY <1>1, <1>2, NextActions
     DEF Upgrade, RegisterConnection, HandleStdout, HandleResult, ReadError,
         UnregisterConnection, AgentLost, CloseAgent, CloseSocket, SnapshotTasks,
         EndResolve, NextTask, LookupFuture, Deliver, DeletePending, DeleteStdout,
         DeleteHost, CheckAgentOnline, RegisterFuture, GetConnection, SendToAgent,
         ReceiveResult, Timeout, UnregisterPending, UnregisterHost, UnregisterStdout,
         AgentStdout, vars, agents

\* With unique task ids, what reaches a channel, and from there the answer, is the
\* result of its request.
LEMMA HonestOutcomesStep ==
  ASSUME UniqueIds, TypeInv, FutureInv, LoopHeld, HonestOutcomes, [Next]_vars
  PROVE  HonestOutcomes'
<1>1. CarriedResults'
  BY CarriedStep DEF HonestOutcomes
<1>2. ASSUME NEW r \in Reqs, channel'[r] # NoAnswer
      PROVE  /\ channel'[r].kind \in Outcomes
             /\ channel'[r].kind = "result" => channel'[r].req = r /\ Served(r)'
  <2>1. CASE channel'[r] = channel[r]
    BY <1>2, <2>1, ServedGrows DEF HonestOutcomes
  <2>2. ASSUME NEW p \in Servers, pc[p] = "deliver", ch[p] = r, channel'[r] = out[p]
        PROVE  /\ channel'[r].kind \in Outcomes
               /\ channel'[r].kind = "result" => channel'[r].req = r /\ Served(r)'
    <3>1. TaskOf[r] = cur[p]
      BY <2>2 DEF FutureInv, DeliversOwn
    <3>2. /\ out[p].kind \in Outcomes
          /\ out[p].kind = "result" =>
               /\ TaskOf[out[p].req] = cur[p]
               /\ out[p].req \in Reqs /\ Served(out[p].req)
      BY <2>2 DEF HonestOutcomes, CarriedResults, Settling
    <3>3. out[p].kind = "result" => out[p].req = r
      BY <3>1, <3>2 DEF UniqueIds
    <3>4. QED
      BY <2>2, <3>2, <3>3, ServedGrows
  <2>3. QED
    BY <1>2, <2>1, <2>2, ChannelStep
<1>3. ASSUME NEW r \in Reqs, reply'[r].kind = "result"
      PROVE  reply'[r].req = r /\ Served(r)'
  <2>1. CASE reply'[r] = reply[r]
    BY <1>3, <2>1, ServedGrows DEF HonestOutcomes
  <2>2. CASE reply'[r] = channel[r] /\ channel[r] # NoAnswer
    BY <1>3, <2>2, ServedGrows DEF HonestOutcomes
  <2>3. QED
    BY <1>3, <2>1, <2>2, ReplyStep DEF NoAnswer, Error
<1>4. QED
  BY <1>1, <1>2, <1>3 DEF HonestOutcomes

\* A message goes to an agent in SendToAgent only, which then waits, and leaves it
\* when the agent is done.
LEMMA HonestRefusalsStep ==
  ASSUME TypeInv, HonestRefusals, [Next]_vars,
         \A r \in Reqs : channel[r] # NoAnswer => channel[r].kind \in Outcomes
  PROVE  HonestRefusals'
<1> USE ConstantsAssumption
    DEF TypeInv, vars, registry, futures, locals, requests, agents, Goto,
        RequestGoto, Servers, Served
<1>1. ASSUME NEW c \in Conns, Upgrade(c) PROVE HonestRefusals'
  BY <1>1 DEF Upgrade, HonestRefusals
<1>2. ASSUME NEW c \in Conns, RegisterConnection(c) PROVE HonestRefusals'
  BY <1>2 DEF RegisterConnection, HonestRefusals
<1>3. ASSUME NEW c \in Conns, HandleStdout(c) PROVE HonestRefusals'
  BY <1>3 DEF HandleStdout, HonestRefusals
<1>4. ASSUME NEW c \in Conns, HandleResult(c) PROVE HonestRefusals'
  BY <1>4 DEF HandleResult, HonestRefusals
<1>5. ASSUME NEW c \in Conns, ReadError(c) PROVE HonestRefusals'
  BY <1>5 DEF ReadError, HonestRefusals
<1>6. ASSUME NEW c \in Conns, UnregisterConnection(c) PROVE HonestRefusals'
  BY <1>6 DEF UnregisterConnection, HonestRefusals
<1>7. ASSUME NEW c \in Conns, AgentLost(c) PROVE HonestRefusals'
  BY <1>7 DEF AgentLost, HonestRefusals
<1>8. ASSUME NEW a \in Closers, CloseAgent(a) PROVE HonestRefusals'
  <2>1. \A s \in Reqs : connRef'[s] = connRef[s]
    BY <1>8 DEF CloseAgent, TypeOK
  <2>2. UNCHANGED <<reqPc, reply, toAgent, verdict>>
    BY <1>8 DEF CloseAgent
  <2>3. \A c \in Conns : toAgent[c] \subseteq Reqs
    BY DEF TypeOK
  <2>4. QED
    BY <2>1, <2>2, <2>3 DEF HonestRefusals
<1>9. ASSUME NEW a \in Closers, CloseSocket(a) PROVE HonestRefusals'
  BY <1>9 DEF CloseSocket, HonestRefusals
<1>10. ASSUME NEW p \in Servers, SnapshotTasks(p) PROVE HonestRefusals'
  BY <1>10 DEF SnapshotTasks, HonestRefusals
<1>11. ASSUME NEW p \in Servers, EndResolve(p) PROVE HonestRefusals'
  BY <1>11 DEF EndResolve, HonestRefusals
<1>12. ASSUME NEW p \in Servers, NEW t \in Tasks, NextTask(p, t) PROVE HonestRefusals'
  BY <1>12 DEF NextTask, HonestRefusals
<1>13. ASSUME NEW p \in Servers, LookupFuture(p) PROVE HonestRefusals'
  BY <1>13 DEF LookupFuture, HonestRefusals
<1>14. ASSUME NEW p \in Servers, Deliver(p) PROVE HonestRefusals'
  BY <1>14 DEF Deliver, HonestRefusals
<1>15. ASSUME NEW p \in Servers, DeletePending(p) PROVE HonestRefusals'
  BY <1>15 DEF DeletePending, HonestRefusals
<1>16. ASSUME NEW p \in Servers, DeleteStdout(p) PROVE HonestRefusals'
  BY <1>16 DEF DeleteStdout, HonestRefusals
<1>17. ASSUME NEW p \in Servers, DeleteHost(p) PROVE HonestRefusals'
  BY <1>17 DEF DeleteHost, HonestRefusals
<1>18. ASSUME NEW r \in Reqs, CheckAgentOnline(r) PROVE HonestRefusals'
  <2>1. /\ verdict' = verdict
        /\ \A d \in Conns : toAgent'[d] \subseteq toAgent[d] \cup {r}
    BY <1>18 DEF CheckAgentOnline, TypeOK
  <2>2. /\ reqPc' \in [Reqs -> RequestPc]
        /\ \A s \in Reqs \ {r} : reqPc'[s] = reqPc[s] /\ reply'[s] = reply[s]
    BY <1>18, TypeInvStep DEF CheckAgentOnline, TypeOK, Answer
  <2>3. verdict[r] = "none" /\ \A d \in Conns : r \notin toAgent[d]
    BY <1>18 DEF CheckAgentOnline, HonestRefusals
  <2>4. /\ reqPc'[r] \in {"unregPending", "unregHost", "unregStdout"} =>
             reply'[r].kind \in {"send_failed", "task_timeout"}
        /\ (\E d \in Conns : r \in toAgent'[d]) => reqPc'[r] = "wait"
    BY <1>18, <2>3 DEF CheckAgentOnline, TypeOK
  <2>5. \A d \in Conns : \A s \in toAgent'[d] : connRef'[s] = d
    BY <1>18, <2>3 DEF CheckAgentOnline, TypeOK, HonestRefusals
  <2>6. \A d \in Conns : \A s \in toAgent'[d] : verdict'[s] = "none"
    <3>1. \A d \in Conns : \A s \in toAgent[d] : verdict[s] = "none"
      BY DEF HonestRefusals
    <3>2. QED
      BY <2>1, <2>3, <3>1
  <2>7. ASSUME NEW s \in Reqs, s # r,
               verdict'[s] # "none" \/ \E d \in Conns : s \in toAgent'[d]
        PROVE  /\ reqPc'[s] \notin {"idle", "register", "getConn", "write"}
               /\ \/ reqPc'[s] = "wait"
                  \/ reply'[s].kind \notin {"agent_offline", "send_failed"}
    <3>1. verdict[s] # "none" \/ \E d \in Conns : s \in toAgent[d]
      BY <2>1, <2>7
    <3>2. QED
      BY <2>2, <2>7, <3>1 DEF HonestRefusals
  <2>8. \A s \in Reqs \ {r} : reqPc'[s] \in {"unregPending", "unregHost", "unregStdout"} =>
          reply'[s].kind \in {"send_failed", "task_timeout"}
    BY <2>2 DEF HonestRefusals
  <2>9. QED
    BY <2>1, <2>3, <2>4, <2>5, <2>6, <2>7, <2>8 DEF HonestRefusals
<1>19. ASSUME NEW r \in Reqs, RegisterFuture(r) PROVE HonestRefusals'
  BY <1>19 DEF RegisterFuture, HonestRefusals
<1>20. ASSUME NEW r \in Reqs, GetConnection(r) PROVE HonestRefusals'
  <2>1. /\ verdict' = verdict
        /\ \A d \in Conns : toAgent'[d] \subseteq toAgent[d] \cup {r}
    BY <1>20 DEF GetConnection, TypeOK
  <2>2. /\ reqPc' \in [Reqs -> RequestPc]
        /\ \A s \in Reqs \ {r} : reqPc'[s] = reqPc[s] /\ reply'[s] = reply[s]
    BY <1>20, TypeInvStep DEF GetConnection, TypeOK, Answer
  <2>3. verdict[r] = "none" /\ \A d \in Conns : r \notin toAgent[d]
    BY <1>20 DEF GetConnection, HonestRefusals
  <2>4. /\ reqPc'[r] \in {"unregPending", "unregHost", "unregStdout"} =>
             reply'[r].kind \in {"send_failed", "task_timeout"}
        /\ (\E d \in Conns : r \in toAgent'[d]) => reqPc'[r] = "wait"
    BY <1>20, <2>3 DEF GetConnection, TypeOK, Answer, Error
  <2>5. \A d \in Conns : \A s \in toAgent'[d] : connRef'[s] = d
    BY <1>20, <2>3 DEF GetConnection, TypeOK, HonestRefusals
  <2>6. \A d \in Conns : \A s \in toAgent'[d] : verdict'[s] = "none"
    <3>1. \A d \in Conns : \A s \in toAgent[d] : verdict[s] = "none"
      BY DEF HonestRefusals
    <3>2. QED
      BY <2>1, <2>3, <3>1
  <2>7. ASSUME NEW s \in Reqs, s # r,
               verdict'[s] # "none" \/ \E d \in Conns : s \in toAgent'[d]
        PROVE  /\ reqPc'[s] \notin {"idle", "register", "getConn", "write"}
               /\ \/ reqPc'[s] = "wait"
                  \/ reply'[s].kind \notin {"agent_offline", "send_failed"}
    <3>1. verdict[s] # "none" \/ \E d \in Conns : s \in toAgent[d]
      BY <2>1, <2>7
    <3>2. QED
      BY <2>2, <2>7, <3>1 DEF HonestRefusals
  <2>8. \A s \in Reqs \ {r} : reqPc'[s] \in {"unregPending", "unregHost", "unregStdout"} =>
          reply'[s].kind \in {"send_failed", "task_timeout"}
    BY <2>2 DEF HonestRefusals
  <2>9. QED
    BY <2>1, <2>3, <2>4, <2>5, <2>6, <2>7, <2>8 DEF HonestRefusals
<1>21. ASSUME NEW r \in Reqs, SendToAgent(r) PROVE HonestRefusals'
  <2>1. /\ verdict' = verdict
        /\ \A d \in Conns : toAgent'[d] \subseteq toAgent[d] \cup {r}
    <3>1. \/ toAgent' = toAgent
          \/ toAgent' = [toAgent EXCEPT ![connRef[r]] = toAgent[connRef[r]] \cup {r}]
      BY <1>21 DEF SendToAgent, TypeOK
    <3>2. verdict' = verdict /\ toAgent \in [Conns -> SUBSET Reqs]
      BY <1>21 DEF SendToAgent, TypeOK
    <3>3. QED
      BY <3>1, <3>2
  <2>2. /\ reqPc' \in [Reqs -> RequestPc]
        /\ \A s \in Reqs \ {r} : reqPc'[s] = reqPc[s] /\ reply'[s] = reply[s]
    BY <1>21, TypeInvStep DEF SendToAgent, TypeOK, Answer
  <2>3. verdict[r] = "none" /\ \A d \in Conns : r \notin toAgent[d]
    BY <1>21 DEF SendToAgent, HonestRefusals
  <2>4. /\ reqPc'[r] \in {"unregPending", "unregHost", "unregStdout"} =>
             reply'[r].kind \in {"send_failed", "task_timeout"}
        /\ (\E d \in Conns : r \in toAgent'[d]) => reqPc'[r] = "wait"
    BY <1>21, <2>3 DEF SendToAgent, TypeOK, Answer, Error
  <2>5. \A d \in Conns : \A s \in toAgent'[d] : connRef'[s] = d
    <3>1. connRef' = connRef
      BY <1>21 DEF SendToAgent
    <3>2. \A d \in Conns : toAgent'[d] = toAgent[d] \/ (d = connRef[r] /\ toAgent'[d] = toAgent[d] \cup {r})
      BY <1>21 DEF SendToAgent, TypeOK
    <3>3. QED
      BY <3>1, <3>2 DEF HonestRefusals
  <2>6. \A d \in Conns : \A s \in toAgent'[d] : verdict'[s] = "none"
    <3>1. \A d \in Conns : \A s \in toAgent[d] : verdict[s] = "none"
      BY DEF HonestRefusals
    <3>2. QED
      BY <2>1, <2>3, <3>1
  <2>7. ASSUME NEW s \in Reqs, s # r,
               verdict'[s] # "none" \/ \E d \in Conns : s \in toAgent'[d]
        PROVE  /\ reqPc'[s] \notin {"idle", "register", "getConn", "write"}
               /\ \/ reqPc'[s] = "wait"
                  \/ reply'[s].kind \notin {"agent_offline", "send_failed"}
    <3>1. verdict[s] # "none" \/ \E d \in Conns : s \in toAgent[d]
      BY <2>1, <2>7
    <3>2. QED
      BY <2>2, <2>7, <3>1 DEF HonestRefusals
  <2>8. \A s \in Reqs \ {r} : reqPc'[s] \in {"unregPending", "unregHost", "unregStdout"} =>
          reply'[s].kind \in {"send_failed", "task_timeout"}
    BY <2>2 DEF HonestRefusals
  <2>9. QED
    BY <2>1, <2>3, <2>4, <2>5, <2>6, <2>7, <2>8 DEF HonestRefusals
<1>22. ASSUME NEW r \in Reqs, ReceiveResult(r) PROVE HonestRefusals'
  <2>1. /\ UNCHANGED <<connRef, toAgent, verdict>>
        /\ \A s \in Reqs \ {r} : reqPc'[s] = reqPc[s] /\ reply'[s] = reply[s]
        /\ reqPc'[r] = "done" /\ reply'[r] = channel[r]
    BY <1>22 DEF ReceiveResult, TypeOK
  <2>2. channel[r].kind \in Outcomes
    BY <1>22 DEF ReceiveResult
  <2>3. \A c \in Conns : toAgent[c] \subseteq Reqs
    BY DEF TypeOK
  <2>4. QED
    BY <2>1, <2>2, <2>3 DEF Outcomes, HonestRefusals
<1>23. ASSUME NEW r \in Reqs, Timeout(r) PROVE HonestRefusals'
  BY <1>23 DEF Timeout, Answer, Error, TypeOK, HonestRefusals
<1>24. ASSUME NEW r \in Reqs, UnregisterPending(r) PROVE HonestRefusals'
  BY <1>24 DEF UnregisterPending, HonestRefusals
<1>25. ASSUME NEW r \in Reqs, UnregisterHost(r) PROVE HonestRefusals'
  BY <1>25 DEF UnregisterHost, HonestRefusals
<1>26. ASSUME NEW r \in Reqs, UnregisterStdout(r) PROVE HonestRefusals'
  BY <1>26 DEF UnregisterStdout, HonestRefusals
<1>27. ASSUME NEW c \in Conns, NEW r \in Reqs, AgentStdout(c, r) PROVE HonestRefusals'
  BY <1>27 DEF AgentStdout, HonestRefusals
<1>28. ASSUME NEW c \in Conns, NEW r \in Reqs, AgentResult(c, r) PROVE HonestRefusals'
  <2>1. /\ \A d \in Conns : toAgent'[d] \subseteq toAgent[d] /\ toAgent[d] \subseteq Reqs
        /\ r \in toAgent[c] /\ r \notin toAgent'[c]
        /\ UNCHANGED <<reqPc, reply, connRef>>
    BY <1>28 DEF AgentResult, TypeOK
  <2>2. \A s \in Reqs \ {r} : verdict'[s] = verdict[s]
    BY <1>28, SetIsServed
  <2>3. \A d \in Conns : r \in toAgent[d] => d = c
    BY <2>1 DEF HonestRefusals
  <2>4. QED
    BY <2>1, <2>2, <2>3 DEF HonestRefusals
<1>29. CASE UNCHANGED vars
  BY <1>29 DEF HonestRefusals
<1>30. QED
  BY <1>1, <1>2, <1>3, <1>4, <1>5, <1>6, <1>7, <1>8, <1>9, <1>10, <1>11, <1>12,
     <1>13, <1>14, <1>15, <1>16, <1>17, <1>18, <1>19, <1>20, <1>21, <1>22, <1>23,
     <1>24, <1>25, <1>26, <1>27, <1>28, <1>29, NextActions

-----------------------------------------------------------------------------
(* The steps, seen through the mapping of Promise.                         *)

\* What the mapping has for Kinds, answer and ran.
Kinds == (ErrorKinds \cup AllVerdicts) \ {"none"}
ToldTo == [r \in Reqs |-> IF Answered(r) THEN Told(reply[r]) ELSE "none"]
Ran == {r \in Reqs : verdict[r] = "ran"}

\* The step of a request that neither starts nor is answered, or of another
\* goroutine.
LEMMA Stutters ==
  ASSUME verdict' = verdict,
         \A s \in Reqs :
           /\ reqPc'[s] = "idle" <=> reqPc[s] = "idle"
           /\ reqPc'[s] = "done" <=> reqPc[s] = "done"
           /\ reqPc[s] = "done" => reply'[s] = reply[s]
  PROVE  UNCHANGED Promise!vars
<1>1. {s \in Reqs : reqPc'[s] # "idle"} = {s \in Reqs : reqPc[s] # "idle"}
  OBVIOUS
<1>2. ToldTo' = ToldTo
  BY DEF ToldTo, Told, Answered
<1>3. QED
  BY <1>1, <1>2 DEF Promise!vars, ToldTo

\* A request r is answered.
LEMMA Gives ==
  ASSUME TypeOK, NEW r \in Reqs, NEW kind, Told(reply'[r]) = kind,
         reqPc[r] # "done", reqPc' = [reqPc EXCEPT ![r] = "done"],
         verdict' = verdict,
         \A s \in Reqs \ {r} : reply'[s] = reply[s],
         kind = "ran" => verdict[r] = "ran",
         kind \in Refusals => verdict[r] # "ran"
  PROVE  Promise!Give(r, kind)
<1>1. ToldTo[r] = "none"
  BY DEF ToldTo, Answered
<1>2. ToldTo' = [ToldTo EXCEPT ![r] = kind]
  BY DEF ToldTo, Told, Answered, TypeOK
<1>3. QED
  BY <1>1, <1>2 DEF Promise!Give, ToldTo

\* A step of a request that keeps it among those asked, without an answer.
LEMMA SilentRequest ==
  ASSUME TypeInv, NEW r \in Reqs,
         \/ RegisterFuture(r) \/ GetConnection(r) \/ SendToAgent(r) \/ Timeout(r)
         \/ UnregisterPending(r) \/ UnregisterHost(r)
  PROVE  UNCHANGED Promise!vars
<1> USE DEF TypeInv, TypeOK, requests, agents, RequestGoto, Answer
<1>1. verdict' = verdict
  BY DEF RegisterFuture, GetConnection, SendToAgent, Timeout, UnregisterPending,
         UnregisterHost
<1>2. /\ reqPc[r] \notin {"idle", "done"}
      /\ \E label \in RequestPc \ {"idle", "done"} : reqPc' = [reqPc EXCEPT ![r] = label]
  BY DEF RegisterFuture, GetConnection, SendToAgent, Timeout, UnregisterPending,
         UnregisterHost, RequestPc
<1>3. \A s \in Reqs \ {r} : reply'[s] = reply[s]
  BY DEF RegisterFuture, GetConnection, SendToAgent, Timeout, UnregisterPending,
         UnregisterHost
<1>4. QED
  BY <1>1, <1>2, <1>3, Stutters

\* Every step of the relay is a step of the promise, or none.
LEMMA PromiseStep ==
  ASSUME TypeInv, HonestInv, [Next]_vars
  PROVE  [Promise!Next]_(Promise!vars)
<1> USE DEF TypeInv, Goto, RequestGoto, Answer
<1>1. CASE \/ \E c \in Conns :
                \/ Upgrade(c) \/ RegisterConnection(c) \/ HandleStdout(c)
                \/ HandleResult(c) \/ ReadError(c) \/ UnregisterConnection(c)
                \/ AgentLost(c)
           \/ \E a \in Closers : CloseAgent(a) \/ CloseSocket(a)
           \/ \E p \in Servers :
                \/ SnapshotTasks(p) \/ EndResolve(p)
                \/ \E t \in Tasks : NextTask(p, t)
           \/ \E p \in Servers :
                \/ LookupFuture(p) \/ Deliver(p) \/ DeletePending(p)
                \/ DeleteStdout(p) \/ DeleteHost(p)
           \/ \E c \in Conns, r \in Reqs : AgentStdout(c, r)
           \/ UNCHANGED vars
  <2>1. CASE \E c \in Conns :
               \/ Upgrade(c) \/ RegisterConnection(c) \/ HandleStdout(c)
               \/ HandleResult(c) \/ ReadError(c) \/ UnregisterConnection(c)
               \/ AgentLost(c)
    BY <2>1, Stutters
       DEF Upgrade, RegisterConnection, HandleStdout, HandleResult, ReadError,
           UnregisterConnection, AgentLost, requests, agents
  <2>2. CASE \/ \E a \in Closers : CloseAgent(a) \/ CloseSocket(a)
             \/ \E c \in Conns, r \in Reqs : AgentStdout(c, r)
             \/ UNCHANGED vars
    BY <2>2, Stutters DEF CloseAgent, CloseSocket, AgentStdout, vars, requests, agents
  <2>3. CASE \E p \in Servers :
               \/ SnapshotTasks(p) \/ EndResolve(p)
               \/ \E t \in Tasks : NextTask(p, t)
               \/ LookupFuture(p) \/ Deliver(p) \/ DeletePending(p)
               \/ DeleteStdout(p) \/ DeleteHost(p)
    BY <2>3, Stutters
       DEF SnapshotTasks, EndResolve, NextTask, LookupFuture, Deliver, DeletePending,
           DeleteStdout, DeleteHost, requests, agents
  <2>4. QED
    BY <1>1, <2>1, <2>2, <2>3
<1>2. ASSUME NEW c \in Conns, NEW r \in Reqs, AgentResult(c, r)
      PROVE  Promise!Run(r) \/ UNCHANGED Promise!vars
  <2>1. /\ r \in toAgent[c] /\ verdict[r] = "none"
        /\ UNCHANGED <<reqPc, reply>>
    BY <1>2 DEF AgentResult, requests, HonestInv, HonestRefusals, Served
  <2>2. /\ reqPc[r] # "idle"
        /\ reqPc[r] = "wait" \/ reply[r].kind \notin {"agent_offline", "send_failed"}
    BY <2>1 DEF HonestInv, HonestRefusals
  <2>3. \A s \in Reqs : reply[s].kind = "result" => reply[s].req = s /\ s # r
    BY <2>1 DEF HonestInv, HonestOutcomes, Served
  <2>4. /\ verdict'[r] \in Verdicts
        /\ \A s \in Reqs \ {r} : verdict'[s] = verdict[s]
    BY <1>2, SetIsServed
  <2>5. ToldTo' = ToldTo
    BY <2>1, <2>3, <2>4 DEF ToldTo, Told, Answered
  <2>6. {s \in Reqs : reqPc'[s] # "idle"} = {s \in Reqs : reqPc[s] # "idle"}
    BY <2>1
  <2>7. CASE verdict'[r] = "ran"
    <3>1. r \in {s \in Reqs : reqPc[s] # "idle"} \ Ran
      BY <2>1, <2>2 DEF Ran
    <3>2. Ran' = Ran \cup {r}
      BY <2>4, <2>7 DEF Ran
    <3>3. ToldTo[r] \notin Refusals
      <4>1. reply[r].kind # "result"
        BY <2>3
      <4>2. reply[r].kind # "refused"
        BY DEF TypeOK, Answers, ErrorKinds
      <4>3. QED
        BY <2>2, <4>1, <4>2 DEF ToldTo, Told, Answered, Refusals
    <3>4. QED
      BY <2>5, <2>6, <3>1, <3>2, <3>3 DEF Promise!Run, ToldTo, Ran
  <2>8. CASE verdict'[r] # "ran"
    <3>1. Ran' = Ran
      BY <2>1, <2>4, <2>8 DEF Ran
    <3>2. QED
      BY <2>5, <2>6, <3>1 DEF Promise!vars, ToldTo, Ran
  <2>9. QED
    BY <2>7, <2>8
<1>3. ASSUME NEW r \in Reqs, CheckAgentOnline(r)
      PROVE  Promise!Ask(r) \/ Promise!Refuse(r)
  <2>1. /\ reqPc[r] = "idle" /\ verdict[r] = "none" /\ verdict' = verdict
    BY <1>3 DEF CheckAgentOnline, agents, HonestInv, HonestRefusals, Served
  <2>2. CASE RequestGoto(r, "register") /\ UNCHANGED reply
    <3>1. {s \in Reqs : reqPc'[s] # "idle"} = {s \in Reqs : reqPc[s] # "idle"} \cup {r}
      BY <2>2 DEF TypeOK
    <3>2. ToldTo' = ToldTo
      BY <2>1, <2>2 DEF ToldTo, Told, Answered, TypeOK
    <3>3. QED
      BY <2>1, <3>1, <3>2 DEF Promise!Ask, ToldTo
  <2>3. CASE RequestGoto(r, "done") /\ Answer(r, "agent_offline")
    <3>1. {s \in Reqs : reqPc'[s] # "idle"} = {s \in Reqs : reqPc[s] # "idle"} \cup {r}
      BY <2>3 DEF TypeOK
    <3>2. /\ reply'[r].kind = "agent_offline"
          /\ \A s \in Reqs \ {r} : reply'[s] = reply[s]
      BY <2>3 DEF TypeOK, Error
    <3>3. Told(reply'[r]) = "agent_offline"
      BY <3>2 DEF Told
    <3>4. Promise!Give(r, "agent_offline")
      BY <2>1, <2>3, <3>2, <3>3, Gives
    <3>5. QED
      BY <2>1, <3>1, <3>4 DEF Promise!Refuse, Refusals
  <2>4. QED
    BY <1>3, <2>2, <2>3 DEF CheckAgentOnline
<1>4. ASSUME NEW r \in Reqs, ReceiveResult(r) \/ UnregisterStdout(r)
      PROVE  Promise!Reply(r)
  <2>1. /\ reqPc[r] \in {"wait", "unregStdout"}
        /\ reqPc' = [reqPc EXCEPT ![r] = "done"]
        /\ verdict' = verdict
        /\ \A s \in Reqs \ {r} : reply'[s] = reply[s]
    BY <1>4 DEF ReceiveResult, UnregisterStdout, TypeOK, agents
  <2>2. /\ Told(reply'[r]) \in Kinds
        /\ Told(reply'[r]) = "ran" => verdict[r] = "ran"
        /\ Told(reply'[r]) \in Refusals => verdict[r] # "ran"
    <3>1. CASE ReceiveResult(r)
      <4>1. /\ reply'[r] = channel[r] /\ channel[r].kind \in Outcomes
            /\ channel[r].kind = "result" => channel[r].req = r /\ Served(r)
        BY <3>1 DEF ReceiveResult, TypeOK, HonestInv, HonestOutcomes
      <4>2. verdict[r] \in AllVerdicts \cup {"none"}
        BY DEF TypeOK
      <4>3. QED
        BY <4>1, <4>2
           DEF Told, Outcomes, Kinds, ErrorKinds, AllVerdicts, Refusals, Served
    <3>2. CASE UnregisterStdout(r)
      <4>1. /\ reply'[r] = reply[r] /\ reply[r].kind \in {"send_failed", "task_timeout"}
            /\ reqPc[r] = "unregStdout"
        BY <3>2 DEF UnregisterStdout, HonestInv, HonestRefusals
      <4>2. reply[r].kind = "send_failed" => ~Served(r)
        BY <4>1 DEF HonestInv, HonestRefusals
      <4>3. QED
        BY <4>1, <4>2
           DEF Told, Kinds, ErrorKinds, AllVerdicts, Refusals, Served
    <3>3. QED
      BY <1>4, <3>1, <3>2
  <2>3. \E kind \in Kinds : Promise!Give(r, kind)
    BY <2>1, <2>2, Gives
  <2>4. {s \in Reqs : reqPc'[s] # "idle"} = {s \in Reqs : reqPc[s] # "idle"}
    BY <2>1 DEF TypeOK
  <2>5. r \in {s \in Reqs : reqPc[s] # "idle"}
    BY <2>1
  <2>6. QED
    BY <2>3, <2>4, <2>5 DEF Promise!Reply, Kinds
<1>5. QED
  BY <1>1, <1>2, <1>3, <1>4, SilentRequest, NextActions DEF Promise!Next

\* With unique task ids, the exec, upload and fetch handlers implement the
\* promise, whatever connections, results, timeouts and administrators do: one
\* answer per request; a 200 that tells of a run only for a command that ran;
\* agent_offline, send_failed and a 200 with the agent's refusal (agent_busy,
\* expired, not started) only for one that does not run, before or after.
THEOREM RelayImplementsPromise == UniqueIds => (Spec => KeepsPromise)
<1> SUFFICES ASSUME UniqueIds PROVE Spec => KeepsPromise
  OBVIOUS
<1>1. Init => LoopHeld /\ HonestInv /\ Promise!Init
  BY ConstantsAssumption
     DEF Init, LoopHeld, HonestInv, HonestOutcomes, CarriedResults, HonestRefusals, NoAnswer, Error,
         Servers, Settling, Promise!Init, Answered, Served
<1>2. TypeInv /\ FutureInv /\ LoopHeld /\ HonestInv /\ [Next]_vars => HonestInv'
  BY HonestOutcomesStep, HonestRefusalsStep DEF HonestInv, HonestOutcomes
<1>3. TypeInv /\ HonestInv /\ [Next]_vars => [Promise!Next]_(Promise!vars)
  BY PromiseStep
<1>4. TypeInv /\ FutureInv /\ [Next]_vars => FutureInv'
  BY FutureInvStep
<1>5. QED
  BY <1>1, <1>2, <1>3, <1>4, LoopStep, TypeInvInit, TypeInvStep, FutureInvInit,
     PTL DEF Spec, KeepsPromise, Promise!Spec

-----------------------------------------------------------------------------
(* What a complete answer is: lemmas about the output in a queue.          *)

\* The positions of a queue are finitely many.
LEMMA OutputFinite ==
  ASSUME NEW q \in Seq(Messages), NEW r
  PROVE  /\ IsFiniteSet(OutputOf(r, q))
         /\ Cardinality(OutputOf(r, q)) \in Nat
<1>1. IsFiniteSet(1..Len(q))
  BY FS_Interval
<1>2. OutputOf(r, q) \subseteq 1..Len(q)
  BY DEF OutputOf
<1>3. QED
  BY <1>1, <1>2, FS_Subset, FS_CardinalityType

\* A message sent is counted if it is output of r.
LEMMA OutputAppend ==
  ASSUME NEW q \in Seq(Messages), NEW m \in Messages, NEW r
  PROVE  Cardinality(OutputOf(r, Append(q, m)))
           = Cardinality(OutputOf(r, q))
               + (IF m.kind = "stdout" /\ m.req = r THEN 1 ELSE 0)
<1> DEFINE n == Len(q) + 1
<1>1. /\ Len(Append(q, m)) = n /\ Append(q, m)[n] = m
      /\ \A i \in 1..Len(q) : Append(q, m)[i] = q[i]
      /\ 1..n = (1..Len(q)) \cup {n} /\ n \notin 1..Len(q)
  OBVIOUS
<1>2. n \notin OutputOf(r, q)
  BY <1>1 DEF OutputOf
<1>3. CASE m.kind = "stdout" /\ m.req = r
  <2>1. OutputOf(r, Append(q, m)) = OutputOf(r, q) \cup {n}
    BY <1>1, <1>3 DEF OutputOf
  <2>2. QED
    BY <1>2, <1>3, <2>1, OutputFinite, FS_AddElement
<1>4. CASE ~(m.kind = "stdout" /\ m.req = r)
  <2>1. OutputOf(r, Append(q, m)) = OutputOf(r, q)
    BY <1>1, <1>4 DEF OutputOf
  <2>2. QED
    BY <1>4, <2>1, OutputFinite
<1>5. QED
  BY <1>3, <1>4

\* A message read was counted if it is output of r.
LEMMA OutputTail ==
  ASSUME NEW q \in Seq(Messages), q # <<>>, NEW r
  PROVE  Cardinality(OutputOf(r, q))
           = Cardinality(OutputOf(r, Tail(q)))
               + (IF Head(q).kind = "stdout" /\ Head(q).req = r THEN 1 ELSE 0)
<1> DEFINE later == OutputOf(r, q) \ {1}
           shift == [i \in OutputOf(r, Tail(q)) |-> i + 1]
<1>1. /\ Tail(q) \in Seq(Messages) /\ Len(q) \in Nat /\ Len(q) >= 1
      /\ Len(Tail(q)) = Len(q) - 1 /\ Head(q) = q[1]
      /\ \A i \in 1..(Len(q) - 1) : Tail(q)[i] = q[i + 1]
  OBVIOUS
<1>2. \A i \in OutputOf(r, Tail(q)) : i \in 1..(Len(q) - 1) /\ i + 1 \in later
  BY <1>1 DEF OutputOf
<1>3. \A j \in later : j - 1 \in OutputOf(r, Tail(q)) /\ (j - 1) + 1 = j
  BY <1>1 DEF OutputOf
<1>4. shift \in Bijection(OutputOf(r, Tail(q)), later)
  <2>1. shift \in [OutputOf(r, Tail(q)) -> later]
    BY <1>2
  <2>2. \A i, j \in OutputOf(r, Tail(q)) : shift[i] = shift[j] => i = j
    BY <1>2
  <2>3. \A j \in later : \E i \in OutputOf(r, Tail(q)) : shift[i] = j
    BY <1>3
  <2>4. QED
    BY <2>1, <2>2, <2>3 DEF Bijection, Injection, Surjection, IsInjective
<1>5. Cardinality(later) = Cardinality(OutputOf(r, Tail(q)))
  <2>1. ExistsBijection(OutputOf(r, Tail(q)), later)
    BY <1>4 DEF ExistsBijection
  <2>2. IsFiniteSet(OutputOf(r, Tail(q)))
    BY <1>1, OutputFinite
  <2> HIDE DEF later
  <2>3. QED
    BY <2>1, <2>2, FS_Bijection
<1>6. 1 \in OutputOf(r, q) <=> Head(q).kind = "stdout" /\ Head(q).req = r
  BY <1>1 DEF OutputOf
<1>7. /\ IsFiniteSet(OutputOf(r, q)) /\ Cardinality(OutputOf(r, q)) \in Nat
      /\ Cardinality(OutputOf(r, Tail(q))) \in Nat
  BY <1>1, OutputFinite
<1>8. Cardinality(later)
        = IF 1 \in OutputOf(r, q) THEN Cardinality(OutputOf(r, q)) - 1
          ELSE Cardinality(OutputOf(r, q))
  BY <1>7, FS_RemoveElement
<1>9. QED
  BY <1>5, <1>6, <1>7, <1>8

-----------------------------------------------------------------------------
(* Steps that neither send, read nor deliver.                              *)

\* A step that delivers at most what a waiting request already has, and leaves
\* buffers, messages and output alone where they still count.
LEMMA OutputFrame ==
  ASSUME TypeOK, HonestRefusals, OutputInv,
         toAgent' = toAgent, fromAgent' = fromAgent, chunks' = chunks,
         verdict' = verdict,
         \A s \in Reqs :
           /\ Unsent(s)' => Unsent(s)
           /\ reqPc'[s] = "wait" => reqPc[s] = "wait"
           /\ ~Unsent(s) => connRef'[s] = connRef[s]
           /\ (Unsent(s)' \/ reqPc'[s] = "wait") /\ channel'[s] = NoAnswer =>
                /\ channel[s] = NoAnswer
                /\ stdoutBuffers'[TaskOf[s]] = stdoutBuffers[TaskOf[s]]
           /\ channel'[s] = channel[s] \/ channel'[s] = NoAnswer
           /\ \/ reply'[s] = reply[s]
              \/ reply'[s].kind # "result"
              \/ reqPc[s] = "wait" /\ reply'[s] = channel[s],
         \A p \in Servers :
           pc'[p] \in {"lookup", "deliver"} /\ out'[p].kind = "result" =>
             /\ pc[p] \in {"lookup", "deliver"}
             /\ out'[p] = out[p] /\ cur'[p] = cur[p]
  PROVE  OutputInv'
<1>1. OneConnection'
  <2>1. \A r \in Reqs : Unsent(r)' => chunks'[r] = 0
    BY DEF OutputInv, OneConnection
  <2>2. ASSUME NEW c \in Conns, NEW i \in 1..Len(fromAgent[c])
        PROVE  connRef'[fromAgent[c][i].req] = c /\ ~Unsent(fromAgent[c][i].req)'
    <3>1. PICK r \in Reqs : r = fromAgent[c][i].req
      BY MessageType
    <3>2. connRef[r] = c /\ ~Unsent(r)
      BY <3>1 DEF OutputInv, OneConnection
    <3>3. connRef'[r] = c /\ ~Unsent(r)'
      BY <3>2
    <3>4. QED
      BY <3>1, <3>3 DEF Unsent
  <2>3. QED
    BY <2>1, <2>2 DEF OneConnection, Unsent
<1>2. ResultIsLast'
  BY DEF OutputInv, ResultIsLast
<1>3. OutputIsKept'
  <2> SUFFICES ASSUME NEW r \in Reqs, channel'[r] = NoAnswer
               PROVE  /\ Unsent(r)' => stdoutBuffers'[TaskOf[r]] = 0
                      /\ reqPc'[r] = "wait" =>
                           LET unread == Cardinality(OutputOf(r, fromAgent'[connRef'[r]]))
                           IN  /\ unread <= chunks'[r]
                               /\ stdoutBuffers'[TaskOf[r]] = Capped(chunks'[r] - unread)
    BY DEF OutputIsKept, Unsent, OutputOf, Capped
  <2>1. CASE Unsent(r)'
    BY <2>1 DEF OutputInv, OutputIsKept, Unsent
  <2>2. CASE reqPc'[r] = "wait"
    <3>1. reqPc[r] = "wait" /\ ~Unsent(r)
      BY <2>2 DEF Unsent
    <3>2. connRef'[r] = connRef[r]
      BY <3>1
    <3>3. channel[r] = NoAnswer /\ stdoutBuffers'[TaskOf[r]] = stdoutBuffers[TaskOf[r]]
      BY <2>2
    <3>4. ~Unsent(r)'
      BY <2>2 DEF Unsent
    <3>5. QED
      BY <3>1, <3>2, <3>3, <3>4 DEF OutputInv, OutputIsKept
  <2>3. QED
    BY <2>1, <2>2
<1>4. ResultsAreComplete'
  <2>1. \A m, r : Complete(m, r)' <=> Complete(m, r)
    BY DEF Complete, Served
  <2>2. ASSUME NEW p \in Servers, NEW r \in Reqs,
               pc'[p] \in {"lookup", "deliver"}, cur'[p] = TaskOf[r],
               out'[p].kind = "result", reqPc'[r] = "wait", channel'[r] = NoAnswer
        PROVE  Complete(out'[p], r)
    BY <2>2 DEF OutputInv, ResultsAreComplete
  <2>3. ASSUME NEW r \in Reqs, reqPc'[r] = "wait", channel'[r].kind = "result"
        PROVE  Complete(channel'[r], r)
    BY <2>3 DEF OutputInv, ResultsAreComplete, NoAnswer, Error
  <2>4. ASSUME NEW r \in Reqs, reply'[r].kind = "result"
        PROVE  Complete(reply'[r], r)
    BY <2>4 DEF OutputInv, ResultsAreComplete
  <2>5. QED
    BY <2>2, <2>3, <2>4 DEF ResultsAreComplete, Complete, Served
<1>5. QED
  BY <1>1, <1>2, <1>3, <1>4 DEF OutputInv

\* The steps that OutputFrame covers: those of a goroutine that delivers nothing,
LEMMA OutputOfServers ==
  ASSUME UniqueIds, TypeInv, FutureInv, LoopHeld, HonestInv, OutputInv,
         \/ \E c \in Conns :
              \/ Upgrade(c) \/ RegisterConnection(c) \/ ReadError(c)
              \/ UnregisterConnection(c) \/ AgentLost(c)
         \/ \E a \in Closers : CloseAgent(a) \/ CloseSocket(a)
         \/ \E p \in Servers :
              \/ SnapshotTasks(p) \/ EndResolve(p)
              \/ \E t \in Tasks : NextTask(p, t)
         \/ \E p \in Servers :
              \/ LookupFuture(p) \/ DeletePending(p) \/ DeleteStdout(p)
              \/ DeleteHost(p)
         \/ UNCHANGED vars
  PROVE  OutputInv'
<1>1. UNCHANGED <<reqPc, channel, reply, toAgent, fromAgent, chunks, verdict>>
  BY DEF Upgrade, RegisterConnection, ReadError, UnregisterConnection, AgentLost,
         CloseAgent, CloseSocket, SnapshotTasks, EndResolve, NextTask, LookupFuture,
         DeletePending, DeleteStdout, DeleteHost, vars, futures, requests, agents
<1>2. \A s \in Reqs : connRef'[s] = connRef[s]
  <2>1. CASE connRef' = connRef
    BY <2>1
  <2>2. CASE \E a \in Closers : CloseAgent(a)
    BY <2>2, ConstantsAssumption DEF CloseAgent, TypeInv, TypeOK
  <2>3. QED
    BY <2>1, <2>2
       DEF Upgrade, RegisterConnection, ReadError, UnregisterConnection, AgentLost,
           CloseSocket, SnapshotTasks, EndResolve, NextTask, LookupFuture,
           DeletePending, DeleteStdout, DeleteHost, vars, requests
<1>3. \A s \in Reqs :
        (Unsent(s) \/ reqPc[s] = "wait") /\ channel[s] = NoAnswer =>
          stdoutBuffers'[TaskOf[s]] = stdoutBuffers[TaskOf[s]]
  <2>1. CASE stdoutBuffers' = stdoutBuffers
    BY <2>1
  <2>2. ASSUME NEW p \in Servers, DeleteStdout(p), NEW s \in Reqs, cur[p] = TaskOf[s]
        PROVE  ~((Unsent(s) \/ reqPc[s] = "wait") /\ channel[s] = NoAnswer)
    <3>1. pc[p] = "delStdout"
      BY <2>2 DEF DeleteStdout
    <3>2. Begun(s)
      BY <2>2, <3>1 DEF FutureInv, TracesBegun, Settling
    <3>3. InFlight(s) => channel[s] # NoAnswer
      BY <2>2, <3>1 DEF FutureInv, DeliveredFirst
    <3>4. QED
      BY <3>2, <3>3 DEF Begun, InFlight, Unsent
  <2>3. CASE \E p \in Servers : DeleteStdout(p)
    <3>1. PICK p \in Servers : DeleteStdout(p)
      BY <2>3
    <3>2. \A t \in Tasks : t # cur[p] => stdoutBuffers'[t] = stdoutBuffers[t]
      BY <3>1 DEF DeleteStdout, TypeInv, TypeOK
    <3>3. \A s \in Reqs : TaskOf[s] \in Tasks
      BY ConstantsAssumption
    <3>4. QED
      BY <2>2, <3>1, <3>2, <3>3
  <2>4. QED
    BY <2>1, <2>3
       DEF Upgrade, RegisterConnection, ReadError, UnregisterConnection, AgentLost,
           CloseAgent, CloseSocket, SnapshotTasks, EndResolve, NextTask, LookupFuture,
           DeletePending, DeleteHost, vars, futures
<1>4. \A p \in Servers :
        pc'[p] \in {"lookup", "deliver"} /\ out'[p].kind = "result" =>
          /\ pc[p] \in {"lookup", "deliver"}
          /\ out'[p] = out[p] /\ cur'[p] = cur[p]
  <2> USE DEF TypeInv, TypeOK, Servers, Goto, locals
  <2>1. CASE \E c \in Conns :
               \/ Upgrade(c) \/ RegisterConnection(c) \/ ReadError(c)
               \/ UnregisterConnection(c) \/ AgentLost(c)
    BY <2>1
       DEF Upgrade, RegisterConnection, ReadError, UnregisterConnection, AgentLost
  <2>2. CASE \E a \in Closers : CloseAgent(a) \/ CloseSocket(a)
    BY <2>2 DEF CloseAgent, CloseSocket
  <2>3. CASE \E p \in Servers : SnapshotTasks(p) \/ EndResolve(p)
    BY <2>3 DEF SnapshotTasks, EndResolve
  <2>4. CASE \E p \in Servers, t \in Tasks : NextTask(p, t)
    BY <2>4 DEF NextTask, LoopHeld, Resolving
  <2>5. CASE \E p \in Servers : LookupFuture(p) \/ DeletePending(p)
    BY <2>5 DEF LookupFuture, DeletePending
  <2>6. CASE \E p \in Servers : DeleteStdout(p) \/ DeleteHost(p)
    BY <2>6 DEF DeleteStdout, DeleteHost
  <2>7. CASE UNCHANGED vars
    BY <2>7 DEF vars
  <2>8. QED
    BY <2>1, <2>2, <2>3, <2>4, <2>5, <2>6, <2>7
<1>5. \A s \in Reqs : Unsent(s)' <=> Unsent(s)
  BY <1>1 DEF Unsent
<1>6. QED
  BY <1>1, <1>2, <1>3, <1>4, <1>5, OutputFrame DEF TypeInv, HonestInv

\* and those of a request, but for its write.
LEMMA OutputOfRequests ==
  ASSUME UniqueIds, TypeInv, HonestInv, OutputInv, NEW r \in Reqs,
         \/ CheckAgentOnline(r) \/ RegisterFuture(r) \/ GetConnection(r)
         \/ ReceiveResult(r) \/ Timeout(r) \/ UnregisterPending(r)
         \/ UnregisterHost(r) \/ UnregisterStdout(r)
  PROVE  OutputInv'
<1> USE DEF TypeInv, TypeOK, RequestGoto, Answer
<1>1. UNCHANGED <<toAgent, fromAgent, chunks, verdict, pc, out, cur>>
  BY DEF CheckAgentOnline, RegisterFuture, GetConnection, ReceiveResult, Timeout,
         UnregisterPending, UnregisterHost, UnregisterStdout, agents, locals
<1>2. \A s \in Reqs \ {r} :
        /\ reqPc'[s] = reqPc[s] /\ connRef'[s] = connRef[s]
        /\ channel'[s] = channel[s] /\ reply'[s] = reply[s]
        /\ stdoutBuffers'[TaskOf[s]] = stdoutBuffers[TaskOf[s]]
  <2>1. \A s \in Reqs \ {r} : TaskOf[s] \in Tasks /\ TaskOf[s] # TaskOf[r]
    BY ConstantsAssumption DEF UniqueIds
  <2>2. CASE CheckAgentOnline(r) \/ RegisterFuture(r) \/ GetConnection(r)
    BY <2>2 DEF CheckAgentOnline, RegisterFuture, GetConnection, futures, requests
  <2>3. CASE ReceiveResult(r) \/ Timeout(r)
    BY <2>3 DEF ReceiveResult, Timeout, futures, requests
  <2>4. CASE UnregisterPending(r) \/ UnregisterHost(r)
    BY <2>4 DEF UnregisterPending, UnregisterHost, futures, requests
  <2>5. CASE UnregisterStdout(r)
    BY <2>1, <2>5 DEF UnregisterStdout, futures, requests
  <2>6. QED
    BY <2>2, <2>3, <2>4, <2>5
<1>3. /\ Unsent(r)' => Unsent(r)
      /\ reqPc'[r] # "wait"
      /\ ~Unsent(r) => connRef'[r] = connRef[r]
      /\ Unsent(r)' => channel'[r] = channel[r] /\ stdoutBuffers' = stdoutBuffers
      /\ channel'[r] = channel[r] \/ channel'[r] = NoAnswer
      /\ \/ reply'[r] = reply[r]
         \/ reply'[r].kind # "result"
         \/ reqPc[r] = "wait" /\ reply'[r] = channel[r]
  <2> USE DEF Unsent, Error, futures, requests
  <2>1. CASE CheckAgentOnline(r)
    BY <2>1 DEF CheckAgentOnline
  <2>2. CASE RegisterFuture(r)
    BY <2>2 DEF RegisterFuture
  <2>3. CASE GetConnection(r)
    BY <2>3 DEF GetConnection
  <2>4. CASE ReceiveResult(r)
    BY <2>4 DEF ReceiveResult
  <2>5. CASE Timeout(r)
    BY <2>5 DEF Timeout
  <2>6. CASE UnregisterPending(r) \/ UnregisterHost(r) \/ UnregisterStdout(r)
    BY <2>6 DEF UnregisterPending, UnregisterHost, UnregisterStdout
  <2>7. QED
    BY <2>1, <2>2, <2>3, <2>4, <2>5, <2>6
<1>4. \A s \in Reqs :
        /\ Unsent(s)' => Unsent(s)
        /\ reqPc'[s] = "wait" => reqPc[s] = "wait"
        /\ ~Unsent(s) => connRef'[s] = connRef[s]
        /\ (Unsent(s)' \/ reqPc'[s] = "wait") /\ channel'[s] = NoAnswer =>
             /\ channel[s] = NoAnswer
             /\ stdoutBuffers'[TaskOf[s]] = stdoutBuffers[TaskOf[s]]
        /\ channel'[s] = channel[s] \/ channel'[s] = NoAnswer
        /\ \/ reply'[s] = reply[s]
           \/ reply'[s].kind # "result"
           \/ reqPc[s] = "wait" /\ reply'[s] = channel[s]
  <2>1. ASSUME NEW s \in Reqs \ {r} PROVE Unsent(s)' <=> Unsent(s)
    BY <1>2 DEF Unsent
  <2>2. QED
    BY <1>2, <1>3, <2>1
<1>5. QED
  BY <1>1, <1>4, OutputFrame DEF HonestInv

-----------------------------------------------------------------------------
(* Delivery, write, and what an agent sends and the server reads.          *)

\* What reaches a channel is the result that was complete when it was read.
LEMMA OutputOfDeliver ==
  ASSUME UniqueIds, TypeInv, FutureInv, OutputInv, NEW p \in Servers, Deliver(p)
  PROVE  OutputInv'
<1>1. /\ ch[p] \in Reqs /\ TaskOf[ch[p]] = cur[p] /\ out[p] # NoAnswer
      /\ pc[p] = "deliver"
  BY DEF Deliver, TypeInv, SettlesATask, FutureInv, DeliversOwn, Settling
<1>2. UNCHANGED <<reqPc, connRef, reply, stdoutBuffers, toAgent, fromAgent, chunks,
                  verdict, out, cur>>
  BY DEF Deliver, requests, agents
<1>3. \A s \in Reqs :
        \/ channel'[s] = channel[s]
        \/ s = ch[p] /\ channel[s] = NoAnswer /\ channel'[s] = out[p]
  BY <1>1 DEF Deliver, TypeInv, TypeOK
<1>4. \A s \in Reqs : channel'[s] = NoAnswer => channel[s] = NoAnswer
  BY <1>1, <1>3
<1>5. \A q \in Servers : pc'[q] \in {"lookup", "deliver"} => pc'[q] = pc[q]
  BY DEF Deliver, Goto, TypeInv, TypeOK
<1>6. OneConnection' /\ ResultIsLast'
  BY <1>2 DEF OutputInv, OneConnection, ResultIsLast, Unsent
<1>7. OutputIsKept'
  BY <1>2, <1>4 DEF OutputInv, OutputIsKept, Unsent, OutputOf, Capped
<1>8. ResultsAreComplete'
  <2>1. \A m, s : Complete(m, s) => Complete(m, s)'
    BY <1>2 DEF Complete, Capped, Served
  <2>2. ASSUME NEW r \in Reqs, reqPc'[r] = "wait", channel'[r].kind = "result"
        PROVE  Complete(channel'[r], r)
    <3>1. CASE channel'[r] = channel[r]
      BY <1>2, <2>2, <3>1 DEF OutputInv, ResultsAreComplete
    <3>2. CASE r = ch[p] /\ channel[r] = NoAnswer /\ channel'[r] = out[p]
      BY <1>1, <1>2, <2>2, <3>2 DEF OutputInv, ResultsAreComplete
    <3>3. QED
      BY <1>3, <3>1, <3>2
  <2>3. ASSUME NEW q \in Servers, NEW r \in Reqs,
               pc'[q] \in {"lookup", "deliver"}, cur'[q] = TaskOf[r],
               out'[q].kind = "result", reqPc'[r] = "wait", channel'[r] = NoAnswer
        PROVE  Complete(out'[q], r)
    BY <1>2, <1>4, <1>5, <2>3 DEF OutputInv, ResultsAreComplete
  <2>4. \A r \in Reqs : reply'[r].kind = "result" => Complete(reply'[r], r)
    BY <1>2 DEF OutputInv, ResultsAreComplete
  <2>5. QED
    BY <1>2, <2>2, <2>3, <2>4 DEF ResultsAreComplete, Complete, Capped, Served
<1>9. QED
  BY <1>6, <1>7, <1>8 DEF OutputInv

\* The first message of a request finds its buffer empty.
LEMMA OutputOfSend ==
  ASSUME UniqueIds, TypeInv, HonestInv, SentIsReached, OutputInv,
         NEW r \in Reqs, SendToAgent(r)
  PROVE  OutputInv'
<1>1. /\ UNCHANGED <<connRef, channel, stdoutBuffers, fromAgent, chunks, verdict, pc,
                     out, cur>>
      /\ connRef[r] \in Conns /\ Unsent(r) /\ ~Served(r)
      /\ \A c \in Conns : r \notin toAgent[c]
  BY DEF SendToAgent, locals, SentIsReached, Unsent, HonestInv, HonestRefusals
<1>2. /\ \A s \in Reqs \ {r} : reqPc'[s] = reqPc[s] /\ reply'[s] = reply[s]
      /\ reqPc'[r] \in {"wait", "unregPending"}
      /\ reply'[r] = reply[r] \/ reply'[r].kind # "result"
  BY DEF SendToAgent, RequestGoto, Answer, Error, TypeInv, TypeOK
<1>3. \A c \in Conns :
        \/ toAgent'[c] = toAgent[c]
        \/ c = connRef[r] /\ toAgent'[c] = toAgent[c] \cup {r}
  BY <1>1 DEF SendToAgent, TypeInv, TypeOK
<1>4. \A s \in Reqs : (Unsent(s)' => Unsent(s)) /\ (s # r => (Unsent(s)' <=> Unsent(s)))
  <2>1. ~Unsent(r)'
    BY <1>2 DEF Unsent
  <2>2. ASSUME NEW s \in Reqs \ {r} PROVE Unsent(s)' <=> Unsent(s)
    BY <1>2 DEF Unsent
  <2>3. QED
    BY <2>1, <2>2
<1>5. ASSUME NEW c \in Conns, NEW i \in 1..Len(fromAgent[c])
      PROVE  fromAgent[c][i].req \in Reqs \ {r}
  BY <1>1, MessageType DEF TypeInv, OutputInv, OneConnection
<1>6. OneConnection'
  <2>1. \A s \in Reqs : Unsent(s)' => chunks'[s] = 0
    BY <1>1, <1>4 DEF OutputInv, OneConnection
  <2>2. ASSUME NEW c \in Conns, NEW i \in 1..Len(fromAgent[c])
        PROVE  connRef[fromAgent[c][i].req] = c /\ ~Unsent(fromAgent[c][i].req)'
    <3>1. PICK s \in Reqs \ {r} : s = fromAgent[c][i].req
      BY <1>5
    <3>2. connRef[s] = c /\ ~Unsent(s)
      BY <3>1 DEF OutputInv, OneConnection
    <3>3. ~Unsent(s)'
      BY <1>4, <3>2
    <3>4. QED
      BY <1>1, <3>1, <3>2, <3>3 DEF Unsent
  <2>3. QED
    BY <1>1, <2>1, <2>2 DEF OneConnection, Unsent
<1>7. ResultIsLast'
  BY <1>1 DEF OutputInv, ResultIsLast
<1>8. OutputIsKept'
  <2>1. OutputOf(r, fromAgent[connRef[r]]) = {}
    BY <1>1, <1>5 DEF OutputOf
  <2>2. Cardinality(OutputOf(r, fromAgent[connRef[r]])) = 0
    BY <2>1, FS_EmptySet
  <2>3. chunks[r] = 0 /\ Capped(0) = 0
    BY <1>1, ConstantsAssumption DEF OutputInv, OneConnection, Capped
  <2>4. channel[r] = NoAnswer => stdoutBuffers[TaskOf[r]] = 0
    BY <1>1 DEF OutputInv, OutputIsKept
  <2>5. channel[r] = NoAnswer =>
          LET unread == Cardinality(OutputOf(r, fromAgent[connRef[r]]))
          IN  unread <= chunks[r] /\ stdoutBuffers[TaskOf[r]] = Capped(chunks[r] - unread)
    BY <2>2, <2>3, <2>4
  <2>6. ~Unsent(r)'
    BY <1>2 DEF Unsent
  <2>7. ASSUME NEW s \in Reqs, channel'[s] = NoAnswer
        PROVE  /\ Unsent(s)' => stdoutBuffers[TaskOf[s]] = 0
               /\ reqPc'[s] = "wait" =>
                    LET unread == Cardinality(OutputOf(s, fromAgent[connRef[s]]))
                    IN  /\ unread <= chunks[s]
                        /\ stdoutBuffers[TaskOf[s]] = Capped(chunks[s] - unread)
    <3>1. CASE s = r
      BY <1>1, <2>5, <2>6, <2>7, <3>1
    <3>2. CASE s # r
      BY <1>1, <1>2, <1>4, <2>7, <3>2 DEF OutputInv, OutputIsKept
    <3>3. QED
      BY <3>1, <3>2
  <2>8. QED
    BY <1>1, <2>7 DEF OutputIsKept, Unsent, OutputOf, Capped
<1>9. ResultsAreComplete'
  <2>1. ASSUME NEW p \in Servers, pc[p] \in {"lookup", "deliver"},
               cur[p] = TaskOf[r], out[p].kind = "result"
        PROVE  FALSE
    <3>1. /\ TaskOf[out[p].req] = TaskOf[r]
          /\ out[p].req \in Reqs /\ Served(out[p].req)
      BY <2>1 DEF HonestInv, HonestOutcomes, CarriedResults, Settling
    <3>2. QED
      BY <1>1, <3>1 DEF UniqueIds
  <2>2. channel[r].kind # "result"
    BY <1>1 DEF HonestInv, HonestOutcomes, NoAnswer, Error
  <2>3. \A m, s : Complete(m, s)' <=> Complete(m, s)
    BY <1>1 DEF Complete, Capped, Served
  <2>4. ASSUME NEW p \in Servers, NEW s \in Reqs,
               pc[p] \in {"lookup", "deliver"}, cur[p] = TaskOf[s],
               out[p].kind = "result", reqPc'[s] = "wait", channel[s] = NoAnswer
        PROVE  Complete(out[p], s)
    BY <1>2, <2>1, <2>4 DEF OutputInv, ResultsAreComplete
  <2>5. \A s \in Reqs :
          reqPc'[s] = "wait" /\ channel[s].kind = "result" => Complete(channel[s], s)
    BY <1>2, <2>2 DEF OutputInv, ResultsAreComplete
  <2>6. \A s \in Reqs : reply'[s].kind = "result" => Complete(reply'[s], s)
    BY <1>2 DEF OutputInv, ResultsAreComplete
  <2>7. QED
    BY <1>1, <2>4, <2>5, <2>6 DEF ResultsAreComplete, Complete, Capped, Served
<1>10. QED
  BY <1>6, <1>7, <1>8, <1>9 DEF OutputInv

\* What a message sent for a task the agent has leaves of the invariant.
LEMMA OutputSent ==
  ASSUME TypeOK, HonestInv, OutputInv, NEW c \in Conns, NEW r \in toAgent[c],
         NEW m \in Messages, m.req = r,
         fromAgent' = [fromAgent EXCEPT ![c] = Append(@, m)],
         m.kind = "result" => m.stdout \in {0, chunks'[r]},
         \A s \in Reqs \ {r} : chunks'[s] = chunks[s]
  PROVE  ResultIsLast'
<1> DEFINE n == Len(fromAgent[c]) + 1
<1>1. /\ fromAgent[c] \in Seq(Messages) /\ fromAgent'[c] = Append(fromAgent[c], m)
      /\ \A d \in Conns \ {c} : fromAgent'[d] = fromAgent[d]
      /\ r \in Reqs /\ ~Served(r)
  BY DEF TypeOK, HonestInv, HonestRefusals
<1>2. /\ Len(fromAgent'[c]) = n /\ fromAgent'[c][n] = m
      /\ \A i \in 1..Len(fromAgent[c]) : fromAgent'[c][i] = fromAgent[c][i]
      /\ 1..n = (1..Len(fromAgent[c])) \cup {n} /\ (n+1)..n = {}
      /\ \A i \in 1..Len(fromAgent[c]) : (i+1)..n \subseteq ((i+1)..Len(fromAgent[c])) \cup {n}
      /\ \A i \in 1..Len(fromAgent[c]) : (i+1)..Len(fromAgent[c]) \subseteq 1..Len(fromAgent[c])
  BY <1>1
<1>3. ASSUME NEW d \in Conns, NEW i \in 1..Len(fromAgent[d]),
             fromAgent[d][i].kind = "result"
      PROVE  /\ fromAgent[d][i].req \in Reqs \ {r}
             /\ fromAgent[d][i].stdout \in {0, chunks'[fromAgent[d][i].req]}
             /\ \A j \in (i+1)..Len(fromAgent[d]) :
                  fromAgent[d][j].req # fromAgent[d][i].req
  <2>1. fromAgent[d][i].req \in Reqs
    BY MessageType
  <2>2. Served(fromAgent[d][i].req)
    BY <1>3 DEF HonestInv, HonestOutcomes, CarriedResults
  <2>3. QED
    BY <1>1, <1>3, <2>1, <2>2 DEF OutputInv, ResultIsLast
<1>4. ASSUME NEW d \in Conns \ {c}, NEW i \in 1..Len(fromAgent'[d]),
             fromAgent'[d][i].kind = "result"
      PROVE  /\ fromAgent'[d][i].stdout \in {0, chunks'[fromAgent'[d][i].req]}
             /\ \A j \in (i+1)..Len(fromAgent'[d]) :
                  fromAgent'[d][j].req # fromAgent'[d][i].req
  BY <1>1, <1>3, <1>4
<1>5. ASSUME NEW i \in 1..Len(fromAgent'[c]), fromAgent'[c][i].kind = "result"
      PROVE  /\ fromAgent'[c][i].stdout \in {0, chunks'[fromAgent'[c][i].req]}
             /\ \A j \in (i+1)..Len(fromAgent'[c]) :
                  fromAgent'[c][j].req # fromAgent'[c][i].req
  <2>1. CASE i = n
    BY <1>2, <1>5, <2>1
  <2>2. CASE i \in 1..Len(fromAgent[c])
    <3>1. /\ fromAgent[c][i].req # r
          /\ fromAgent[c][i].stdout \in {0, chunks'[fromAgent[c][i].req]}
          /\ \A j \in (i+1)..Len(fromAgent[c]) :
               fromAgent[c][j].req # fromAgent[c][i].req
      BY <1>2, <1>3, <1>5, <2>2
    <3>2. ASSUME NEW j \in (i+1)..n PROVE fromAgent'[c][j].req # fromAgent[c][i].req
      BY <1>2, <2>2, <3>1, <3>2
    <3>3. QED
      BY <1>2, <2>2, <3>1, <3>2
  <2>3. QED
    BY <1>2, <1>5, <2>1, <2>2
<1>6. QED
  BY <1>4, <1>5 DEF ResultIsLast

\* What an agent sends for a task goes out on the connection of the task.
LEMMA SentOnOwnConnection ==
  ASSUME TypeOK, HonestRefusals, OutputInv, NEW c \in Conns, NEW r \in toAgent[c],
         NEW m \in Messages, m.req = r,
         fromAgent' = [fromAgent EXCEPT ![c] = Append(@, m)]
  PROVE  \A d \in Conns : \A i \in 1..Len(fromAgent'[d]) :
           connRef[fromAgent'[d][i].req] = d /\ ~Unsent(fromAgent'[d][i].req)
<1>1. /\ fromAgent[c] \in Seq(Messages) /\ fromAgent'[c] = Append(fromAgent[c], m)
      /\ \A d \in Conns \ {c} : fromAgent'[d] = fromAgent[d]
  BY DEF TypeOK
<1>2. r \in Reqs /\ connRef[r] = c /\ ~Unsent(r)
  BY DEF TypeOK, HonestRefusals, Unsent
<1>3. ASSUME NEW d \in Conns, NEW i \in 1..Len(fromAgent[d])
      PROVE  connRef[fromAgent[d][i].req] = d /\ ~Unsent(fromAgent[d][i].req)
  BY DEF OutputInv, OneConnection
<1>4. \A i \in 1..Len(fromAgent'[c]) :
        \/ fromAgent'[c][i] = m
        \/ i \in 1..Len(fromAgent[c]) /\ fromAgent'[c][i] = fromAgent[c][i]
  BY <1>1
<1>5. QED
  BY <1>1, <1>2, <1>3, <1>4

\* How much of the output of a request is unread after a message was sent,
LEMMA UnreadAfterSend ==
  ASSUME TypeOK, NEW c \in Conns, NEW m \in Messages, NEW s,
         connRef[s] \in Conns, m.req = s => connRef[s] = c,
         fromAgent' = [fromAgent EXCEPT ![c] = Append(@, m)]
  PROVE  Cardinality(OutputOf(s, fromAgent'[connRef[s]]))
           = Cardinality(OutputOf(s, fromAgent[connRef[s]]))
               + (IF m.kind = "stdout" /\ m.req = s THEN 1 ELSE 0)
<1> DEFINE q == fromAgent[connRef[s]]
<1>1. q \in Seq(Messages)
  BY DEF TypeOK
<1>2. CASE connRef[s] = c
  <2>1. fromAgent'[connRef[s]] = Append(q, m)
    BY <1>2 DEF TypeOK
  <2>2. QED
    BY <1>1, <2>1, OutputAppend
<1>3. CASE connRef[s] # c
  <2>1. fromAgent'[connRef[s]] = q
    BY <1>3 DEF TypeOK
  <2>2. QED
    BY <1>1, <1>3, <2>1, OutputFinite
<1>4. QED
  BY <1>2, <1>3

\* or read.
LEMMA UnreadAfterRead ==
  ASSUME TypeOK, NEW c \in Conns, fromAgent[c] # <<>>, Consume(c), NEW s,
         connRef[s] \in Conns, Head(fromAgent[c]).req = s => connRef[s] = c
  PROVE  Cardinality(OutputOf(s, fromAgent[connRef[s]]))
           = Cardinality(OutputOf(s, fromAgent'[connRef[s]]))
               + (IF Head(fromAgent[c]).kind = "stdout" /\ Head(fromAgent[c]).req = s
                  THEN 1 ELSE 0)
<1> DEFINE q == fromAgent[connRef[s]]
<1>1. q \in Seq(Messages)
  BY DEF TypeOK
<1>2. CASE connRef[s] = c
  <2>1. fromAgent'[connRef[s]] = Tail(q) /\ q # <<>> /\ q = fromAgent[c]
    BY <1>2 DEF TypeOK, Consume
  <2>2. QED
    BY <1>1, <2>1, OutputTail
<1>3. CASE connRef[s] # c
  <2>1. fromAgent'[connRef[s]] = q
    BY <1>3 DEF TypeOK, Consume
  <2>2. QED
    BY <1>1, <1>3, <2>1, OutputFinite
<1>4. QED
  BY <1>2, <1>3

\* Output that is streamed is counted as sent and as unread.
LEMMA OutputOfAgentStdout ==
  ASSUME TypeInv, HonestInv, SentIsReached, OutputInv,
         NEW c \in Conns, NEW r \in Reqs, AgentStdout(c, r)
  PROVE  OutputInv'
<1> DEFINE m == [kind |-> "stdout", req |-> r, stdout |-> 0]
<1>1. /\ UNCHANGED <<reqPc, connRef, reply, channel, stdoutBuffers, toAgent, verdict,
                     pc, out, cur>>
      /\ r \in toAgent[c] /\ connRef[r] = c /\ ~Served(r) /\ ~Unsent(r)
      /\ fromAgent' = [fromAgent EXCEPT ![c] = Append(@, m)]
      /\ chunks'[r] = chunks[r] + 1 /\ chunks[r] \in Nat
      /\ \A s \in Reqs \ {r} : chunks'[s] = chunks[s]
  BY DEF AgentStdout, futures, locals, requests, TypeInv, TypeOK, OutputInv,
         OneConnection, HonestInv, HonestRefusals, Unsent
<1>2. m \in Messages /\ m.kind = "stdout" /\ m.req = r
  BY DEF Messages
<1> HIDE DEF m
<1>3. OneConnection'
  <2>1. \A s \in Reqs : Unsent(s)' => chunks'[s] = 0
    BY <1>1 DEF OutputInv, OneConnection, Unsent
  <2>2. \A d \in Conns : \A i \in 1..Len(fromAgent'[d]) :
          connRef[fromAgent'[d][i].req] = d /\ ~Unsent(fromAgent'[d][i].req)
    BY <1>1, <1>2, SentOnOwnConnection DEF TypeInv, HonestInv
  <2>3. QED
    BY <1>1, <2>1, <2>2 DEF OneConnection, Unsent
<1>4. ResultIsLast'
  BY <1>1, <1>2, OutputSent DEF TypeInv
<1>5. ASSUME NEW s \in Reqs, reqPc[s] = "wait", channel[s] = NoAnswer
      PROVE  LET unread == Cardinality(OutputOf(s, fromAgent'[connRef[s]]))
             IN  /\ unread <= chunks'[s]
                 /\ stdoutBuffers[TaskOf[s]] = Capped(chunks'[s] - unread)
  <2> DEFINE before == Cardinality(OutputOf(s, fromAgent[connRef[s]]))
             unread == Cardinality(OutputOf(s, fromAgent'[connRef[s]]))
  <2>1. connRef[s] \in Conns
    BY <1>5 DEF SentIsReached
  <2>2. before \in Nat
    BY <2>1, OutputFinite DEF TypeInv, TypeOK
  <2>3. before <= chunks[s] /\ stdoutBuffers[TaskOf[s]] = Capped(chunks[s] - before)
    BY <1>5 DEF OutputInv, OutputIsKept
  <2>4. unread = before + (IF s = r THEN 1 ELSE 0)
    <3>1. m.req = s => connRef[s] = c
      BY <1>1, <1>2
    <3>2. unread = before + (IF m.kind = "stdout" /\ m.req = s THEN 1 ELSE 0)
      BY <1>1, <1>2, <2>1, <3>1, UnreadAfterSend DEF TypeInv
    <3>3. QED
      BY <1>2, <3>2
  <2>5. chunks[s] \in Nat
    BY DEF TypeInv, TypeOK
  <2> HIDE DEF before, unread
  <2>6. unread <= chunks'[s] /\ chunks'[s] - unread = chunks[s] - before
    BY <1>1, <2>2, <2>3, <2>4, <2>5
  <2>7. QED
    BY <2>3, <2>6 DEF unread
<1>6. OutputIsKept'
  <2>1. \A s \in Reqs : channel[s] = NoAnswer /\ Unsent(s) => stdoutBuffers[TaskOf[s]] = 0
    BY DEF OutputInv, OutputIsKept
  <2>2. ASSUME NEW s \in Reqs, channel'[s] = NoAnswer
        PROVE  /\ Unsent(s)' => stdoutBuffers'[TaskOf[s]] = 0
               /\ reqPc'[s] = "wait" =>
                    LET unread == Cardinality(OutputOf(s, fromAgent'[connRef'[s]]))
                    IN  /\ unread <= chunks'[s]
                        /\ stdoutBuffers'[TaskOf[s]] = Capped(chunks'[s] - unread)
    BY <1>1, <1>5, <2>1, <2>2 DEF Unsent
  <2>3. QED
    BY <2>2 DEF OutputIsKept, Unsent, OutputOf, Capped
<1>7. ResultsAreComplete'
  <2>1. \A a, s : s \in Reqs /\ Complete(a, s) => Complete(a, s)'
    BY <1>1 DEF Complete, Capped, Served
  <2>2. QED
    BY <1>1, <2>1 DEF OutputInv, ResultsAreComplete, Complete, Capped, Served
<1>8. QED
  BY <1>3, <1>4, <1>6, <1>7 DEF OutputInv

\* The result goes out last, and the task has left the agent.
LEMMA OutputOfAgentResult ==
  ASSUME TypeInv, HonestInv, SentIsReached, OutputInv,
         NEW c \in Conns, NEW r \in Reqs, AgentResult(c, r)
  PROVE  OutputInv'
<1>1. /\ UNCHANGED <<reqPc, connRef, reply, channel, stdoutBuffers, chunks, pc, out, cur>>
      /\ r \in toAgent[c] /\ connRef[r] = c /\ ~Served(r) /\ ~Unsent(r)
      /\ chunks[r] \in Nat /\ \A s \in Reqs : Served(s) => Served(s)'
      /\ \A d \in Conns : toAgent'[d] \subseteq toAgent[d] /\ r \notin toAgent'[d]
  <2>1. \A s \in Reqs : Served(s) => Served(s)'
    BY SetIsServed DEF TypeInv
  <2>2. r \in toAgent[c] /\ \A d \in Conns : r \in toAgent[d] => connRef[r] = d
    BY DEF AgentResult, HonestInv, HonestRefusals
  <2>3. QED
    BY <2>1, <2>2
       DEF AgentResult, futures, locals, requests, TypeInv, TypeOK, HonestInv,
           HonestRefusals, Unsent
<1>2. \/ fromAgent' = fromAgent
      \/ \E m \in Messages :
           /\ m.kind = "result" /\ m.req = r /\ m.stdout \in {0, chunks[r]}
           /\ fromAgent' = [fromAgent EXCEPT ![c] = Append(@, m)]
  BY <1>1 DEF AgentResult, Messages
<1>3. \A d \in Conns : \A i \in 1..Len(fromAgent'[d]) :
        connRef[fromAgent'[d][i].req] = d /\ ~Unsent(fromAgent'[d][i].req)
  <2>1. CASE fromAgent' = fromAgent
    BY <2>1 DEF OutputInv, OneConnection
  <2>2. QED
    BY <1>1, <1>2, <2>1, SentOnOwnConnection DEF TypeInv, HonestInv
<1>4. OneConnection'
  BY <1>1, <1>3 DEF OutputInv, OneConnection, Unsent
<1>5. ResultIsLast'
  <2>1. CASE fromAgent' = fromAgent
    BY <1>1, <2>1 DEF OutputInv, ResultIsLast
  <2>2. QED
    BY <1>1, <1>2, <2>1, OutputSent DEF TypeInv
<1>6. ASSUME NEW s \in Reqs, reqPc[s] = "wait"
      PROVE  Cardinality(OutputOf(s, fromAgent'[connRef[s]]))
               = Cardinality(OutputOf(s, fromAgent[connRef[s]]))
  <2>1. connRef[s] \in Conns
    BY <1>6 DEF SentIsReached
  <2>2. Cardinality(OutputOf(s, fromAgent[connRef[s]])) \in Nat
    BY <2>1, OutputFinite DEF TypeInv, TypeOK
  <2>3. CASE fromAgent' = fromAgent
    BY <2>3
  <2>4. ASSUME NEW m \in Messages, m.kind = "result", m.req = r,
               fromAgent' = [fromAgent EXCEPT ![c] = Append(@, m)]
        PROVE  Cardinality(OutputOf(s, fromAgent'[connRef[s]]))
                 = Cardinality(OutputOf(s, fromAgent[connRef[s]]))
    <3>1. m.req = s => connRef[s] = c
      BY <1>1, <2>4
    <3>2. Cardinality(OutputOf(s, fromAgent'[connRef[s]]))
            = Cardinality(OutputOf(s, fromAgent[connRef[s]]))
                + (IF m.kind = "stdout" /\ m.req = s THEN 1 ELSE 0)
      BY <2>1, <2>4, <3>1, UnreadAfterSend DEF TypeInv
    <3>3. QED
      BY <2>2, <2>4, <3>2
  <2>5. QED
    BY <1>2, <2>3, <2>4
<1>7. OutputIsKept'
  <2>1. ASSUME NEW s \in Reqs, reqPc[s] = "wait", channel[s] = NoAnswer
        PROVE  LET unread == Cardinality(OutputOf(s, fromAgent'[connRef[s]]))
               IN  /\ unread <= chunks[s]
                   /\ stdoutBuffers[TaskOf[s]] = Capped(chunks[s] - unread)
    BY <1>6, <2>1 DEF OutputInv, OutputIsKept
  <2>2. \A s \in Reqs : channel[s] = NoAnswer /\ Unsent(s) => stdoutBuffers[TaskOf[s]] = 0
    BY DEF OutputInv, OutputIsKept
  <2>3. QED
    BY <1>1, <2>1, <2>2 DEF OutputIsKept, Unsent, OutputOf, Capped
<1>8. ResultsAreComplete'
  <2>1. \A a, s : s \in Reqs /\ Complete(a, s) => Complete(a, s)'
    BY <1>1 DEF Complete, Capped
  <2>2. /\ \A p \in Servers, s \in Reqs :
             /\ pc[p] \in {"lookup", "deliver"} /\ cur[p] = TaskOf[s]
             /\ out[p].kind = "result" /\ reqPc[s] = "wait" /\ channel[s] = NoAnswer
             => Complete(out[p], s)'
        /\ \A s \in Reqs :
             reqPc[s] = "wait" /\ channel[s].kind = "result" => Complete(channel[s], s)'
        /\ \A s \in Reqs : reply[s].kind = "result" => Complete(reply[s], s)'
    BY <1>1, <2>1 DEF OutputInv, ResultsAreComplete
  <2>3. QED
    BY <1>1, <2>2 DEF ResultsAreComplete
<1>9. QED
  BY <1>4, <1>5, <1>7, <1>8 DEF OutputInv

\* Reading the first message keeps what is said of the others.
LEMMA OutputRead ==
  ASSUME TypeOK, OutputInv, NEW c \in Conns, fromAgent[c] # <<>>, Consume(c),
         UNCHANGED <<reqPc, connRef, toAgent, chunks, verdict>>
  PROVE  OneConnection' /\ ResultIsLast'
<1>1. /\ fromAgent[c] \in Seq(Messages) /\ fromAgent'[c] = Tail(fromAgent[c])
      /\ \A d \in Conns \ {c} : fromAgent'[d] = fromAgent[d]
  BY DEF TypeOK, Consume
<1>2. \A i \in 1..Len(fromAgent'[c]) :
        /\ i + 1 \in 1..Len(fromAgent[c]) /\ fromAgent'[c][i] = fromAgent[c][i+1]
        /\ \A j \in (i+1)..Len(fromAgent'[c]) : j + 1 \in (i+2)..Len(fromAgent[c])
  BY <1>1
<1>3. OneConnection'
  <2>1. ASSUME NEW d \in Conns, NEW i \in 1..Len(fromAgent'[d])
        PROVE  connRef[fromAgent'[d][i].req] = d /\ ~Unsent(fromAgent'[d][i].req)
    BY ConsumeShifts DEF OutputInv, OneConnection
  <2>2. QED
    BY <2>1 DEF OutputInv, OneConnection, Unsent
<1>4. ASSUME NEW i \in 1..Len(fromAgent'[c]), fromAgent'[c][i].kind = "result"
      PROVE  /\ fromAgent'[c][i].stdout \in {0, chunks[fromAgent'[c][i].req]}
             /\ \A j \in (i+1)..Len(fromAgent'[c]) :
                  fromAgent'[c][j].req # fromAgent'[c][i].req
  <2>1. /\ fromAgent[c][i+1].stdout \in {0, chunks[fromAgent[c][i+1].req]}
        /\ \A j \in ((i+1)+1)..Len(fromAgent[c]) :
             fromAgent[c][j].req # fromAgent[c][i+1].req
    BY <1>2, <1>4 DEF OutputInv, ResultIsLast
  <2>2. ASSUME NEW j \in (i+1)..Len(fromAgent'[c])
        PROVE  fromAgent'[c][j].req # fromAgent[c][i+1].req
    <3>1. j \in 1..Len(fromAgent'[c]) /\ j + 1 \in ((i+1)+1)..Len(fromAgent[c])
      BY <1>1, <1>2
    <3>2. QED
      BY <1>2, <2>1, <3>1
  <2>3. QED
    BY <1>2, <2>1, <2>2
<1>5. ResultIsLast'
  <2>1. ASSUME NEW d \in Conns \ {c}, NEW i \in 1..Len(fromAgent'[d]),
               fromAgent'[d][i].kind = "result"
        PROVE  /\ fromAgent'[d][i].stdout \in {0, chunks[fromAgent'[d][i].req]}
               /\ \A j \in (i+1)..Len(fromAgent'[d]) :
                    fromAgent'[d][j].req # fromAgent'[d][i].req
    BY <1>1, <2>1 DEF OutputInv, ResultIsLast
  <2>2. QED
    BY <1>4, <2>1 DEF ResultIsLast
<1>6. QED
  BY <1>3, <1>5

\* The message a goroutine reads.
LEMMA HeadOf ==
  ASSUME TypeOK, OutputInv, HonestOutcomes, NEW c \in Conns, fromAgent[c] # <<>>,
         NEW m, m = Head(fromAgent[c])
  PROVE  /\ m \in Messages /\ m.req \in Reqs /\ connRef[m.req] = c /\ ~Unsent(m.req)
         /\ m.kind = "result" =>
              /\ Served(m.req) /\ m.stdout \in {0, chunks[m.req]}
              /\ OutputOf(m.req, fromAgent[c]) = {}
<1>1. fromAgent[c] \in Seq(Messages) /\ 1 \in 1..Len(fromAgent[c]) /\ m = fromAgent[c][1]
  BY DEF TypeOK
<1>2. m \in Messages /\ m.req \in Reqs
  BY <1>1, MessageType
<1>3. connRef[m.req] = c /\ ~Unsent(m.req)
  BY <1>1 DEF OutputInv, OneConnection
<1>4. ASSUME m.kind = "result"
      PROVE  /\ Served(m.req) /\ m.stdout \in {0, chunks[m.req]}
             /\ OutputOf(m.req, fromAgent[c]) = {}
  <2>1. Served(m.req)
    BY <1>1, <1>4 DEF HonestOutcomes, CarriedResults
  <2>2. /\ m.stdout \in {0, chunks[m.req]}
        /\ \A j \in (1+1)..Len(fromAgent[c]) : fromAgent[c][j].req # m.req
    BY <1>1, <1>4 DEF OutputInv, ResultIsLast
  <2>3. \A j \in 1..Len(fromAgent[c]) : j = 1 \/ j \in (1+1)..Len(fromAgent[c])
    BY <1>1
  <2>4. QED
    BY <1>1, <1>4, <2>1, <2>2, <2>3 DEF OutputOf
<1>5. QED
  BY <1>2, <1>3, <1>4

\* A chunk leaves the queue for the buffer.
LEMMA OutputOfHandleStdout ==
  ASSUME UniqueIds, TypeInv, HonestInv, SentIsReached, OutputInv,
         NEW c \in Conns, HandleStdout(c)
  PROVE  OutputInv'
<1>1. PICK m : m = Head(fromAgent[c])
  OBVIOUS
<1>2. /\ UNCHANGED <<reqPc, connRef, reply, channel, toAgent, chunks, verdict, pc,
                     out, cur>>
      /\ fromAgent[c] # <<>> /\ Consume(c) /\ m.kind = "stdout"
  BY <1>1 DEF HandleStdout, Readable, locals, requests
<1>3. m.req \in Reqs /\ connRef[m.req] = c /\ ~Unsent(m.req)
  BY <1>1, <1>2, HeadOf DEF TypeInv, HonestInv
<1>4. /\ stdoutBuffers \in [Tasks -> Nat] /\ StdoutMax \in Nat
      /\ TaskOf \in [Reqs -> Tasks]
      /\ stdoutBuffers' = [stdoutBuffers EXCEPT
           ![TaskOf[m.req]] = Capped(stdoutBuffers[TaskOf[m.req]] + 1)]
  BY <1>1, ConstantsAssumption DEF HandleStdout, Capped, TypeInv, TypeOK
<1>5. OneConnection' /\ ResultIsLast'
  BY <1>2, OutputRead DEF TypeInv
<1>6. ASSUME NEW s \in Reqs, reqPc[s] = "wait", channel[s] = NoAnswer
      PROVE  LET unread == Cardinality(OutputOf(s, fromAgent'[connRef[s]]))
             IN  /\ unread <= chunks[s]
                 /\ stdoutBuffers'[TaskOf[s]] = Capped(chunks[s] - unread)
  <2> DEFINE before == Cardinality(OutputOf(s, fromAgent[connRef[s]]))
             unread == Cardinality(OutputOf(s, fromAgent'[connRef[s]]))
  <2>1. connRef[s] \in Conns
    BY <1>6 DEF SentIsReached
  <2>2. before \in Nat /\ unread \in Nat
    <3>1. fromAgent[connRef[s]] \in Seq(Messages)
      BY <2>1 DEF TypeInv, TypeOK
    <3>2. fromAgent'[connRef[s]] = IF connRef[s] = c THEN Tail(fromAgent[c])
                                    ELSE fromAgent[connRef[s]]
      BY <1>2, <2>1 DEF Consume, TypeInv, TypeOK
    <3>3. fromAgent'[connRef[s]] \in Seq(Messages)
      BY <1>2, <3>1, <3>2, HeadTail
    <3>4. QED
      BY <3>1, <3>3, OutputFinite
  <2>3. before <= chunks[s] /\ stdoutBuffers[TaskOf[s]] = Capped(chunks[s] - before)
    BY <1>6 DEF OutputInv, OutputIsKept
  <2>4. before = unread + (IF m.req = s THEN 1 ELSE 0)
    <3>1. m.req = s => connRef[s] = c
      BY <1>3
    <3>2. before = unread + (IF m.kind = "stdout" /\ m.req = s THEN 1 ELSE 0)
      BY <1>1, <1>2, <2>1, <3>1, UnreadAfterRead DEF TypeInv
    <3>3. QED
      BY <1>2, <3>2
  <2>5. chunks[s] \in Nat
    BY DEF TypeInv, TypeOK
  <2> HIDE DEF before, unread
  <2>6. CASE m.req = s
    <3>1. /\ unread = before - 1 /\ unread <= chunks[s]
          /\ chunks[s] - unread = (chunks[s] - before) + 1
      BY <2>2, <2>3, <2>4, <2>5, <2>6
    <3>2. stdoutBuffers'[TaskOf[s]] = Capped(Capped(chunks[s] - before) + 1)
      BY <1>4, <2>3, <2>6
    <3>3. \A n \in Nat : Capped(Capped(n) + 1) = Capped(n + 1)
      BY <1>4 DEF Capped
    <3>4. chunks[s] - before \in Nat
      BY <2>2, <2>3, <2>5
    <3>5. QED
      BY <3>1, <3>2, <3>3, <3>4 DEF unread
  <2>7. CASE m.req # s
    <3>1. stdoutBuffers'[TaskOf[s]] = stdoutBuffers[TaskOf[s]]
      BY <1>3, <1>4, <2>7 DEF UniqueIds
    <3>2. unread = before
      BY <2>2, <2>4, <2>7
    <3>3. QED
      BY <2>3, <3>1, <3>2 DEF unread
  <2>8. QED
    BY <2>6, <2>7
<1>7. OutputIsKept'
  <2>1. ASSUME NEW s \in Reqs, channel[s] = NoAnswer, Unsent(s)
        PROVE  stdoutBuffers'[TaskOf[s]] = 0
    <3>1. s # m.req
      BY <1>3, <2>1
    <3>2. TaskOf[s] # TaskOf[m.req] /\ TaskOf[s] \in Tasks
      BY <1>3, <1>4, <3>1 DEF UniqueIds
    <3>3. stdoutBuffers[TaskOf[s]] = 0
      BY <2>1 DEF OutputInv, OutputIsKept
    <3>4. QED
      BY <1>4, <3>2, <3>3
  <2>2. ASSUME NEW s \in Reqs, channel'[s] = NoAnswer
        PROVE  /\ Unsent(s)' => stdoutBuffers'[TaskOf[s]] = 0
               /\ reqPc'[s] = "wait" =>
                    LET unread == Cardinality(OutputOf(s, fromAgent'[connRef'[s]]))
                    IN  /\ unread <= chunks'[s]
                        /\ stdoutBuffers'[TaskOf[s]] = Capped(chunks'[s] - unread)
    BY <1>2, <1>6, <2>1, <2>2 DEF Unsent
  <2>3. QED
    BY <2>2 DEF OutputIsKept, Unsent, OutputOf, Capped
<1>8. ResultsAreComplete'
  BY <1>2 DEF OutputInv, ResultsAreComplete, Complete, Capped, Served
<1>9. QED
  BY <1>5, <1>7, <1>8 DEF OutputInv

\* The result is read when all the output has been: the buffer is complete.
LEMMA OutputOfHandleResult ==
  ASSUME UniqueIds, TypeInv, HonestInv, SentIsReached, OutputInv,
         NEW c \in Conns, HandleResult(c)
  PROVE  OutputInv'
<1>1. PICK m : m = Head(fromAgent[c])
  OBVIOUS
<1>2. /\ UNCHANGED <<reqPc, connRef, reply, channel, stdoutBuffers, toAgent, chunks,
                     verdict>>
      /\ fromAgent[c] # <<>> /\ Consume(c) /\ m.kind = "result"
  BY <1>1 DEF HandleResult, Readable, futures, requests
<1>3. /\ m.req \in Reqs /\ connRef[m.req] = c /\ Served(m.req)
      /\ m.stdout \in {0, chunks[m.req]} /\ OutputOf(m.req, fromAgent[c]) = {}
  BY <1>1, <1>2, HeadOf DEF TypeInv, HonestInv
<1>4. /\ cur'[c] = TaskOf[m.req]
      /\ out'[c] = [kind |-> "result", req |-> m.req,
                    stdout |-> IF m.stdout = 0 THEN stdoutBuffers[TaskOf[m.req]]
                               ELSE m.stdout]
      /\ \A q \in Servers \ {c} : pc'[q] = pc[q] /\ cur'[q] = cur[q] /\ out'[q] = out[q]
  BY <1>1 DEF HandleResult, Goto, TypeInv, TypeOK, Servers
<1>5. OneConnection' /\ ResultIsLast'
  BY <1>2, OutputRead DEF TypeInv
<1>6. ASSUME NEW s \in Reqs, reqPc[s] = "wait"
      PROVE  Cardinality(OutputOf(s, fromAgent'[connRef[s]]))
               = Cardinality(OutputOf(s, fromAgent[connRef[s]]))
  <2> DEFINE before == Cardinality(OutputOf(s, fromAgent[connRef[s]]))
             unread == Cardinality(OutputOf(s, fromAgent'[connRef[s]]))
  <2>1. connRef[s] \in Conns
    BY <1>6 DEF SentIsReached
  <2>2. before = unread + (IF m.kind = "stdout" /\ m.req = s THEN 1 ELSE 0)
    BY <1>1, <1>2, <1>3, <2>1, UnreadAfterRead DEF TypeInv
  <2>3. unread \in Nat
    <3>1. fromAgent[connRef[s]] \in Seq(Messages)
      BY <2>1 DEF TypeInv, TypeOK
    <3>2. fromAgent'[connRef[s]] = IF connRef[s] = c THEN Tail(fromAgent[c])
                                    ELSE fromAgent[connRef[s]]
      BY <1>2, <2>1 DEF Consume, TypeInv, TypeOK
    <3>3. fromAgent'[connRef[s]] \in Seq(Messages)
      BY <1>2, <3>1, <3>2, HeadTail
    <3>4. QED
      BY <3>3, OutputFinite
  <2>4. QED
    BY <1>2, <2>2, <2>3
<1>7. OutputIsKept'
  <2>1. ASSUME NEW s \in Reqs, channel'[s] = NoAnswer
        PROVE  /\ Unsent(s)' => stdoutBuffers'[TaskOf[s]] = 0
               /\ reqPc'[s] = "wait" =>
                    LET unread == Cardinality(OutputOf(s, fromAgent'[connRef'[s]]))
                    IN  /\ unread <= chunks'[s]
                        /\ stdoutBuffers'[TaskOf[s]] = Capped(chunks'[s] - unread)
    <3>1. Unsent(s)' <=> Unsent(s)
      BY <1>2 DEF Unsent
    <3>2. QED
      BY <1>2, <1>6, <2>1, <3>1 DEF OutputInv, OutputIsKept
  <2>2. QED
    BY <2>1 DEF OutputIsKept, Unsent, OutputOf, Capped
<1>8. ResultsAreComplete'
  <2>1. ASSUME NEW s \in Reqs, cur'[c] = TaskOf[s], reqPc[s] = "wait",
               channel[s] = NoAnswer
        PROVE  Complete(out'[c], s)
    <3>1. s = m.req
      <4>1. TaskOf[s] = TaskOf[m.req]
        BY <1>4, <2>1
      <4>2. QED
        BY <1>3, <4>1 DEF UniqueIds
    <3>2. Cardinality(OutputOf(s, fromAgent[connRef[s]])) = 0
      BY <1>3, <3>1, FS_EmptySet
    <3>3. chunks[s] \in Nat
      BY DEF TypeInv, TypeOK
    <3>4. stdoutBuffers[TaskOf[s]] = Capped(chunks[s])
      <4> DEFINE unread == Cardinality(OutputOf(s, fromAgent[connRef[s]]))
      <4>1. stdoutBuffers[TaskOf[s]] = Capped(chunks[s] - unread)
        BY <2>1 DEF OutputInv, OutputIsKept
      <4>2. chunks[s] - unread = chunks[s]
        BY <3>2, <3>3
      <4>3. QED
        BY <4>1, <4>2
    <3>5. out'[c].req = s /\ out'[c].stdout \in {chunks[s], Capped(chunks[s])}
      BY <1>3, <1>4, <3>1, <3>4
    <3>6. QED
      BY <1>3, <3>1, <3>5 DEF Complete
  <2>2. ASSUME NEW q \in Servers, NEW s \in Reqs,
               pc'[q] \in {"lookup", "deliver"}, cur'[q] = TaskOf[s],
               out'[q].kind = "result", reqPc[s] = "wait", channel[s] = NoAnswer
        PROVE  Complete(out'[q], s)
    <3>1. CASE q = c
      BY <2>1, <2>2, <3>1
    <3>2. CASE q # c
      BY <1>4, <2>2, <3>2 DEF OutputInv, ResultsAreComplete
    <3>3. QED
      BY <3>1, <3>2
  <2>3. /\ \A s \in Reqs :
             reqPc[s] = "wait" /\ channel[s].kind = "result" => Complete(channel[s], s)
        /\ \A s \in Reqs : reply[s].kind = "result" => Complete(reply[s], s)
    BY DEF OutputInv, ResultsAreComplete
  <2>4. QED
    BY <1>2, <2>2, <2>3 DEF ResultsAreComplete, Complete, Capped, Served
<1>9. QED
  BY <1>5, <1>7, <1>8 DEF OutputInv

\* Every step keeps the output of a request that waits.
LEMMA OutputStep ==
  ASSUME UniqueIds, TypeInv, FutureInv, LoopHeld, SentIsReached, HonestInv, OutputInv,
         [Next]_vars
  PROVE  OutputInv'
<1>1. ASSUME NEW c \in Conns, HandleStdout(c) \/ HandleResult(c) PROVE OutputInv'
  BY <1>1, OutputOfHandleStdout, OutputOfHandleResult
<1>2. ASSUME NEW p \in Servers, Deliver(p) PROVE OutputInv'
  BY <1>2, OutputOfDeliver
<1>3. ASSUME NEW r \in Reqs, SendToAgent(r) PROVE OutputInv'
  BY <1>3, OutputOfSend
<1>4. ASSUME NEW c \in Conns, NEW r \in Reqs, AgentStdout(c, r) \/ AgentResult(c, r)
      PROVE  OutputInv'
  BY <1>4, OutputOfAgentStdout, OutputOfAgentResult
<1>5. QED
  BY <1>1, <1>2, <1>3, <1>4, OutputOfServers, OutputOfRequests, NextActions

\* With unique task ids, the caller who is answered 200 has what an agent made of
\* its own task (a run, a refusal or a failed transfer, all sent as results), with
\* all the output streamed up to the cap, whatever late messages, timeouts, cleanups
\* and revocations come between.
THEOREM AnswersAreComplete == UniqueIds => (Spec => []AnswerIsOwn)
<1> SUFFICES ASSUME UniqueIds PROVE Spec => []AnswerIsOwn
  OBVIOUS
<1>1. Init => NoZombieConnection /\ LoopHeld /\ SentIsReached /\ HonestInv /\ OutputInv
  <2>1. Init => NoZombieConnection /\ LoopHeld /\ SentIsReached
    BY ConstantsAssumption
       DEF Init, NoZombieConnection, LoopHeld, SentIsReached, Servers
  <2>2. Init => HonestInv
    BY ConstantsAssumption
       DEF Init, HonestInv, HonestOutcomes, CarriedResults, HonestRefusals, NoAnswer, Error, Servers,
           Settling, Served
  <2>3. Init => OutputInv
    BY ConstantsAssumption
       DEF Init, OutputInv, OneConnection, ResultIsLast, OutputIsKept,
           ResultsAreComplete, NoAnswer, Error, Servers, Unsent
  <2>4. QED
    BY <2>1, <2>2, <2>3
<1>2. TypeInv /\ NoZombieConnection /\ FutureInv /\ LoopHeld /\ SentIsReached
        /\ [Next]_vars => SentIsReached'
  BY SentIsReachedStep
<1>3. TypeInv /\ FutureInv /\ LoopHeld /\ HonestInv /\ [Next]_vars => HonestInv'
  BY HonestOutcomesStep, HonestRefusalsStep DEF HonestInv, HonestOutcomes
<1>4. TypeInv /\ FutureInv /\ LoopHeld /\ SentIsReached /\ HonestInv /\ OutputInv
        /\ [Next]_vars => OutputInv'
  BY OutputStep
<1>5. TypeInv /\ FutureInv /\ [Next]_vars => FutureInv'
  BY FutureInvStep
<1>6. TypeInv /\ OutputInv => AnswerIsOwn
  <2>1. TypeOK /\ OutputInv => AnswerIsOwn
    BY DEF OutputInv, ResultsAreComplete, Complete, Capped, AnswerIsOwn, TypeOK, Served
  <2>2. QED
    BY <2>1 DEF TypeInv
<1>7. QED
  BY <1>1, <1>2, <1>3, <1>4, <1>5, <1>6, LoopStep, NoZombieStep, TypeInvInit,
     TypeInvStep, FutureInvInit, PTL DEF Spec

-----------------------------------------------------------------------------
(* Without unique task ids.                                                *)

\* RegisterFuture replaces an entry by one of the same task id.
LEMMA EntriesOfTaskStep ==
  ASSUME TypeInv, EntriesOfTask, [Next]_vars
  PROVE  EntriesOfTask'
<1> USE ConstantsAssumption
    DEF TypeInv, TypeOK, vars, futures, locals, Goto, RequestGoto, EntriesOfTask,
        Servers
<1>1. ASSUME NEW c \in Conns, Upgrade(c) PROVE EntriesOfTask'
  BY <1>1 DEF Upgrade
<1>2. ASSUME NEW c \in Conns, RegisterConnection(c) PROVE EntriesOfTask'
  BY <1>2 DEF RegisterConnection
<1>3. ASSUME NEW c \in Conns, HandleResult(c) PROVE EntriesOfTask'
  BY <1>3 DEF HandleResult, Readable
<1>4. ASSUME NEW c \in Conns, ReadError(c) PROVE EntriesOfTask'
  BY <1>4 DEF ReadError
<1>5. ASSUME NEW c \in Conns, UnregisterConnection(c) PROVE EntriesOfTask'
  BY <1>5 DEF UnregisterConnection
<1>6. ASSUME NEW a \in Closers, CloseAgent(a) PROVE EntriesOfTask'
  BY <1>6 DEF CloseAgent
<1>7. ASSUME NEW a \in Closers, CloseSocket(a) PROVE EntriesOfTask'
  BY <1>7 DEF CloseSocket
<1>8. ASSUME NEW p \in Servers, SnapshotTasks(p) \/ EndResolve(p) PROVE EntriesOfTask'
  BY <1>8 DEF SnapshotTasks, EndResolve
<1>9. ASSUME NEW p \in Servers, NEW t \in Tasks, NextTask(p, t) PROVE EntriesOfTask'
  BY <1>9 DEF NextTask
<1>10. ASSUME NEW p \in Servers, LookupFuture(p) PROVE EntriesOfTask'
  BY <1>10 DEF LookupFuture, SettlesATask, Settling
<1>11. ASSUME NEW p \in Servers, Deliver(p) PROVE EntriesOfTask'
  BY <1>11 DEF Deliver
<1>12. ASSUME NEW p \in Servers, DeletePending(p) PROVE EntriesOfTask'
  BY <1>12 DEF DeletePending
<1>13. ASSUME NEW p \in Servers, DeleteStdout(p) PROVE EntriesOfTask'
  BY <1>13 DEF DeleteStdout
<1>14. ASSUME NEW p \in Servers, DeleteHost(p) PROVE EntriesOfTask'
  BY <1>14 DEF DeleteHost
<1>15. ASSUME NEW r \in Reqs, RegisterFuture(r) PROVE EntriesOfTask'
  BY <1>15 DEF RegisterFuture
<1>16. ASSUME NEW r \in Reqs, UnregisterPending(r) PROVE EntriesOfTask'
  BY <1>16 DEF UnregisterPending
<1>17. ASSUME UNCHANGED <<pendingTasks, pc, cur, ch>> PROVE EntriesOfTask'
  BY <1>17
<1>18. \/ \E c \in Conns : HandleStdout(c) \/ AgentLost(c)
       \/ \E r \in Reqs :
            \/ CheckAgentOnline(r) \/ GetConnection(r) \/ SendToAgent(r)
            \/ ReceiveResult(r) \/ Timeout(r) \/ UnregisterHost(r)
            \/ UnregisterStdout(r)
       \/ \E c \in Conns, r \in Reqs : AgentStdout(c, r) \/ AgentResult(c, r)
       \/ UNCHANGED vars
       => UNCHANGED <<pendingTasks, pc, cur, ch>>
  BY DEF HandleStdout, AgentLost, CheckAgentOnline, GetConnection, SendToAgent,
         ReceiveResult, Timeout, UnregisterHost, UnregisterStdout, AgentStdout,
         AgentResult
<1>19. QED
  BY <1>1, <1>2, <1>3, <1>4, <1>5, <1>6, <1>7, <1>8, <1>9, <1>10, <1>11, <1>12,
     <1>13, <1>14, <1>15, <1>16, <1>17, <1>18, NextActions

\* A result goes from the goroutine that settles the task id to a channel of
\* that id, and from there to its request.
LEMMA ChannelsOfTaskStep ==
  ASSUME TypeInv, SharedIdInv, [Next]_vars
  PROVE  ChannelsOfTask'
<1> USE DEF SharedIdInv
<1>1. ASSUME NEW r \in Reqs, NEW m, ResultOfTask(m, r) PROVE ResultOfTask(m, r)'
  BY <1>1, ServedGrows DEF ResultOfTask
<1>2. ASSUME NEW r \in Reqs, NEW p \in Servers, pc[p] = "deliver", ch[p] = r
      PROVE  out[p].kind \in Outcomes /\ ResultOfTask(out[p], r)
  BY <1>2 DEF EntriesOfTask, CarriedResults, ResultOfTask, Settling
<1>3. ASSUME NEW r \in Reqs
      PROVE  /\ channel'[r] # NoAnswer => channel'[r].kind \in Outcomes
             /\ ResultOfTask(channel[r], r)'
  <2>1. /\ channel'[r] # NoAnswer => channel'[r].kind \in Outcomes
        /\ ResultOfTask(channel'[r], r)
    <3>1. ResultOfTask(NoAnswer, r)
      BY DEF ResultOfTask, NoAnswer, Error
    <3>2. QED
      BY <1>2, <3>1, ChannelStep DEF ChannelsOfTask
  <2>2. PICK m : m = channel'[r]
    OBVIOUS
  <2>3. QED
    BY <1>1, <2>1, <2>2 DEF ResultOfTask
<1>4. ASSUME NEW r \in Reqs PROVE ResultOfTask(reply[r], r)'
  <2>1. ResultOfTask(reply'[r], r)
    <3>1. CASE reply'[r].kind \in {"agent_offline", "send_failed", "task_timeout"}
      BY <3>1 DEF ResultOfTask
    <3>2. QED
      BY <3>1, ReplyStep DEF ChannelsOfTask
  <2>2. PICK m : m = reply'[r]
    OBVIOUS
  <2>3. QED
    BY <1>1, <2>1, <2>2 DEF ResultOfTask
<1>5. QED
  BY <1>3, <1>4 DEF ChannelsOfTask

\* Even when callers use a task id for several requests, to one host or to
\* several, an answer of 200 is the result of a task of that id which an agent was
\* done with, and a request refused with agent_offline or send_failed is not run:
\* what is lost is only whose command of that id it was.
THEOREM SharedIdsStayTogether == Spec => []AnswerIsOfTask
<1>1. Init => LoopHeld /\ SharedIdInv
  BY ConstantsAssumption
     DEF Init, LoopHeld, SharedIdInv, CarriedResults, EntriesOfTask, ChannelsOfTask,
         ResultOfTask, HonestRefusals, NoAnswer, Error, Servers, Settling, Served
<1>2. TypeInv /\ LoopHeld /\ SharedIdInv /\ [Next]_vars => SharedIdInv'
  BY CarriedStep, EntriesOfTaskStep, ChannelsOfTaskStep, HonestRefusalsStep
     DEF SharedIdInv, ChannelsOfTask
<1>3. SharedIdInv => AnswerIsOfTask
  BY DEF SharedIdInv, ChannelsOfTask, HonestRefusals, AnswerIsOfTask, Answered
<1>4. QED
  BY <1>1, <1>2, <1>3, LoopStep, TypeInvInit, TypeInvStep, PTL DEF Spec
=============================================================================
