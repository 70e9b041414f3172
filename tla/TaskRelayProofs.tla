--------------------------- MODULE TaskRelayProofs --------------------------
(***************************************************************************)
(* Theorems about TaskRelay, for every set of hosts, connections,          *)
(* requests, closers and task ids.                                         *)
(***************************************************************************)
EXTENDS TaskRelayProperties, TLAPS

LEMMA ErrorType ==
  ASSUME NEW kind \in ErrorKinds
  PROVE  Error(kind) \in Answers
BY DEF Error, Answers, ErrorKinds

\* A task more on its way to the agent of one connection.
LEMMA TaskSentTyped ==
  ASSUME NEW sent \in [Conns -> SUBSET Reqs], NEW c, NEW r \in Reqs
  PROVE  [sent EXCEPT ![c] = @ \cup {r}] \in [Conns -> SUBSET Reqs]
<1>1. sent[c] \cup {r} \subseteq Reqs \/ c \notin Conns
  OBVIOUS
<1>2. QED
  BY <1>1

LEMMA RequestGotoTyped ==
  ASSUME TypeOK, NEW r \in Reqs, NEW label \in RequestPc, RequestGoto(r, label)
  PROVE  reqPc' \in [Reqs -> RequestPc]
  BY DEF TypeOK, RequestGoto

\* An error answer keeps the type of reply.
LEMMA AnswerTyped ==
  ASSUME TypeOK, NEW r \in Reqs, NEW kind \in ErrorKinds, Answer(r, kind)
  PROVE  reply' \in [Reqs -> Answers]
  BY ErrorType DEF TypeOK, Answer

LEMMA HeadTail ==
  ASSUME NEW S, NEW q \in Seq(S), q # <<>>
  PROVE  Head(q) \in S /\ Tail(q) \in Seq(S)
OBVIOUS

LEMMA NextActions ==
  ASSUME Next
  PROVE  \/ \E c \in Conns :
              \/ Upgrade(c) \/ RegisterConnection(c) \/ HandleStdout(c)
              \/ HandleResult(c) \/ ReadError(c) \/ UnregisterConnection(c)
              \/ AgentLost(c)
         \/ \E a \in Closers : CloseAgent(a) \/ CloseSocket(a)
         \/ \E p \in Servers :
              \/ SnapshotTasks(p) \/ EndResolve(p)
              \/ \E t \in Tasks : NextTask(p, t)
         \/ \E p \in Servers :
              \/ LookupFuture(p) \/ Deliver(p) \/ DeletePending(p)
              \/ DeleteStdout(p) \/ DeleteHost(p)
         \/ \E r \in Reqs :
              \/ CheckAgentOnline(r) \/ RegisterFuture(r) \/ GetConnection(r)
              \/ SendToAgent(r) \/ ReceiveResult(r) \/ Timeout(r)
              \/ UnregisterPending(r) \/ UnregisterHost(r) \/ UnregisterStdout(r)
         \/ \E c \in Conns, r \in Reqs : AgentStdout(c, r) \/ AgentResult(c, r)
         \/ UNCHANGED vars
BY DEF Next, ConnStep, ReadLoop, Resolve, Settle, RequestStep,
   UnregisterFuture, Finished

-----------------------------------------------------------------------------
(* Types.  TypeOK alone is not inductive: LookupFuture reads               *)
(* pendingTasks[cur[p]], which has a type because cur[p] is a task id.     *)

TypeInv == TypeOK /\ SettlesATask

LEMMA TypeInvInit == Init => TypeInv
BY ErrorType
   DEF Init, TypeInv, TypeOK, SettlesATask, Settling, NoAnswer, ErrorKinds,
       ServerPc, RequestPc

LEMMA TypeInvStep == TypeInv /\ [Next]_vars => TypeInv'
<1> SUFFICES ASSUME TypeInv, [Next]_vars PROVE TypeInv'
  OBVIOUS
<1> USE ConstantsAssumption
    DEF TypeInv, vars, registry, futures, locals, requests, agents, Goto,
        RequestGoto, Servers, ServerPc, RequestPc
<1>1. ASSUME NEW c \in Conns, Upgrade(c) PROVE TypeInv'
  BY <1>1 DEF TypeOK, SettlesATask, Settling, Upgrade
<1>2. ASSUME NEW c \in Conns, RegisterConnection(c) PROVE TypeInv'
  BY <1>2 DEF TypeOK, SettlesATask, Settling, RegisterConnection
<1>3. ASSUME NEW c \in Conns, HandleStdout(c) PROVE TypeInv'
  <2>1. /\ Head(fromAgent[c]) \in Messages
        /\ Tail(fromAgent[c]) \in Seq(Messages)
    BY <1>3, HeadTail DEF HandleStdout, TypeOK, Readable
  <2>2. fromAgent' \in [Conns -> Seq(Messages)]
    BY <1>3, <2>1 DEF HandleStdout, TypeOK, Consume
  <2>3. stdoutBuffers' \in [Tasks -> Nat]
    BY <1>3, <2>1 DEF HandleStdout, TypeOK, Messages
  <2>4. QED
    BY <1>3, <2>2, <2>3 DEF HandleStdout, TypeOK, SettlesATask, Settling
<1>4. ASSUME NEW c \in Conns, HandleResult(c) PROVE TypeInv'
  <2>1. /\ Head(fromAgent[c]) \in Messages
        /\ Tail(fromAgent[c]) \in Seq(Messages)
    BY <1>4, HeadTail DEF HandleResult, TypeOK, Readable
  <2>2. QED
    BY <1>4, <2>1
       DEF HandleResult, TypeOK, SettlesATask, Readable, Consume, Messages,
           Answers
<1>5. ASSUME NEW c \in Conns, ReadError(c) PROVE TypeInv'
  BY <1>5 DEF TypeOK, SettlesATask, Settling, ReadError
<1>6. ASSUME NEW c \in Conns, UnregisterConnection(c) PROVE TypeInv'
  BY <1>6 DEF TypeOK, SettlesATask, Settling, UnregisterConnection
<1>7. ASSUME NEW c \in Conns, AgentLost(c) PROVE TypeInv'
  BY <1>7 DEF TypeOK, SettlesATask, AgentLost
<1>8. ASSUME NEW a \in Closers, CloseAgent(a) PROVE TypeInv'
  BY <1>8 DEF TypeOK, SettlesATask, Settling, CloseAgent
<1>9. ASSUME NEW a \in Closers, CloseSocket(a) PROVE TypeInv'
  BY <1>9 DEF TypeOK, SettlesATask, Settling, CloseSocket
<1>10. ASSUME NEW p \in Servers, SnapshotTasks(p) PROVE TypeInv'
  BY <1>10, ErrorType
     DEF TypeOK, SettlesATask, Settling, SnapshotTasks, ResolveReason,
         ErrorKinds
<1>11. ASSUME NEW p \in Servers, EndResolve(p) PROVE TypeInv'
  BY <1>11, ErrorType
     DEF TypeOK, SettlesATask, Settling, EndResolve, NoAnswer, ErrorKinds
<1>12. ASSUME NEW p \in Servers, NEW t \in Tasks, NextTask(p, t) PROVE TypeInv'
  BY <1>12 DEF TypeOK, SettlesATask, NextTask
<1>13. ASSUME NEW p \in Servers, LookupFuture(p) PROVE TypeInv'
  <2>1. CASE pendingTasks[cur[p]] = None
    BY <1>13 DEF LookupFuture, TypeOK, SettlesATask, Settling
  <2>2. CASE ~(pendingTasks[cur[p]] = None)
    BY <1>13 DEF LookupFuture, TypeOK, SettlesATask, Settling
  <2>3. QED
    BY <2>1, <2>2
<1>14. ASSUME NEW p \in Servers, Deliver(p) PROVE TypeInv'
  BY <1>14 DEF TypeOK, SettlesATask, Settling, Deliver
<1>15. ASSUME NEW p \in Servers, DeletePending(p) PROVE TypeInv'
  BY <1>15 DEF TypeOK, SettlesATask, Settling, DeletePending
<1>16. ASSUME NEW p \in Servers, DeleteStdout(p) PROVE TypeInv'
  BY <1>16 DEF TypeOK, SettlesATask, Settling, DeleteStdout
<1>17. ASSUME NEW p \in Servers, DeleteHost(p) PROVE TypeInv'
  BY <1>17, ErrorType
     DEF TypeOK, SettlesATask, Settling, DeleteHost, NoAnswer, ErrorKinds
<1>18. ASSUME NEW r \in Reqs, CheckAgentOnline(r) PROVE TypeInv'
  <2>1. UNCHANGED <<registry, futures, sock, pc, locals, connRef, agents>>
    BY <1>18 DEF CheckAgentOnline
  <2>2. reqPc' \in [Reqs -> RequestPc]
    <3>1. RequestGoto(r, "done") \/ RequestGoto(r, "register")
      BY <1>18 DEF CheckAgentOnline
    <3>2. QED
      BY <3>1, RequestGotoTyped DEF RequestPc
  <2>3. reply' \in [Reqs -> Answers]
    <3>1. CASE wsConnections[HostOf[r]] = None
      <4>1. Answer(r, "agent_offline")
        BY <1>18, <3>1 DEF CheckAgentOnline
      <4>2. QED
        BY <4>1, AnswerTyped DEF ErrorKinds
    <3>2. CASE wsConnections[HostOf[r]] # None
      BY <1>18, <3>2 DEF CheckAgentOnline, TypeOK
    <3>3. QED
      BY <3>1, <3>2
  <2>4. QED
    BY <2>1, <2>2, <2>3 DEF TypeOK, SettlesATask, Settling
<1>19. ASSUME NEW r \in Reqs, RegisterFuture(r) PROVE TypeInv'
  BY <1>19 DEF TypeOK, SettlesATask, RegisterFuture
<1>20. ASSUME NEW r \in Reqs, GetConnection(r) PROVE TypeInv'
  <2>1. UNCHANGED <<registry, futures, sock, pc, locals, agents>>
    BY <1>20 DEF GetConnection
  <2>2. reqPc' \in [Reqs -> RequestPc]
    <3>1. RequestGoto(r, "unregPending") \/ RequestGoto(r, "write")
      BY <1>20 DEF GetConnection
    <3>2. QED
      BY <3>1, RequestGotoTyped DEF RequestPc
  <2>3. reply' \in [Reqs -> Answers]
    <3>1. CASE wsConnections[HostOf[r]] = None
      <4>1. Answer(r, "send_failed")
        BY <1>20, <3>1 DEF GetConnection
      <4>2. QED
        BY <4>1, AnswerTyped DEF ErrorKinds
    <3>2. CASE wsConnections[HostOf[r]] # None
      BY <1>20, <3>2 DEF GetConnection, TypeOK
    <3>3. QED
      BY <3>1, <3>2
  <2>4. connRef' \in [Reqs \cup Closers -> Conns \cup {None}]
    <3>1. \/ UNCHANGED connRef
          \/ /\ wsConnections[HostOf[r]] # None
             /\ connRef' = [connRef EXCEPT ![r] = wsConnections[HostOf[r]]]
      BY <1>20 DEF GetConnection
    <3>2. /\ connRef \in [Reqs \cup Closers -> Conns \cup {None}]
          /\ wsConnections[HostOf[r]] \in Conns \cup {None}
      BY DEF TypeOK
    <3>3. QED
      BY <3>1, <3>2
  <2>5. QED
    BY <2>1, <2>2, <2>3, <2>4 DEF TypeOK, SettlesATask, Settling
<1>21. ASSUME NEW r \in Reqs, SendToAgent(r) PROVE TypeInv'
  <2>1. UNCHANGED <<registry, pendingTasks, stdoutBuffers, channel, sock, pc,
                    locals, connRef, fromAgent, chunks, verdict>>
    BY <1>21 DEF SendToAgent
  <2>2. reqPc' \in [Reqs -> RequestPc]
    <3>1. RequestGoto(r, "wait") \/ RequestGoto(r, "unregPending")
      BY <1>21 DEF SendToAgent
    <3>2. QED
      BY <3>1, RequestGotoTyped DEF RequestPc
  <2>3. reply' \in [Reqs -> Answers]
    <3>1. \/ reply' = reply
          \/ Answer(r, "send_failed")
      BY <1>21 DEF SendToAgent
    <3>2. CASE reply' = reply
      BY <3>2 DEF TypeOK
    <3>3. CASE Answer(r, "send_failed")
      BY <3>3, AnswerTyped DEF ErrorKinds
    <3>4. QED
      BY <3>1, <3>2, <3>3
  <2>4. toAgent' \in [Conns -> SUBSET Reqs]
    <3>1. \/ toAgent' = toAgent
          \/ toAgent' = [toAgent EXCEPT ![connRef[r]] = @ \cup {r}]
      BY <1>21 DEF SendToAgent, TypeOK
    <3>2. CASE toAgent' = toAgent
      BY <3>2 DEF TypeOK
    <3>3. CASE toAgent' = [toAgent EXCEPT ![connRef[r]] = @ \cup {r}]
      BY <3>3, TaskSentTyped DEF TypeOK
    <3>4. QED
      BY <3>1, <3>2, <3>3
  <2>5. taskHostnames' \in [Tasks -> Hosts \cup {None}]
    BY <1>21, ErrorType DEF SendToAgent, TypeOK
  <2>6. QED
    BY <2>1, <2>2, <2>3, <2>4, <2>5 DEF TypeOK, SettlesATask, Settling
<1>22. ASSUME NEW r \in Reqs, ReceiveResult(r) PROVE TypeInv'
  BY <1>22, ErrorType
     DEF TypeOK, SettlesATask, ReceiveResult, NoAnswer, ErrorKinds
<1>23. ASSUME NEW r \in Reqs, Timeout(r) PROVE TypeInv'
  BY <1>23, ErrorType DEF TypeOK, SettlesATask, Timeout, Answer, ErrorKinds
<1>24. ASSUME NEW r \in Reqs, UnregisterPending(r) PROVE TypeInv'
  BY <1>24 DEF TypeOK, SettlesATask, UnregisterPending
<1>25. ASSUME NEW r \in Reqs, UnregisterHost(r) PROVE TypeInv'
  BY <1>25 DEF TypeOK, SettlesATask, UnregisterHost
<1>26. ASSUME NEW r \in Reqs, UnregisterStdout(r) PROVE TypeInv'
  BY <1>26 DEF TypeOK, SettlesATask, UnregisterStdout
<1>27. ASSUME NEW c \in Conns, NEW r \in Reqs, AgentStdout(c, r) PROVE TypeInv'
  <2> DEFINE m == [kind |-> "stdout", req |-> r, stdout |-> 0]
  <2>1. UNCHANGED <<registry, futures, sock, pc, locals, requests, toAgent, verdict>>
    BY <1>27 DEF AgentStdout
  <2>2. chunks' \in [Reqs -> Nat]
    BY <1>27 DEF AgentStdout, TypeOK
  <2>3. m \in Messages
    BY DEF Messages
  <2>4. fromAgent' = [fromAgent EXCEPT ![c] = Append(@, m)]
    BY <1>27 DEF AgentStdout
  <2> HIDE DEF m
  <2>5. fromAgent' \in [Conns -> Seq(Messages)]
    <3>1. Append(fromAgent[c], m) \in Seq(Messages)
      BY <2>3 DEF TypeOK
    <3>2. QED
      BY <2>4, <3>1 DEF TypeOK
  <2>6. QED
    BY <2>1, <2>2, <2>5 DEF TypeOK, SettlesATask, Settling
<1>28. ASSUME NEW c \in Conns, NEW r \in Reqs, AgentResult(c, r) PROVE TypeInv'
  <2>1. UNCHANGED <<registry, futures, sock, pc, locals, requests, chunks>>
    BY <1>28 DEF AgentResult
  <2>2. toAgent' \in [Conns -> SUBSET Reqs]
    BY <1>28, ErrorType DEF AgentResult, TypeOK
  <2>3. verdict' \in [Reqs -> AllVerdicts \cup {"none"}]
    BY <1>28, ErrorType DEF AgentResult, TypeOK
  <2>4. fromAgent' \in [Conns -> Seq(Messages)]
    <3>1. \/ fromAgent' = fromAgent
          \/ \E m \in Messages : fromAgent' = [fromAgent EXCEPT ![c] = Append(@, m)]
      BY <1>28 DEF AgentResult, TypeOK, Messages
    <3>2. CASE fromAgent' = fromAgent
      BY <3>2 DEF TypeOK
    <3>3. ASSUME NEW m \in Messages,
                 fromAgent' = [fromAgent EXCEPT ![c] = Append(@, m)]
          PROVE  fromAgent' \in [Conns -> Seq(Messages)]
      <4>1. Append(fromAgent[c], m) \in Seq(Messages)
        BY DEF TypeOK
      <4>2. QED
        BY <3>3, <4>1 DEF TypeOK
    <3>4. QED
      BY <3>1, <3>2, <3>3
  <2>5. QED
    BY <2>1, <2>2, <2>3, <2>4 DEF TypeOK, SettlesATask, Settling
<1>29. CASE UNCHANGED vars
  BY <1>29 DEF TypeOK, SettlesATask, Settling
<1>30. QED
  BY <1>1, <1>2, <1>3, <1>4, <1>5, <1>6, <1>7, <1>8, <1>9, <1>10, <1>11, <1>12,
     <1>13, <1>14, <1>15, <1>16, <1>17, <1>18, <1>19, <1>20, <1>21, <1>22,
     <1>23, <1>24, <1>25, <1>26, <1>27, <1>28, <1>29, NextActions

\* No map is ever indexed or filled with a value of another kind, and every
\* goroutine that settles a task holds a task id.
THEOREM TypeCorrect == Spec => [](TypeOK /\ SettlesATask)
<1>1. Spec => []TypeInv
  BY TypeInvInit, TypeInvStep, PTL DEF Spec
<1>2. QED
  BY <1>1, PTL DEF TypeInv

-----------------------------------------------------------------------------
(* The registry.  NoZombieConnection is inductive given the types: only    *)
(* RegisterConnection enters a connection, at its own "reading", and       *)
(* UnregisterConnection clears the whole entry of the hostname, so that a  *)
(* connection is out of the map before its handler starts to resolve.      *)

LEMMA NoZombieStep ==
  TypeInv /\ NoZombieConnection /\ [Next]_vars => NoZombieConnection'
<1> SUFFICES ASSUME TypeInv, NoZombieConnection, [Next]_vars
             PROVE  NoZombieConnection'
  OBVIOUS
<1> USE ConstantsAssumption
    DEF TypeInv, vars, registry, futures, locals, requests, agents, Goto,
        RequestGoto, Servers
<1>1. ASSUME NEW c \in Conns, Upgrade(c) PROVE NoZombieConnection'
  BY <1>1 DEF NoZombieConnection, Unregistered, Resolving, Upgrade
<1>2. ASSUME NEW c \in Conns, RegisterConnection(c) PROVE NoZombieConnection'
  BY <1>2
     DEF TypeOK, NoZombieConnection, Unregistered, Settling, Resolving,
         RegisterConnection
<1>3. ASSUME NEW c \in Conns, HandleStdout(c) PROVE NoZombieConnection'
  BY <1>3 DEF TypeOK, NoZombieConnection, Unregistered, Settling, Resolving,
     HandleStdout
<1>4. ASSUME NEW c \in Conns, HandleResult(c) PROVE NoZombieConnection'
  BY <1>4 DEF TypeOK, NoZombieConnection, Unregistered, Resolving, HandleResult
<1>5. ASSUME NEW c \in Conns, ReadError(c) PROVE NoZombieConnection'
  BY <1>5 DEF NoZombieConnection, Unregistered, Settling, Resolving, ReadError
<1>6. ASSUME NEW c \in Conns, UnregisterConnection(c) PROVE NoZombieConnection'
  BY <1>6
     DEF TypeOK, NoZombieConnection, Unregistered, Resolving,
         UnregisterConnection
<1>7. ASSUME NEW c \in Conns, AgentLost(c) PROVE NoZombieConnection'
  BY <1>7 DEF NoZombieConnection, Unregistered, Resolving, AgentLost
<1>8. ASSUME NEW a \in Closers, CloseAgent(a) PROVE NoZombieConnection'
  BY <1>8 DEF NoZombieConnection, Unregistered, Resolving, CloseAgent
<1>9. ASSUME NEW a \in Closers, CloseSocket(a) PROVE NoZombieConnection'
  BY <1>9 DEF TypeOK, NoZombieConnection, Unregistered, Resolving, CloseSocket
<1>10. ASSUME NEW p \in Servers, SnapshotTasks(p) PROVE NoZombieConnection'
  BY <1>10 DEF NoZombieConnection, Unregistered, Resolving, SnapshotTasks
<1>11. ASSUME NEW p \in Servers, EndResolve(p) PROVE NoZombieConnection'
  BY <1>11 DEF NoZombieConnection, Unregistered, Resolving, EndResolve
<1>12. ASSUME NEW p \in Servers, NEW t \in Tasks, NextTask(p, t) PROVE NoZombieConnection'
  BY <1>12 DEF NoZombieConnection, Unregistered, Resolving, NextTask
<1>13. ASSUME NEW p \in Servers, LookupFuture(p) PROVE NoZombieConnection'
  BY <1>13
     DEF NoZombieConnection, Unregistered, Settling, Resolving, LookupFuture
<1>14. ASSUME NEW p \in Servers, Deliver(p) PROVE NoZombieConnection'
  BY <1>14 DEF NoZombieConnection, Unregistered, Settling, Resolving, Deliver
<1>15. ASSUME NEW p \in Servers, DeletePending(p) PROVE NoZombieConnection'
  BY <1>15
     DEF NoZombieConnection, Unregistered, Settling, Resolving, DeletePending
<1>16. ASSUME NEW p \in Servers, DeleteStdout(p) PROVE NoZombieConnection'
  BY <1>16
     DEF NoZombieConnection, Unregistered, Settling, Resolving, DeleteStdout
<1>17. ASSUME NEW p \in Servers, DeleteHost(p) PROVE NoZombieConnection'
  BY <1>17
     DEF TypeOK, NoZombieConnection, Unregistered, Settling, Resolving,
         DeleteHost
<1>18. ASSUME NEW r \in Reqs, CheckAgentOnline(r) PROVE NoZombieConnection'
  BY <1>18 DEF NoZombieConnection, Unregistered, Resolving, CheckAgentOnline
<1>19. ASSUME NEW r \in Reqs, RegisterFuture(r) PROVE NoZombieConnection'
  BY <1>19 DEF NoZombieConnection, Unregistered, Resolving, RegisterFuture
<1>20. ASSUME NEW r \in Reqs, GetConnection(r) PROVE NoZombieConnection'
  BY <1>20 DEF NoZombieConnection, Unregistered, Resolving, GetConnection
<1>21. ASSUME NEW r \in Reqs, SendToAgent(r) PROVE NoZombieConnection'
  BY <1>21 DEF NoZombieConnection, Unregistered, Resolving, SendToAgent
<1>22. ASSUME NEW r \in Reqs, ReceiveResult(r) PROVE NoZombieConnection'
  BY <1>22 DEF NoZombieConnection, Unregistered, Resolving, ReceiveResult
<1>23. ASSUME NEW r \in Reqs, Timeout(r) PROVE NoZombieConnection'
  BY <1>23 DEF NoZombieConnection, Unregistered, Resolving, Timeout
<1>24. ASSUME NEW r \in Reqs, UnregisterPending(r) PROVE NoZombieConnection'
  BY <1>24 DEF NoZombieConnection, Unregistered, Resolving, UnregisterPending
<1>25. ASSUME NEW r \in Reqs, UnregisterHost(r) PROVE NoZombieConnection'
  BY <1>25 DEF NoZombieConnection, Unregistered, Resolving, UnregisterHost
<1>26. ASSUME NEW r \in Reqs, UnregisterStdout(r) PROVE NoZombieConnection'
  BY <1>26 DEF NoZombieConnection, Unregistered, Resolving, UnregisterStdout
<1>27. ASSUME NEW c \in Conns, NEW r \in Reqs, AgentStdout(c, r) PROVE NoZombieConnection'
  BY <1>27 DEF NoZombieConnection, Unregistered, Resolving, AgentStdout
<1>28. ASSUME NEW c \in Conns, NEW r \in Reqs, AgentResult(c, r) PROVE NoZombieConnection'
  BY <1>28 DEF NoZombieConnection, Unregistered, Resolving, AgentResult
<1>29. CASE UNCHANGED vars
  BY <1>29 DEF NoZombieConnection, Unregistered, Resolving
<1>30. QED
  BY <1>1, <1>2, <1>3, <1>4, <1>5, <1>6, <1>7, <1>8, <1>9, <1>10, <1>11,
     <1>12, <1>13, <1>14, <1>15, <1>16, <1>17, <1>18, <1>19, <1>20,
     <1>21, <1>22, <1>23, <1>24, <1>25, <1>26, <1>27, <1>28, <1>29,
     NextActions

\* For every number of connections, requests and admin calls: the connection
\* that GetConnection returns is one whose handler still has its cleanup ahead.
THEOREM RegistryIsLive == Spec => []NoZombieConnection
<1>1. Init => NoZombieConnection
  BY ConstantsAssumption DEF Init, NoZombieConnection
<1>2. QED
  BY <1>1, TypeInvInit, TypeInvStep, NoZombieStep, PTL DEF Spec

-----------------------------------------------------------------------------
(* The futures, when task ids are unique.                                  *)

LEMMA FutureInvInit == Init => FutureInv
BY ConstantsAssumption
   DEF Init, FutureInv, EntriesMatch, TracesBegun, DeliversOwn,
       DeliveredFirst, FilledIsDeleted, NoLostFuture, InFlight, Settling

LEMMA MessagesKept ==
  ASSUME TypeOK, TracesBegun, fromAgent' = fromAgent,
         \A s \in Reqs : Begun(s) => Begun(s)'
  PROVE  \A c \in Conns : \A i \in 1..Len(fromAgent[c]) :
           Begun(fromAgent[c][i].req)'
<1> SUFFICES ASSUME NEW c \in Conns, NEW i \in 1..Len(fromAgent[c])
             PROVE  Begun(fromAgent[c][i].req)'
  OBVIOUS
<1>1. fromAgent[c][i] \in Messages
  BY DEF TypeOK
<1>2. fromAgent[c][i].req \in Reqs
  BY <1>1 DEF Messages
<1>3. fromAgent[c][i].req = fromAgent'[c][i].req
  OBVIOUS
<1>4. QED
  BY <1>2, <1>3 DEF TracesBegun

\* A request that answers or looks up its connection leaves every trace of
\* a task id where it is.
LEMMA TracesKept ==
  ASSUME TypeOK, TracesBegun,
         taskHostnames' = taskHostnames, channel' = channel,
         toAgent' = toAgent, fromAgent' = fromAgent,
         todo' = todo, pc' = pc, cur' = cur,
         \A s \in Reqs : Begun(s) => Begun(s)'
  PROVE  TracesBegun'
<1>1. \A r \in Reqs : taskHostnames'[TaskOf[r]] # None => Begun(r)'
  BY DEF TracesBegun
<1>2. \A r \in Reqs : channel'[r] # NoAnswer => Begun(r)'
  BY DEF TracesBegun
<1>3. \A c \in Conns : \A r \in toAgent'[c] : Begun(r)'
  BY DEF TracesBegun, TypeOK
<1>4. \A c \in Conns : \A i \in 1..Len(fromAgent[c]) : Begun(fromAgent[c][i].req)'
  BY MessagesKept
<1>5. \A p \in Servers, r \in Reqs :
        TaskOf[r] \in todo'[p] \/ (pc'[p] \in Settling /\ cur'[p] = TaskOf[r])
          => Begun(r)'
  BY DEF TracesBegun
<1>6. QED
  BY <1>1, <1>2, <1>3, <1>4, <1>5 DEF TracesBegun

\* Messages and tasks on their way to and from an agent matter to the futures
\* only as traces of a task id.
LEMMA FutureFrame ==
  ASSUME FutureInv,
         pendingTasks' = pendingTasks, taskHostnames' = taskHostnames,
         channel' = channel, reqPc' = reqPc, pc' = pc,
         todo' = todo, cur' = cur, ch' = ch, out' = out,
         \A c \in Conns : toAgent'[c] \subseteq toAgent[c],
         \A c \in Conns : \A i \in 1..Len(fromAgent'[c]) : Begun(fromAgent'[c][i].req)
  PROVE  FutureInv'
<1>1. \A r : Begun(r)' <=> Begun(r)
  BY DEF Begun
<1>2. EntriesMatch'
  BY <1>1 DEF FutureInv, EntriesMatch
<1>3. TracesBegun'
  <2>1. \A r \in Reqs : taskHostnames'[TaskOf[r]] # None => Begun(r)'
    BY <1>1 DEF FutureInv, TracesBegun
  <2>2. \A r \in Reqs : channel'[r] # NoAnswer => Begun(r)'
    BY <1>1 DEF FutureInv, TracesBegun
  <2>3. \A c \in Conns : \A r \in toAgent'[c] : Begun(r)'
    BY <1>1 DEF FutureInv, TracesBegun
  <2>4. (\A c \in Conns : \A i \in 1..Len(fromAgent[c]) : Begun(fromAgent[c][i].req))'
    BY DEF Begun
  <2>5. \A p \in Servers, r \in Reqs :
          TaskOf[r] \in todo'[p] \/ (pc'[p] \in Settling /\ cur'[p] = TaskOf[r])
            => Begun(r)'
    BY <1>1 DEF FutureInv, TracesBegun
  <2>6. QED
    BY <2>1, <2>2, <2>3, <2>4, <2>5 DEF TracesBegun
<1>4. DeliversOwn'
  BY DEF FutureInv, DeliversOwn
<1>5. DeliveredFirst'
  BY DEF FutureInv, DeliveredFirst, InFlight
<1>6. FilledIsDeleted'
  BY DEF FutureInv, FilledIsDeleted
<1>7. NoLostFuture'
  BY DEF FutureInv, NoLostFuture, InFlight
<1>8. QED
  BY <1>2, <1>3, <1>4, <1>5, <1>6, <1>7 DEF FutureInv

LEMMA FutureInvStep ==
  UniqueIds /\ TypeInv /\ FutureInv /\ [Next]_vars => FutureInv'
<1> SUFFICES ASSUME UniqueIds, TypeInv, FutureInv, [Next]_vars
             PROVE  FutureInv'
  OBVIOUS
<1> USE ConstantsAssumption
    DEF UniqueIds, TypeInv, vars, registry, futures, locals, requests, agents, Goto,
        RequestGoto, Servers
<1>1. ASSUME NEW c \in Conns, Upgrade(c) PROVE FutureInv'
  <2>1. EntriesMatch'
    BY <1>1 DEF Upgrade, Begun, FutureInv, EntriesMatch
  <2>2. TracesBegun'
    BY <1>1 DEF Upgrade, Settling, Begun, FutureInv, TracesBegun
  <2>3. DeliversOwn'
    BY <1>1 DEF Upgrade, Settling, FutureInv, DeliversOwn
  <2>4. DeliveredFirst'
    BY <1>1 DEF Upgrade, InFlight, FutureInv, DeliveredFirst
  <2>5. FilledIsDeleted'
    BY <1>1 DEF Upgrade, FutureInv, FilledIsDeleted
  <2>6. NoLostFuture'
    BY <1>1 DEF Upgrade, InFlight, FutureInv, NoLostFuture
  <2>7. QED
    BY <2>1, <2>2, <2>3, <2>4, <2>5, <2>6 DEF FutureInv
<1>2. ASSUME NEW c \in Conns, RegisterConnection(c) PROVE FutureInv'
  BY <1>2
     DEF Settling, FutureInv, EntriesMatch, TracesBegun, DeliversOwn,
         DeliveredFirst, FilledIsDeleted, NoLostFuture, Begun, InFlight,
         RegisterConnection
<1>3. ASSUME NEW c \in Conns, HandleStdout(c) PROVE FutureInv'
  <2>1. fromAgent[c] \in Seq(Messages) /\ fromAgent[c] # <<>>
    BY <1>3 DEF HandleStdout, Readable, TypeOK
  <2>2. \A d \in Conns : \A i \in 1..Len(fromAgent'[d]) :
          Begun(fromAgent'[d][i].req)
    BY <1>3, <2>1 DEF HandleStdout, Consume, TypeOK, FutureInv, TracesBegun
  <2>3. QED
    BY <1>3, <2>2, FutureFrame DEF HandleStdout
<1>4. ASSUME NEW c \in Conns, HandleResult(c) PROVE FutureInv'
  <2>1. fromAgent[c] \in Seq(Messages) /\ fromAgent[c] # <<>>
    BY <1>4 DEF HandleResult, Readable, TypeOK
  <2>2. \A d \in Conns : \A i \in 1..Len(fromAgent'[d]) :
          Begun(fromAgent'[d][i].req)
    BY <1>4 DEF HandleResult, Consume, FutureInv, TracesBegun
  <2>3. Begun(Head(fromAgent[c]).req)
    BY <1>4, <2>1 DEF FutureInv, TracesBegun, TypeOK
  <2>4. Head(fromAgent[c]) \in Messages
    BY <2>1, HeadTail
  <2>5. EntriesMatch'
    BY <1>4, <2>1, <2>2, <2>3
       DEF HandleResult, Readable, TypeOK, Begun, InFlight, FutureInv,
           EntriesMatch, TracesBegun, DeliversOwn, DeliveredFirst,
           FilledIsDeleted
  <2>6. TracesBegun'
    <3>1. /\ reqPc' = reqPc /\ taskHostnames' = taskHostnames /\ channel' = channel
          /\ toAgent' = toAgent /\ todo' = todo
      BY <1>4 DEF HandleResult
    <3>2. \A r \in Reqs : TaskOf[r] = TaskOf[Head(fromAgent[c]).req] => Begun(r)
      BY <2>3, <2>4 DEF Messages
    <3>3. \A p \in Servers, r \in Reqs :
            pc'[p] \in Settling /\ cur'[p] = TaskOf[r] => Begun(r)
      BY <1>4, <3>2 DEF HandleResult, FutureInv, TracesBegun, TypeOK
    <3>4. QED
      BY <2>2, <3>1, <3>3 DEF FutureInv, TracesBegun, Begun
  <2>7. DeliversOwn'
    BY <1>4, <2>1, <2>2, <2>3, <2>4 DEF HandleResult, Messages, NoAnswer, Error,
       Readable, TypeOK, SettlesATask, Settling, Begun, InFlight,
       FutureInv, EntriesMatch, TracesBegun, DeliversOwn, DeliveredFirst,
       FilledIsDeleted, NoLostFuture
  <2>8. DeliveredFirst'
    BY <1>4, <2>1, <2>2, <2>3, <2>4 DEF HandleResult, Messages, NoAnswer, Error,
       Readable, TypeOK, SettlesATask, Settling, Begun, InFlight,
       FutureInv, EntriesMatch, TracesBegun, DeliversOwn, DeliveredFirst,
       FilledIsDeleted, NoLostFuture
  <2>9. FilledIsDeleted'
    BY <1>4, <2>1, <2>2, <2>3, <2>4 DEF HandleResult, Messages, NoAnswer, Error,
       Readable, TypeOK, SettlesATask, Settling, Begun, InFlight,
       FutureInv, EntriesMatch, TracesBegun, DeliversOwn, DeliveredFirst,
       FilledIsDeleted, NoLostFuture
  <2>10. NoLostFuture'
    BY <1>4
       DEF HandleResult, Error, Readable, TypeOK, SettlesATask, Settling,
           Begun, InFlight, FutureInv, TracesBegun, NoLostFuture
  <2>11. QED
    BY <2>5, <2>6, <2>7, <2>8, <2>9, <2>10 DEF FutureInv
<1>5. ASSUME NEW c \in Conns, ReadError(c) PROVE FutureInv'
  BY <1>5
     DEF Settling, FutureInv, EntriesMatch, TracesBegun, DeliversOwn,
         DeliveredFirst, FilledIsDeleted, NoLostFuture, Begun, InFlight,
         ReadError
<1>6. ASSUME NEW c \in Conns, UnregisterConnection(c) PROVE FutureInv'
  BY <1>6
     DEF Settling, FutureInv, EntriesMatch, TracesBegun, DeliversOwn,
         DeliveredFirst, FilledIsDeleted, NoLostFuture, Begun, InFlight,
         UnregisterConnection
<1>7. ASSUME NEW c \in Conns, AgentLost(c) PROVE FutureInv'
  BY <1>7, FutureFrame DEF AgentLost, FutureInv, TracesBegun
<1>8. ASSUME NEW a \in Closers, CloseAgent(a) PROVE FutureInv'
  BY <1>8
     DEF Settling, FutureInv, EntriesMatch, TracesBegun, DeliversOwn,
         DeliveredFirst, FilledIsDeleted, NoLostFuture, Begun, InFlight,
         CloseAgent
<1>9. ASSUME NEW a \in Closers, CloseSocket(a) PROVE FutureInv'
  <2>1. EntriesMatch'
    BY <1>9 DEF CloseSocket, Begun, FutureInv, EntriesMatch
  <2>2. TracesBegun'
    BY <1>9 DEF CloseSocket, Settling, Begun, FutureInv, TracesBegun
  <2>3. DeliversOwn'
    BY <1>9 DEF CloseSocket, Settling, FutureInv, DeliversOwn
  <2>4. DeliveredFirst'
    BY <1>9 DEF CloseSocket, InFlight, FutureInv, DeliveredFirst
  <2>5. FilledIsDeleted'
    BY <1>9 DEF CloseSocket, FutureInv, FilledIsDeleted
  <2>6. NoLostFuture'
    BY <1>9 DEF CloseSocket, InFlight, FutureInv, NoLostFuture
  <2>7. QED
    BY <2>1, <2>2, <2>3, <2>4, <2>5, <2>6 DEF FutureInv
<1>10. ASSUME NEW p \in Servers, SnapshotTasks(p) PROVE FutureInv'
  <2>1. EntriesMatch'
    BY <1>10 DEF SnapshotTasks, Begun, FutureInv, EntriesMatch
  <2>2. TracesBegun'
    BY <1>10 DEF SnapshotTasks, Settling, Begun, FutureInv, TracesBegun
  <2>3. DeliversOwn'
    BY <1>10
       DEF SnapshotTasks, NoAnswer, Error, ResolveReason, TypeOK, FutureInv,
           DeliversOwn
  <2>4. DeliveredFirst'
    BY <1>10 DEF SnapshotTasks, InFlight, FutureInv, DeliveredFirst
  <2>5. FilledIsDeleted'
    BY <1>10 DEF SnapshotTasks, FutureInv, FilledIsDeleted
  <2>6. NoLostFuture'
    BY <1>10 DEF SnapshotTasks, InFlight, FutureInv, NoLostFuture
  <2>7. QED
    BY <2>1, <2>2, <2>3, <2>4, <2>5, <2>6 DEF FutureInv
<1>11. ASSUME NEW p \in Servers, EndResolve(p) PROVE FutureInv'
  BY <1>11
     DEF TypeOK, Settling, FutureInv, EntriesMatch, TracesBegun, DeliversOwn,
         DeliveredFirst, FilledIsDeleted, NoLostFuture, Begun, InFlight,
         EndResolve
<1>12. ASSUME NEW p \in Servers, NEW t \in Tasks, NextTask(p, t) PROVE FutureInv'
  BY <1>12
     DEF TypeOK, FutureInv, EntriesMatch, TracesBegun, DeliversOwn,
         DeliveredFirst, FilledIsDeleted, NoLostFuture, Begun, InFlight,
         NextTask
<1>13. ASSUME NEW p \in Servers, LookupFuture(p) PROVE FutureInv'
  BY <1>13 DEF TypeOK, SettlesATask, Settling, FutureInv, EntriesMatch, TracesBegun,
     DeliversOwn, DeliveredFirst, FilledIsDeleted, NoLostFuture, Begun, InFlight,
     LookupFuture
<1>14. ASSUME NEW p \in Servers, Deliver(p) PROVE FutureInv'
  BY <1>14
     DEF TypeOK, SettlesATask, Settling, FutureInv, EntriesMatch, TracesBegun,
         DeliversOwn, DeliveredFirst, FilledIsDeleted, NoLostFuture, Begun,
         InFlight, Deliver
<1>15. ASSUME NEW p \in Servers, DeletePending(p) PROVE FutureInv'
  BY <1>15 DEF TypeOK, SettlesATask, Settling, FutureInv, EntriesMatch, TracesBegun,
     DeliversOwn, DeliveredFirst, FilledIsDeleted, NoLostFuture, Begun, InFlight,
     DeletePending
<1>16. ASSUME NEW p \in Servers, DeleteStdout(p) PROVE FutureInv'
  BY <1>16
     DEF Settling, FutureInv, EntriesMatch, TracesBegun, DeliversOwn,
         DeliveredFirst, FilledIsDeleted, NoLostFuture, Begun, InFlight,
         DeleteStdout
<1>17. ASSUME NEW p \in Servers, DeleteHost(p) PROVE FutureInv'
  BY <1>17
     DEF TypeOK, Settling, FutureInv, EntriesMatch, TracesBegun, DeliversOwn,
         DeliveredFirst, FilledIsDeleted, NoLostFuture, Begun, InFlight,
         DeleteHost
<1>18. ASSUME NEW r \in Reqs, CheckAgentOnline(r) PROVE FutureInv'
  <2>1. EntriesMatch'
    <3>1. UNCHANGED pendingTasks
      BY <1>18 DEF CheckAgentOnline
    <3>2. \A s \in Reqs : Begun(s) => Begun(s)'
      BY <1>18 DEF CheckAgentOnline, Begun, TypeOK
    <3>3. QED
      BY <3>1, <3>2 DEF FutureInv, EntriesMatch, TypeOK
  <2>2. TracesBegun'
    <3>1. /\ taskHostnames' = taskHostnames /\ channel' = channel
          /\ toAgent' = toAgent /\ fromAgent' = fromAgent
          /\ todo' = todo /\ pc' = pc /\ cur' = cur
      BY <1>18 DEF CheckAgentOnline
    <3>2. \A s \in Reqs : Begun(s) => Begun(s)'
      BY <1>18 DEF CheckAgentOnline, Begun, TypeOK
    <3>3. QED
      BY <3>1, <3>2, TracesKept DEF FutureInv
  <2>3. DeliversOwn'
    BY <1>18 DEF CheckAgentOnline, FutureInv, DeliversOwn
  <2>4. DeliveredFirst'
    BY <1>18 DEF CheckAgentOnline, TypeOK, InFlight, FutureInv, DeliveredFirst
  <2>5. FilledIsDeleted'
    BY <1>18
       DEF CheckAgentOnline, TypeOK, Begun, FutureInv, EntriesMatch,
           FilledIsDeleted
  <2>6. NoLostFuture'
    BY <1>18 DEF CheckAgentOnline, TypeOK, InFlight, FutureInv, NoLostFuture
  <2>7. QED
    BY <2>1, <2>2, <2>3, <2>4, <2>5, <2>6 DEF FutureInv
<1>19. ASSUME NEW r \in Reqs, RegisterFuture(r) PROVE FutureInv'
  BY <1>19
     DEF TypeOK, Settling, FutureInv, EntriesMatch, TracesBegun, DeliversOwn,
         DeliveredFirst, FilledIsDeleted, NoLostFuture, Begun, InFlight,
         RegisterFuture
<1>20. ASSUME NEW r \in Reqs, GetConnection(r) PROVE FutureInv'
  <2>1. EntriesMatch'
    <3>1. UNCHANGED pendingTasks
      BY <1>20 DEF GetConnection
    <3>2. \A s \in Reqs : Begun(s) => Begun(s)'
      BY <1>20 DEF GetConnection, Begun, TypeOK
    <3>3. QED
      BY <3>1, <3>2 DEF FutureInv, EntriesMatch, TypeOK
  <2>2. TracesBegun'
    <3>1. /\ taskHostnames' = taskHostnames /\ channel' = channel
          /\ toAgent' = toAgent /\ fromAgent' = fromAgent
          /\ todo' = todo /\ pc' = pc /\ cur' = cur
      BY <1>20 DEF GetConnection
    <3>2. \A s \in Reqs : Begun(s) => Begun(s)'
      BY <1>20 DEF GetConnection, Begun, TypeOK
    <3>3. QED
      BY <3>1, <3>2, TracesKept DEF FutureInv
  <2>3. DeliversOwn'
    BY <1>20 DEF GetConnection, FutureInv, DeliversOwn
  <2>4. DeliveredFirst'
    BY <1>20 DEF GetConnection, TypeOK, InFlight, FutureInv, DeliveredFirst
  <2>5. FilledIsDeleted'
    BY <1>20 DEF GetConnection, TypeOK, FutureInv, FilledIsDeleted
  <2>6. NoLostFuture'
    BY <1>20 DEF GetConnection, TypeOK, InFlight, FutureInv, NoLostFuture
  <2>7. QED
    BY <2>1, <2>2, <2>3, <2>4, <2>5, <2>6 DEF FutureInv
<1>21. ASSUME NEW r \in Reqs, SendToAgent(r) PROVE FutureInv'
  <2>1. EntriesMatch'
    <3>1. UNCHANGED pendingTasks
      BY <1>21 DEF SendToAgent
    <3>2. \A s \in Reqs : Begun(s) => Begun(s)'
      BY <1>21 DEF SendToAgent, Begun, TypeOK
    <3>3. QED
      BY <3>1, <3>2 DEF FutureInv, EntriesMatch, TypeOK
  <2>2. TracesBegun'
    <3>1. UNCHANGED <<channel, fromAgent, todo, pc, cur>>
      BY <1>21 DEF SendToAgent
    <3>2. \A s \in Reqs : Begun(s) => Begun(s)'
      BY <1>21 DEF SendToAgent, Begun, TypeOK
    <3>3. Begun(r)'
      BY <1>21 DEF SendToAgent, Begun, TypeOK
    <3>4. \A s \in Reqs : taskHostnames'[TaskOf[s]] # None => Begun(s)'
      BY <1>21, <3>2, <3>3 DEF SendToAgent, FutureInv, TracesBegun
    <3>5. \A c \in Conns : toAgent'[c] \subseteq toAgent[c] \cup {r}
      <4>1. \/ toAgent' = toAgent
            \/ toAgent' = [toAgent EXCEPT ![connRef[r]] = @ \cup {r}]
        BY <1>21 DEF SendToAgent, TypeOK
      <4>2. toAgent \in [Conns -> SUBSET Reqs]
        BY DEF TypeOK
      <4>3. CASE toAgent' = toAgent
        BY <4>3
      <4>4. CASE toAgent' = [toAgent EXCEPT ![connRef[r]] = @ \cup {r}]
        BY <4>2, <4>4
      <4>5. QED
        BY <4>1, <4>3, <4>4
    <3>6. \A c \in Conns : \A s \in toAgent'[c] : Begun(s)'
      BY <3>2, <3>3, <3>5 DEF FutureInv, TracesBegun, TypeOK
    <3>7. \A c \in Conns : \A i \in 1..Len(fromAgent[c]) : Begun(fromAgent[c][i].req)'
      BY <3>1, <3>2, MessagesKept DEF FutureInv
    <3>8. QED
      BY <3>1, <3>2, <3>4, <3>6, <3>7 DEF FutureInv, TracesBegun
  <2>3. DeliversOwn'
    BY <1>21 DEF SendToAgent, FutureInv, DeliversOwn
  <2>4. DeliveredFirst'
    BY <1>21 DEF SendToAgent, TypeOK, InFlight, FutureInv, DeliveredFirst
  <2>5. FilledIsDeleted'
    BY <1>21 DEF SendToAgent, TypeOK, FutureInv, FilledIsDeleted
  <2>6. NoLostFuture'
    BY <1>21 DEF SendToAgent, TypeOK, InFlight, FutureInv, NoLostFuture
  <2>7. QED
    BY <2>1, <2>2, <2>3, <2>4, <2>5, <2>6 DEF FutureInv
<1>22. ASSUME NEW r \in Reqs, ReceiveResult(r) PROVE FutureInv'
  BY <1>22
     DEF TypeOK, SettlesATask, FutureInv, EntriesMatch, TracesBegun,
         DeliversOwn, DeliveredFirst, FilledIsDeleted, NoLostFuture, Begun,
         InFlight, ReceiveResult
<1>23. ASSUME NEW r \in Reqs, Timeout(r) PROVE FutureInv'
  BY <1>23
     DEF FutureInv, EntriesMatch, TracesBegun, DeliversOwn, DeliveredFirst,
         FilledIsDeleted, NoLostFuture, Begun, InFlight, Timeout
<1>24. ASSUME NEW r \in Reqs, UnregisterPending(r) PROVE FutureInv'
  BY <1>24
     DEF TypeOK, FutureInv, EntriesMatch, TracesBegun, DeliversOwn,
         DeliveredFirst, FilledIsDeleted, NoLostFuture, Begun, InFlight,
         UnregisterPending
<1>25. ASSUME NEW r \in Reqs, UnregisterHost(r) PROVE FutureInv'
  BY <1>25
     DEF FutureInv, EntriesMatch, TracesBegun, DeliversOwn, DeliveredFirst,
         FilledIsDeleted, NoLostFuture, Begun, InFlight, UnregisterHost
<1>26. ASSUME NEW r \in Reqs, UnregisterStdout(r) PROVE FutureInv'
  BY <1>26
     DEF FutureInv, EntriesMatch, TracesBegun, DeliversOwn, DeliveredFirst,
         FilledIsDeleted, NoLostFuture, Begun, InFlight, UnregisterStdout
<1>27. ASSUME NEW c \in Conns, NEW r \in Reqs, AgentStdout(c, r) PROVE FutureInv'
  BY <1>27
     DEF FutureInv, EntriesMatch, TracesBegun, DeliversOwn, DeliveredFirst,
         FilledIsDeleted, NoLostFuture, Begun, InFlight, AgentStdout
<1>28. ASSUME NEW c \in Conns, NEW r \in Reqs, AgentResult(c, r) PROVE FutureInv'
  <2>1. \A d \in Conns : \A i \in 1..Len(fromAgent'[d]) :
          Begun(fromAgent'[d][i].req)
    <3>1. \/ fromAgent' = fromAgent
          \/ \E m \in Messages :
                m.req = r /\ fromAgent' = [fromAgent EXCEPT ![c] = Append(@, m)]
      BY <1>28 DEF AgentResult, TypeOK, Messages
    <3>2. Begun(r)
      BY <1>28 DEF AgentResult, FutureInv, TracesBegun
    <3>3. CASE fromAgent' = fromAgent
      BY <3>3 DEF FutureInv, TracesBegun
    <3>4. ASSUME NEW m \in Messages, m.req = r,
                 fromAgent' = [fromAgent EXCEPT ![c] = Append(@, m)]
          PROVE  \A d \in Conns : \A i \in 1..Len(fromAgent'[d]) :
                   Begun(fromAgent'[d][i].req)
      BY <3>2, <3>4 DEF TypeOK, FutureInv, TracesBegun
    <3>5. QED
      BY <3>1, <3>3, <3>4
  <2>2. \A d \in Conns : toAgent'[d] \subseteq toAgent[d]
    BY <1>28 DEF AgentResult, TypeOK
  <2>3. QED
    BY <1>28, <2>1, <2>2, FutureFrame DEF AgentResult
<1>29. CASE UNCHANGED vars
  BY <1>29, FutureFrame DEF FutureInv, TracesBegun
<1>30. QED
  BY <1>1, <1>2, <1>3, <1>4, <1>5, <1>6, <1>7, <1>8, <1>9, <1>10, <1>11,
     <1>12, <1>13, <1>14, <1>15, <1>16, <1>17, <1>18, <1>19, <1>20,
     <1>21, <1>22, <1>23, <1>24, <1>25, <1>26, <1>27, <1>28, <1>29,
     NextActions

\* With unique task ids (as newTaskID makes them), whatever the interleaving
\* of results, disconnections, revocations and timeouts, a waiting request can
\* still be reached by whoever settles its task.
THEOREM NoFutureIsLost == UniqueIds => (Spec => []NoLostFuture)
<1> SUFFICES ASSUME UniqueIds PROVE Spec => []NoLostFuture
  OBVIOUS
<1>1. TypeInv /\ FutureInv /\ [Next]_vars => FutureInv'
  BY FutureInvStep
<1>2. FutureInv => NoLostFuture
  BY DEF FutureInv
<1>3. QED
  BY <1>1, <1>2, TypeInvInit, TypeInvStep, FutureInvInit, PTL DEF Spec

\* And pendingTasks keeps no channel after its request was answered, but for
\* the moment before the goroutine that settled the task deletes the entry.
THEOREM NoFutureIsLeaked == UniqueIds => (Spec => []NoLeakedFuture)
<1> SUFFICES ASSUME UniqueIds PROVE Spec => []NoLeakedFuture
  OBVIOUS
<1>1. TypeInv /\ FutureInv /\ [Next]_vars => FutureInv'
  BY FutureInvStep
<1>2. FutureInv => NoLeakedFuture
  BY DEF FutureInv, FilledIsDeleted, NoLeakedFuture, Answered
<1>3. QED
  BY <1>1, <1>2, TypeInvInit, TypeInvStep, FutureInvInit, PTL DEF Spec
=============================================================================
