-------------------------- MODULE DisconnectProofs ---------------------------
(***************************************************************************)
(* What the loss of a connection does to the requests of its host, to the  *)
(* registry and to others that wait for connectionsMu, for every set of    *)
(* hosts, connections, requests and closers; the requests' task ids are    *)
(* without duplicates where a theorem says so.                             *)
(***************************************************************************)
EXTENDS TaskRelayProofs

-----------------------------------------------------------------------------
(* No request is stranded.                                                 *)

\* A resolver stays in its loop while it has tasks left.

LEMMA LoopStep == TypeInv /\ LoopHeld /\ [Next]_vars => LoopHeld'
<1> SUFFICES ASSUME TypeInv, LoopHeld, [Next]_vars PROVE LoopHeld'
  OBVIOUS
<1> USE ConstantsAssumption
    DEF TypeInv, vars, registry, futures, locals, requests, agents, Goto,
        RequestGoto, Servers
<1>1. ASSUME NEW c \in Conns, Upgrade(c) PROVE LoopHeld'
  BY <1>1 DEF Upgrade, LoopHeld, Resolving, Settling
<1>2. ASSUME NEW c \in Conns, RegisterConnection(c) PROVE LoopHeld'
  BY <1>2 DEF RegisterConnection, LoopHeld, Resolving, Settling
<1>3. ASSUME NEW c \in Conns, HandleStdout(c) PROVE LoopHeld'
  BY <1>3 DEF HandleStdout, LoopHeld, Resolving
<1>4. ASSUME NEW c \in Conns, HandleResult(c) PROVE LoopHeld'
  BY <1>4 DEF HandleResult, Readable, LoopHeld, Resolving, Settling
<1>5. ASSUME NEW c \in Conns, ReadError(c) PROVE LoopHeld'
  BY <1>5 DEF ReadError, LoopHeld, Resolving, Settling
<1>6. ASSUME NEW c \in Conns, UnregisterConnection(c) PROVE LoopHeld'
  BY <1>6 DEF UnregisterConnection, LoopHeld, Resolving, Settling
<1>7. ASSUME NEW c \in Conns, AgentLost(c) PROVE LoopHeld'
  BY <1>7 DEF AgentLost, LoopHeld, Resolving
<1>8. ASSUME NEW a \in Closers, CloseAgent(a) PROVE LoopHeld'
  BY <1>8 DEF CloseAgent, LoopHeld, Resolving, Settling
<1>9. ASSUME NEW a \in Closers, CloseSocket(a) PROVE LoopHeld'
  BY <1>9 DEF CloseSocket, LoopHeld, Resolving, Settling
<1>10. ASSUME NEW p \in Servers, SnapshotTasks(p) PROVE LoopHeld'
  BY <1>10 DEF SnapshotTasks, Error, ResolveReason, TypeOK, LoopHeld, Resolving
<1>11. ASSUME NEW p \in Servers, EndResolve(p) PROVE LoopHeld'
  BY <1>11 DEF EndResolve, TypeOK, LoopHeld, Resolving
<1>12. ASSUME NEW p \in Servers, NEW t \in Tasks, NextTask(p, t) PROVE LoopHeld'
  BY <1>12 DEF NextTask, LoopHeld, Resolving, Settling
<1>13. ASSUME NEW p \in Servers, LookupFuture(p) PROVE LoopHeld'
  BY <1>13 DEF LookupFuture, LoopHeld, Resolving, Settling
<1>14. ASSUME NEW p \in Servers, Deliver(p) PROVE LoopHeld'
  BY <1>14 DEF Deliver, LoopHeld, Resolving, Settling
<1>15. ASSUME NEW p \in Servers, DeletePending(p) PROVE LoopHeld'
  BY <1>15 DEF DeletePending, LoopHeld, Resolving, Settling
<1>16. ASSUME NEW p \in Servers, DeleteStdout(p) PROVE LoopHeld'
  BY <1>16 DEF DeleteStdout, LoopHeld, Resolving, Settling
<1>17. ASSUME NEW p \in Servers, DeleteHost(p) PROVE LoopHeld'
  BY <1>17 DEF DeleteHost, LoopHeld, Resolving
<1>18. ASSUME NEW r \in Reqs, CheckAgentOnline(r) PROVE LoopHeld'
  BY <1>18 DEF CheckAgentOnline, LoopHeld, Resolving
<1>19. ASSUME NEW r \in Reqs, RegisterFuture(r) PROVE LoopHeld'
  BY <1>19 DEF RegisterFuture, LoopHeld, Resolving
<1>20. ASSUME NEW r \in Reqs, GetConnection(r) PROVE LoopHeld'
  BY <1>20 DEF GetConnection, LoopHeld, Resolving
<1>21. ASSUME NEW r \in Reqs, SendToAgent(r) PROVE LoopHeld'
  BY <1>21 DEF SendToAgent, LoopHeld, Resolving
<1>22. ASSUME NEW r \in Reqs, ReceiveResult(r) PROVE LoopHeld'
  BY <1>22 DEF ReceiveResult, LoopHeld, Resolving
<1>23. ASSUME NEW r \in Reqs, Timeout(r) PROVE LoopHeld'
  BY <1>23 DEF Timeout, LoopHeld, Resolving
<1>24. ASSUME NEW r \in Reqs, UnregisterPending(r) PROVE LoopHeld'
  BY <1>24 DEF UnregisterPending, LoopHeld, Resolving
<1>25. ASSUME NEW r \in Reqs, UnregisterHost(r) PROVE LoopHeld'
  BY <1>25 DEF UnregisterHost, LoopHeld, Resolving
<1>26. ASSUME NEW r \in Reqs, UnregisterStdout(r) PROVE LoopHeld'
  BY <1>26 DEF UnregisterStdout, LoopHeld, Resolving
<1>27. ASSUME NEW c \in Conns, NEW r \in Reqs, AgentStdout(c, r) PROVE LoopHeld'
  BY <1>27 DEF AgentStdout, LoopHeld, Resolving
<1>28. ASSUME NEW c \in Conns, NEW r \in Reqs, AgentResult(c, r) PROVE LoopHeld'
  BY <1>28 DEF AgentResult, LoopHeld, Resolving
<1>29. CASE UNCHANGED vars
  BY <1>29 DEF LoopHeld, Resolving
<1>30. QED
  BY <1>1, <1>2, <1>3, <1>4, <1>5, <1>6, <1>7, <1>8, <1>9, <1>10, <1>11, <1>12,
     <1>13, <1>14, <1>15, <1>16, <1>17, <1>18, <1>19, <1>20, <1>21, <1>22, <1>23,
     <1>24, <1>25, <1>26, <1>27, <1>28, <1>29, NextActions

\* UnregisterConnection and CloseAgent are not undone.
LEMMA CleanupStays ==
  ASSUME TypeInv, LoopHeld, [Next]_vars
  PROVE  /\ \A c \in Conns : Unregistered(c) => Unregistered(c)'
         /\ \A p \in Servers : pc[p] # "idle" => pc'[p] # "idle"
<1> DEFINE Stays ==
      /\ \A d \in Conns : Unregistered(d) => Unregistered(d)'
      /\ \A s \in Servers : pc[s] # "idle" => pc'[s] # "idle"
<1> USE ConstantsAssumption
    DEF TypeInv, vars, registry, futures, locals, requests, agents, Goto,
        RequestGoto, Servers
<1>1. ASSUME NEW c \in Conns, Upgrade(c) PROVE Stays
  BY <1>1 DEF Upgrade, Resolving, Settling, Unregistered
<1>2. ASSUME NEW c \in Conns, RegisterConnection(c) PROVE Stays
  BY <1>2 DEF RegisterConnection, Resolving, Settling, Unregistered
<1>3. ASSUME NEW c \in Conns, HandleStdout(c) PROVE Stays
  BY <1>3 DEF HandleStdout, Resolving, Unregistered
<1>4. ASSUME NEW c \in Conns, HandleResult(c) PROVE Stays
  BY <1>4 DEF HandleResult, Readable, Resolving, Settling, Unregistered
<1>5. ASSUME NEW c \in Conns, ReadError(c) PROVE Stays
  BY <1>5 DEF ReadError, Resolving, Settling, Unregistered
<1>6. ASSUME NEW c \in Conns, UnregisterConnection(c) PROVE Stays
  BY <1>6 DEF UnregisterConnection, Resolving, Unregistered
<1>7. ASSUME NEW c \in Conns, AgentLost(c) PROVE Stays
  BY <1>7 DEF AgentLost, Resolving, Unregistered
<1>8. ASSUME NEW a \in Closers, CloseAgent(a) PROVE Stays
  BY <1>8 DEF CloseAgent, Resolving, Unregistered
<1>9. ASSUME NEW a \in Closers, CloseSocket(a) PROVE Stays
  BY <1>9 DEF CloseSocket, Resolving, Unregistered
<1>10. ASSUME NEW p \in Servers, SnapshotTasks(p) PROVE Stays
  BY <1>10 DEF SnapshotTasks, Resolving, Unregistered
<1>11. ASSUME NEW p \in Servers, EndResolve(p) PROVE Stays
  BY <1>11 DEF EndResolve, Resolving, Unregistered
<1>12. ASSUME NEW p \in Servers, NEW t \in Tasks, NextTask(p, t) PROVE Stays
  BY <1>12 DEF NextTask, LoopHeld, Resolving, Settling, Unregistered
<1>13. ASSUME NEW p \in Servers, LookupFuture(p) PROVE Stays
  BY <1>13 DEF LookupFuture, Resolving, Settling, Unregistered
<1>14. ASSUME NEW p \in Servers, Deliver(p) PROVE Stays
  BY <1>14 DEF Deliver, Resolving, Settling, Unregistered
<1>15. ASSUME NEW p \in Servers, DeletePending(p) PROVE Stays
  BY <1>15 DEF DeletePending, Resolving, Settling, Unregistered
<1>16. ASSUME NEW p \in Servers, DeleteStdout(p) PROVE Stays
  BY <1>16 DEF DeleteStdout, Resolving, Settling, Unregistered
<1>17. ASSUME NEW p \in Servers, DeleteHost(p) PROVE Stays
  BY <1>17 DEF DeleteHost, Resolving, Unregistered
<1>18. ASSUME NEW r \in Reqs, CheckAgentOnline(r) PROVE Stays
  BY <1>18 DEF CheckAgentOnline, Resolving, Unregistered
<1>19. ASSUME NEW r \in Reqs, RegisterFuture(r) PROVE Stays
  BY <1>19 DEF RegisterFuture, Resolving, Unregistered
<1>20. ASSUME NEW r \in Reqs, GetConnection(r) PROVE Stays
  BY <1>20 DEF GetConnection, Resolving, Unregistered
<1>21. ASSUME NEW r \in Reqs, SendToAgent(r) PROVE Stays
  BY <1>21 DEF SendToAgent, Resolving, Unregistered
<1>22. ASSUME NEW r \in Reqs, ReceiveResult(r) PROVE Stays
  BY <1>22 DEF ReceiveResult, Resolving, Unregistered
<1>23. ASSUME NEW r \in Reqs, Timeout(r) PROVE Stays
  BY <1>23 DEF Timeout, Resolving, Unregistered
<1>24. ASSUME NEW r \in Reqs, UnregisterPending(r) PROVE Stays
  BY <1>24 DEF UnregisterPending, Resolving, Unregistered
<1>25. ASSUME NEW r \in Reqs, UnregisterHost(r) PROVE Stays
  BY <1>25 DEF UnregisterHost, Resolving, Unregistered
<1>26. ASSUME NEW r \in Reqs, UnregisterStdout(r) PROVE Stays
  BY <1>26 DEF UnregisterStdout, Resolving, Unregistered
<1>27. ASSUME NEW c \in Conns, NEW r \in Reqs, AgentStdout(c, r) PROVE Stays
  BY <1>27 DEF AgentStdout, Resolving, Unregistered
<1>28. ASSUME NEW c \in Conns, NEW r \in Reqs, AgentResult(c, r) PROVE Stays
  BY <1>28 DEF AgentResult, Resolving, Unregistered
<1>29. CASE UNCHANGED vars
  BY <1>29 DEF Resolving, Unregistered
<1>30. QED
  BY <1>1, <1>2, <1>3, <1>4, <1>5, <1>6, <1>7, <1>8, <1>9, <1>10, <1>11, <1>12,
     <1>13, <1>14, <1>15, <1>16, <1>17, <1>18, <1>19, <1>20, <1>21, <1>22, <1>23,
     <1>24, <1>25, <1>26, <1>27, <1>28, <1>29, NextActions

\* A step of a server that neither starts a cleanup nor drops a task keeps
\* requests reached.
LEMMA ReachedKept ==
  ASSUME SentIsReached, reqPc' = reqPc, channel' = channel,
         \A r \in Reqs : connRef'[r] = connRef[r],
         \A c \in Conns : Unregistered(c)' => Unregistered(c),
         \A c \in Conns : pc[c] = "snapshot" => pc'[c] = "snapshot",
         \A q \in Servers, r \in Reqs : WillSettle(q, r) => WillSettle(q, r)'
  PROVE  SentIsReached'
BY DEF SentIsReached, Reached

\* The future of a request precedes its connection, the snapshot its cleanup:
\* <1>10 and <1>20 are where the two orders meet.
LEMMA SentIsReachedStep ==
  ASSUME UniqueIds, TypeInv, NoZombieConnection, FutureInv, LoopHeld, SentIsReached,
         [Next]_vars
  PROVE  SentIsReached'
<1> USE ConstantsAssumption
    DEF TypeInv, vars, registry, futures, locals, requests, agents, Goto,
        RequestGoto, Servers
<1>1. ASSUME NEW c \in Conns, Upgrade(c) PROVE SentIsReached'
  BY <1>1
     DEF Upgrade, SentIsReached, Reached, WillSettle, Unregistered, Resolving,
         Settling
<1>2. ASSUME NEW c \in Conns, RegisterConnection(c) PROVE SentIsReached'
  BY <1>2
     DEF RegisterConnection, SentIsReached, Reached, WillSettle, Unregistered,
         Resolving, Settling
<1>3. ASSUME NEW c \in Conns, HandleStdout(c) PROVE SentIsReached'
  BY <1>3
     DEF HandleStdout, SentIsReached, Reached, WillSettle, Unregistered, Resolving
<1>4. ASSUME NEW c \in Conns, HandleResult(c) PROVE SentIsReached'
  <2>1. /\ reqPc' = reqPc /\ channel' = channel
        /\ \A r \in Reqs : connRef'[r] = connRef[r]
    BY <1>4 DEF HandleResult, TypeOK
  <2>2. \A d \in Conns : Unregistered(d)' => Unregistered(d)
    BY <1>4 DEF HandleResult, TypeOK, Unregistered, Resolving
  <2>3. \A d \in Conns : pc[d] = "snapshot" => pc'[d] = "snapshot"
    BY <1>4 DEF HandleResult, Readable
  <2>4. \A q \in Servers, r \in Reqs : WillSettle(q, r) => WillSettle(q, r)'
    BY <1>4 DEF HandleResult, LoopHeld, WillSettle, Resolving, Settling, Readable
  <2>5. QED
    BY <2>1, <2>2, <2>3, <2>4, ReachedKept
<1>5. ASSUME NEW c \in Conns, ReadError(c) PROVE SentIsReached'
  BY <1>5
     DEF ReadError, SentIsReached, Reached, WillSettle, Unregistered, Resolving,
         Settling
<1>6. ASSUME NEW c \in Conns, UnregisterConnection(c) PROVE SentIsReached'
  BY <1>6
     DEF UnregisterConnection, SentIsReached, Reached, WillSettle, Unregistered,
         Resolving
<1>7. ASSUME NEW c \in Conns, AgentLost(c) PROVE SentIsReached'
  BY <1>7 DEF AgentLost, SentIsReached, Reached, WillSettle, Unregistered, Resolving
<1>8. ASSUME NEW a \in Closers, CloseAgent(a) PROVE SentIsReached'
  <2>1. /\ reqPc' = reqPc /\ channel' = channel
        /\ \A r \in Reqs : connRef'[r] = connRef[r]
    BY <1>8 DEF CloseAgent, TypeOK
  <2>2. \A d \in Conns : Unregistered(d)' => Unregistered(d)
    BY <1>8 DEF CloseAgent, Unregistered, Resolving
  <2>3. \A d \in Conns : pc[d] = "snapshot" => pc'[d] = "snapshot"
    BY <1>8 DEF CloseAgent, TypeOK
  <2>4. \A q \in Servers, r \in Reqs : WillSettle(q, r) => WillSettle(q, r)'
    BY <1>8 DEF CloseAgent, WillSettle, Resolving
  <2>5. QED
    BY <2>1, <2>2, <2>3, <2>4, ReachedKept
<1>9. ASSUME NEW a \in Closers, CloseSocket(a) PROVE SentIsReached'
  BY <1>9
     DEF CloseSocket, SentIsReached, Reached, WillSettle, Unregistered, Resolving
<1>10. ASSUME NEW p \in Servers, SnapshotTasks(p) PROVE SentIsReached'
  <2> SUFFICES ASSUME NEW r \in Reqs, reqPc[r] \in {"write", "wait"}, channel[r] = NoAnswer
               PROVE  Reached(r)'
    BY <1>10 DEF SnapshotTasks, SentIsReached
  <2>1. connRef[r] \in Conns /\ Same(connRef[r], r) /\ Reached(r) /\ connRef' = connRef
    BY <1>10 DEF SnapshotTasks, SentIsReached
  <2>2. CASE connRef[r] = p
    <3>1. TaskOf[r] \in Tasks /\ taskHostnames[TaskOf[r]] = HostOf[p]
      BY <2>1, <2>2 DEF Same, FutureInv, NoLostFuture, InFlight
    <3>2. WillSettle(p, r)'
      BY <1>10, <2>1, <2>2, <3>1
         DEF SnapshotTasks, TypeOK, WillSettle, Same, Resolving, Error,
             ResolveReason
    <3>3. QED
      BY <3>2 DEF Reached
  <2>3. CASE connRef[r] # p /\ (~Unregistered(connRef[r]) \/ pc[connRef[r]] = "snapshot")
    BY <1>10, <2>1, <2>3 DEF SnapshotTasks, Reached, Unregistered, Resolving
  <2>4. ASSUME NEW q \in Servers, WillSettle(q, r) PROVE Reached(r)'
    <3>1. q # p
      BY <1>10, <2>4 DEF SnapshotTasks, WillSettle, LoopHeld, Settling
    <3>2. WillSettle(q, r)'
      BY <1>10, <2>4, <3>1 DEF SnapshotTasks, WillSettle, Resolving
    <3>3. QED
      BY <3>2 DEF Reached
  <2>5. QED
    BY <2>1, <2>2, <2>3, <2>4 DEF Reached
<1>11. ASSUME NEW p \in Servers, EndResolve(p) PROVE SentIsReached'
  <2>1. /\ reqPc' = reqPc /\ channel' = channel
        /\ \A r \in Reqs : connRef'[r] = connRef[r]
    BY <1>11 DEF EndResolve, TypeOK
  <2>2. \A d \in Conns : Unregistered(d)' => Unregistered(d)
    BY <1>11 DEF EndResolve, Unregistered, Resolving
  <2>3. \A d \in Conns : pc[d] = "snapshot" => pc'[d] = "snapshot"
    BY <1>11 DEF EndResolve, TypeOK
  <2>4. \A q \in Servers, r \in Reqs : WillSettle(q, r) => WillSettle(q, r)'
    BY <1>11 DEF EndResolve, WillSettle, Resolving
  <2>5. QED
    BY <2>1, <2>2, <2>3, <2>4, ReachedKept
<1>12. ASSUME NEW p \in Servers, NEW t \in Tasks, NextTask(p, t) PROVE SentIsReached'
  BY <1>12
     DEF NextTask, TypeOK, SentIsReached, Reached, WillSettle, Unregistered,
         Resolving
<1>13. ASSUME NEW p \in Servers, LookupFuture(p) PROVE SentIsReached'
  BY <1>13
     DEF LookupFuture, FutureInv, NoLostFuture, InFlight, SentIsReached, Reached,
         WillSettle, Unregistered, Resolving, Settling
<1>14. ASSUME NEW p \in Servers, Deliver(p) PROVE SentIsReached'
  BY <1>14
     DEF Deliver, SettlesATask, UniqueIds, FutureInv, DeliversOwn, TypeOK,
         SentIsReached, Reached, WillSettle, Unregistered, Resolving, Settling
<1>15. ASSUME NEW p \in Servers, DeletePending(p) PROVE SentIsReached'
  <2>1. /\ reqPc' = reqPc /\ channel' = channel
        /\ \A r \in Reqs : connRef'[r] = connRef[r]
    BY <1>15 DEF DeletePending, TypeOK
  <2>2. \A d \in Conns : Unregistered(d)' => Unregistered(d)
    BY <1>15 DEF DeletePending, Unregistered, Resolving, Settling
  <2>3. \A d \in Conns : pc[d] = "snapshot" => pc'[d] = "snapshot"
    BY <1>15 DEF DeletePending, TypeOK
  <2>4. \A q \in Servers, r \in Reqs : WillSettle(q, r) => WillSettle(q, r)'
    BY <1>15 DEF DeletePending, WillSettle, Resolving
  <2>5. QED
    BY <2>1, <2>2, <2>3, <2>4, ReachedKept
<1>16. ASSUME NEW p \in Servers, DeleteStdout(p) PROVE SentIsReached'
  <2>1. /\ reqPc' = reqPc /\ channel' = channel
        /\ \A r \in Reqs : connRef'[r] = connRef[r]
    BY <1>16 DEF DeleteStdout, TypeOK
  <2>2. \A d \in Conns : Unregistered(d)' => Unregistered(d)
    BY <1>16 DEF DeleteStdout, Unregistered, Resolving, Settling
  <2>3. \A d \in Conns : pc[d] = "snapshot" => pc'[d] = "snapshot"
    BY <1>16 DEF DeleteStdout, TypeOK
  <2>4. \A q \in Servers, r \in Reqs : WillSettle(q, r) => WillSettle(q, r)'
    BY <1>16 DEF DeleteStdout, WillSettle, Resolving
  <2>5. QED
    BY <2>1, <2>2, <2>3, <2>4, ReachedKept
<1>17. ASSUME NEW p \in Servers, DeleteHost(p) PROVE SentIsReached'
  <2>1. /\ reqPc' = reqPc /\ channel' = channel
        /\ \A r \in Reqs : connRef'[r] = connRef[r]
    BY <1>17 DEF DeleteHost, TypeOK
  <2>2. \A d \in Conns : Unregistered(d)' => Unregistered(d)
    BY <1>17 DEF DeleteHost, TypeOK, Unregistered, Resolving, Settling
  <2>3. \A d \in Conns : pc[d] = "snapshot" => pc'[d] = "snapshot"
    BY <1>17 DEF DeleteHost, TypeOK
  <2>4. \A q \in Servers, r \in Reqs : WillSettle(q, r) => WillSettle(q, r)'
    BY <1>17 DEF DeleteHost, WillSettle, Resolving
  <2>5. QED
    BY <2>1, <2>2, <2>3, <2>4, ReachedKept
<1>18. ASSUME NEW r \in Reqs, CheckAgentOnline(r) PROVE SentIsReached'
  BY <1>18
     DEF CheckAgentOnline, TypeOK, SentIsReached, Reached, WillSettle, Unregistered,
         Resolving
<1>19. ASSUME NEW r \in Reqs, RegisterFuture(r) PROVE SentIsReached'
  BY <1>19
     DEF RegisterFuture, SentIsReached, Reached, WillSettle, Unregistered, Resolving
<1>20. ASSUME NEW r \in Reqs, GetConnection(r) PROVE SentIsReached'
  BY <1>20
     DEF GetConnection, NoZombieConnection, TypeOK, SentIsReached, Reached,
         WillSettle, Unregistered, Resolving, Same
<1>21. ASSUME NEW r \in Reqs, SendToAgent(r) PROVE SentIsReached'
  BY <1>21
     DEF SendToAgent, TypeOK, SentIsReached, Reached, WillSettle, Unregistered,
         Resolving
<1>22. ASSUME NEW r \in Reqs, ReceiveResult(r) PROVE SentIsReached'
  BY <1>22
     DEF ReceiveResult, TypeOK, SentIsReached, Reached, WillSettle, Unregistered,
         Resolving
<1>23. ASSUME NEW r \in Reqs, Timeout(r) PROVE SentIsReached'
  BY <1>23 DEF Timeout, SentIsReached, Reached, WillSettle, Unregistered, Resolving
<1>24. ASSUME NEW r \in Reqs, UnregisterPending(r) PROVE SentIsReached'
  BY <1>24
     DEF UnregisterPending, SentIsReached, Reached, WillSettle, Unregistered,
         Resolving
<1>25. ASSUME NEW r \in Reqs, UnregisterHost(r) PROVE SentIsReached'
  BY <1>25
     DEF UnregisterHost, SentIsReached, Reached, WillSettle, Unregistered, Resolving
<1>26. ASSUME NEW r \in Reqs, UnregisterStdout(r) PROVE SentIsReached'
  BY <1>26
     DEF UnregisterStdout, SentIsReached, Reached, WillSettle, Unregistered,
         Resolving
<1>27. ASSUME NEW c \in Conns, NEW r \in Reqs, AgentStdout(c, r) PROVE SentIsReached'
  BY <1>27
     DEF AgentStdout, SentIsReached, Reached, WillSettle, Unregistered, Resolving
<1>28. ASSUME NEW c \in Conns, NEW r \in Reqs, AgentResult(c, r) PROVE SentIsReached'
  BY <1>28
     DEF AgentResult, SentIsReached, Reached, WillSettle, Unregistered, Resolving
<1>29. CASE UNCHANGED vars
  BY <1>29 DEF SentIsReached, Reached, WillSettle, Unregistered, Resolving
<1>30. QED
  BY <1>1, <1>2, <1>3, <1>4, <1>5, <1>6, <1>7, <1>8, <1>9, <1>10, <1>11, <1>12,
     <1>13, <1>14, <1>15, <1>16, <1>17, <1>18, <1>19, <1>20, <1>21, <1>22, <1>23,
     <1>24, <1>25, <1>26, <1>27, <1>28, <1>29, NextActions

\* With unique task ids, a request that waits is never left behind by the loss
\* of the connection it was sent on: GetConnection returns one whose cleanup is
\* still to come, and that cleanup, or another resolver of the host, reaches it,
\* whatever the order of its steps with RegisterFuture, SendToAgent and results.
THEOREM NobodyIsStranded == UniqueIds => (Spec => []NoStrandedRequest)
<1> SUFFICES ASSUME UniqueIds PROVE Spec => []NoStrandedRequest
  OBVIOUS
<1>1. Init => NoZombieConnection /\ StrandedInv
  BY ConstantsAssumption
     DEF Init, NoZombieConnection, StrandedInv, LoopHeld, SentIsReached
<1>2. TypeInv /\ NoZombieConnection /\ FutureInv /\ StrandedInv /\ [Next]_vars
        => StrandedInv'
  BY LoopStep, SentIsReachedStep DEF StrandedInv
<1>3. StrandedInv => NoStrandedRequest
  BY DEF StrandedInv, SentIsReached, NoStrandedRequest
<1>4. TypeInv /\ FutureInv /\ [Next]_vars => FutureInv'
  BY FutureInvStep
<1>5. QED
  BY <1>1, <1>2, <1>3, <1>4, TypeInvInit, TypeInvStep, FutureInvInit, NoZombieStep,
     PTL DEF Spec

-----------------------------------------------------------------------------
(* Errors keep to their host.                                              *)

\* Snapshots select tasks by host, and a task id has one host.
LEMMA ResolvesOwnHostStep ==
  ASSUME UniqueIds, TypeInv, LoopHeld, ResolvesOwnHost, [Next]_vars
  PROVE  ResolvesOwnHost'
<1> USE ConstantsAssumption
    DEF TypeInv, vars, registry, futures, locals, requests, agents, Goto,
        RequestGoto, Servers
<1>1. ASSUME NEW c \in Conns, Upgrade(c) PROVE ResolvesOwnHost'
  BY <1>1 DEF Upgrade, ResolvesOwnHost, Unregistered, Resolving, Settling
<1>2. ASSUME NEW c \in Conns, RegisterConnection(c) PROVE ResolvesOwnHost'
  BY <1>2 DEF RegisterConnection, ResolvesOwnHost, Unregistered, Resolving, Settling
<1>3. ASSUME NEW c \in Conns, HandleStdout(c) PROVE ResolvesOwnHost'
  BY <1>3 DEF HandleStdout, ResolvesOwnHost, Unregistered, Resolving
<1>4. ASSUME NEW c \in Conns, HandleResult(c) PROVE ResolvesOwnHost'
  BY <1>4 DEF HandleResult, TypeOK, ResolvesOwnHost, Unregistered, Resolving
<1>5. ASSUME NEW c \in Conns, ReadError(c) PROVE ResolvesOwnHost'
  BY <1>5 DEF ReadError, ResolvesOwnHost, Unregistered, Resolving, Settling
<1>6. ASSUME NEW c \in Conns, UnregisterConnection(c) PROVE ResolvesOwnHost'
  BY <1>6
     DEF UnregisterConnection, ResolvesOwnHost, Unregistered, Resolving, Settling
<1>7. ASSUME NEW c \in Conns, AgentLost(c) PROVE ResolvesOwnHost'
  BY <1>7 DEF AgentLost, ResolvesOwnHost, Unregistered, Resolving
<1>8. ASSUME NEW a \in Closers, CloseAgent(a) PROVE ResolvesOwnHost'
  BY <1>8 DEF CloseAgent, ResolvesOwnHost, Unregistered, Resolving, Settling
<1>9. ASSUME NEW a \in Closers, CloseSocket(a) PROVE ResolvesOwnHost'
  BY <1>9 DEF CloseSocket, ResolvesOwnHost, Unregistered, Resolving, Settling
<1>10. ASSUME NEW p \in Servers, SnapshotTasks(p) PROVE ResolvesOwnHost'
  BY <1>10
     DEF SnapshotTasks, Error, ResolveReason, LoopHeld, ResolvesOwnHost,
         Unregistered, Same, Resolving, Settling
<1>11. ASSUME NEW p \in Servers, EndResolve(p) PROVE ResolvesOwnHost'
  BY <1>11
     DEF EndResolve, NoAnswer, Error, ResolvesOwnHost, Unregistered, Resolving,
         Settling
<1>12. ASSUME NEW p \in Servers, NEW t \in Tasks, NextTask(p, t) PROVE ResolvesOwnHost'
  BY <1>12 DEF NextTask, TypeOK, ResolvesOwnHost, Unregistered, Resolving, Settling
<1>13. ASSUME NEW p \in Servers, LookupFuture(p) PROVE ResolvesOwnHost'
  BY <1>13 DEF LookupFuture, ResolvesOwnHost, Unregistered, Resolving, Settling
<1>14. ASSUME NEW p \in Servers, Deliver(p) PROVE ResolvesOwnHost'
  BY <1>14 DEF Deliver, ResolvesOwnHost, Unregistered, Resolving, Settling
<1>15. ASSUME NEW p \in Servers, DeletePending(p) PROVE ResolvesOwnHost'
  BY <1>15 DEF DeletePending, ResolvesOwnHost, Unregistered, Resolving, Settling
<1>16. ASSUME NEW p \in Servers, DeleteStdout(p) PROVE ResolvesOwnHost'
  BY <1>16 DEF DeleteStdout, ResolvesOwnHost, Unregistered, Resolving, Settling
<1>17. ASSUME NEW p \in Servers, DeleteHost(p) PROVE ResolvesOwnHost'
  BY <1>17
     DEF DeleteHost, NoAnswer, Error, TypeOK, LoopHeld, ResolvesOwnHost,
         Unregistered, Resolving
<1>18. ASSUME NEW r \in Reqs, CheckAgentOnline(r) PROVE ResolvesOwnHost'
  BY <1>18 DEF CheckAgentOnline, ResolvesOwnHost, Unregistered, Resolving
<1>19. ASSUME NEW r \in Reqs, RegisterFuture(r) PROVE ResolvesOwnHost'
  BY <1>19 DEF RegisterFuture, UniqueIds, ResolvesOwnHost, Unregistered, Resolving
<1>20. ASSUME NEW r \in Reqs, GetConnection(r) PROVE ResolvesOwnHost'
  BY <1>20 DEF GetConnection, ResolvesOwnHost, Unregistered, Resolving
<1>21. ASSUME NEW r \in Reqs, SendToAgent(r) PROVE ResolvesOwnHost'
  BY <1>21 DEF SendToAgent, UniqueIds, ResolvesOwnHost, Unregistered, Resolving
<1>22. ASSUME NEW r \in Reqs, ReceiveResult(r) PROVE ResolvesOwnHost'
  BY <1>22 DEF ReceiveResult, ResolvesOwnHost, Unregistered, Resolving
<1>23. ASSUME NEW r \in Reqs, Timeout(r) PROVE ResolvesOwnHost'
  BY <1>23 DEF Timeout, ResolvesOwnHost, Unregistered, Resolving
<1>24. ASSUME NEW r \in Reqs, UnregisterPending(r) PROVE ResolvesOwnHost'
  BY <1>24 DEF UnregisterPending, ResolvesOwnHost, Unregistered, Resolving
<1>25. ASSUME NEW r \in Reqs, UnregisterHost(r) PROVE ResolvesOwnHost'
  BY <1>25 DEF UnregisterHost, ResolvesOwnHost, Unregistered, Resolving
<1>26. ASSUME NEW r \in Reqs, UnregisterStdout(r) PROVE ResolvesOwnHost'
  BY <1>26 DEF UnregisterStdout, ResolvesOwnHost, Unregistered, Resolving
<1>27. ASSUME NEW c \in Conns, NEW r \in Reqs, AgentStdout(c, r) PROVE ResolvesOwnHost'
  BY <1>27 DEF AgentStdout, ResolvesOwnHost, Unregistered, Resolving
<1>28. ASSUME NEW c \in Conns, NEW r \in Reqs, AgentResult(c, r) PROVE ResolvesOwnHost'
  BY <1>28 DEF AgentResult, ResolvesOwnHost, Unregistered, Resolving
<1>29. CASE UNCHANGED vars
  BY <1>29 DEF ResolvesOwnHost, Unregistered, Resolving
<1>30. QED
  BY <1>1, <1>2, <1>3, <1>4, <1>5, <1>6, <1>7, <1>8, <1>9, <1>10, <1>11, <1>12,
     <1>13, <1>14, <1>15, <1>16, <1>17, <1>18, <1>19, <1>20, <1>21, <1>22, <1>23,
     <1>24, <1>25, <1>26, <1>27, <1>28, <1>29, NextActions

\* A cause remains one.
LEMMA CauseStays ==
  ASSUME TypeInv, LoopHeld, [Next]_vars, NEW m, NEW r, HasCause(m, r)
  PROVE  HasCause(m, r)'
<1>1. /\ \A c \in Conns : Unregistered(c) => Unregistered(c)'
      /\ \A p \in Closers : pc[p] # "idle" => pc'[p] # "idle"
  BY CleanupStays DEF Servers
<1>2. QED
  BY <1>1 DEF HasCause, Same

\* Where a channel gets its message, and a reply its answer.
LEMMA ChannelStep ==
  ASSUME TypeInv, [Next]_vars, NEW r \in Reqs
  PROVE  \/ channel'[r] = channel[r]
         \/ channel'[r] = NoAnswer
         \/ \E p \in Servers :
              pc[p] = "deliver" /\ ch[p] = r /\ channel'[r] = out[p]
<1>1. \/ channel' = channel
      \/ \E p \in Servers : Deliver(p)
      \/ \E s \in Reqs : ReceiveResult(s)
  BY NextActions
     DEF Upgrade, RegisterConnection, HandleStdout, HandleResult, ReadError,
         UnregisterConnection, AgentLost, CloseAgent, CloseSocket, SnapshotTasks,
         EndResolve, NextTask, LookupFuture, DeletePending, DeleteStdout, DeleteHost,
         CheckAgentOnline, RegisterFuture, GetConnection, SendToAgent, Timeout,
         UnregisterPending, UnregisterHost, UnregisterStdout, AgentStdout, AgentResult,
         vars, futures
<1>2. ASSUME NEW p \in Servers, Deliver(p)
      PROVE  channel'[r] = channel[r] \/ (ch[p] = r /\ channel'[r] = out[p])
  BY <1>2 DEF TypeInv, TypeOK, Deliver
<1>3. ASSUME NEW s \in Reqs, ReceiveResult(s)
      PROVE  channel'[r] = channel[r] \/ channel'[r] = NoAnswer
  BY <1>3 DEF TypeInv, TypeOK, ReceiveResult
<1>4. ASSUME NEW p \in Servers, Deliver(p) PROVE pc[p] = "deliver"
  BY <1>4 DEF Deliver
<1>5. QED
  BY <1>1, <1>2, <1>3, <1>4

\* A reply is an error of the request's own making, or what its channel held.
LEMMA ReplyStep ==
  ASSUME TypeInv, [Next]_vars, NEW r \in Reqs
  PROVE  \/ reply'[r] = reply[r]
         \/ reply'[r] = channel[r]
         \/ reply'[r].kind \in {"agent_offline", "send_failed", "task_timeout"}
<1>1. \/ reply' = reply
      \/ \E s \in Reqs : ReceiveResult(s)
      \/ \E s \in Reqs, kind \in {"agent_offline", "send_failed", "task_timeout"} :
           Answer(s, kind)
  BY NextActions
     DEF Upgrade, RegisterConnection, HandleStdout, HandleResult, ReadError,
         UnregisterConnection, AgentLost, CloseAgent, CloseSocket, SnapshotTasks,
         EndResolve, NextTask, LookupFuture, Deliver, DeletePending, DeleteStdout,
         DeleteHost, CheckAgentOnline, RegisterFuture, GetConnection, SendToAgent,
         Timeout, UnregisterPending, UnregisterHost, UnregisterStdout, AgentStdout,
         AgentResult, vars, requests
<1>2. ASSUME NEW s \in Reqs, ReceiveResult(s)
      PROVE  reply'[r] = reply[r] \/ reply'[r] = channel[r]
  BY <1>2 DEF TypeInv, TypeOK, ReceiveResult
<1>3. ASSUME NEW s \in Reqs, NEW kind \in {"agent_offline", "send_failed", "task_timeout"},
             Answer(s, kind)
      PROVE  reply'[r] = reply[r] \/ reply'[r].kind = kind
  BY <1>3 DEF TypeInv, TypeOK, Answer, Error
<1>4. QED
  BY <1>1, <1>2, <1>3

\* The causes go from resolvers to channels, from channels to replies.
LEMMA ErrorStep ==
  ASSUME UniqueIds, TypeInv, FutureInv, LoopHeld, ErrorInv, [Next]_vars
  PROVE  ErrorInv'
<1>1. ResolvesOwnHost'
  BY ResolvesOwnHostStep DEF ErrorInv
<1>2. ASSUME NEW r \in Reqs, NEW p \in Servers, pc[p] = "deliver", ch[p] = r
      PROVE  HasCause(out[p], r)
  <2>1. cur[p] = TaskOf[r] /\ p \in Conns \cup Closers
    BY <1>2 DEF FutureInv, DeliversOwn, Servers
  <2>2. Resolving(p) => Same(p, r)
    BY <1>2, <2>1 DEF ErrorInv, ResolvesOwnHost, Settling
  <2>3. /\ out[p].kind = "agent_disconnected" => p \in Conns /\ Unregistered(p)
        /\ out[p].kind = "agent_revoked" => p \in Closers /\ pc[p] # "idle"
    BY DEF ErrorInv, ResolvesOwnHost
  <2>4. QED
    BY <2>2, <2>3 DEF HasCause, Resolving
<1>3. ASSUME NEW r \in Reqs PROVE HasCause(channel[r], r)'
  <2>1. HasCause(channel'[r], r)
    <3>1. HasCause(NoAnswer, r)
      BY DEF HasCause, NoAnswer, Error
    <3>2. HasCause(channel[r], r)
      BY DEF ErrorInv
    <3>3. QED
      BY <1>2, <3>1, <3>2, ChannelStep
  <2>2. PICK m : m = channel'[r]
    OBVIOUS
  <2>3. HasCause(m, r)'
    BY <2>1, <2>2, CauseStays DEF ErrorInv
  <2>4. QED
    BY <2>2, <2>3 DEF HasCause
<1>4. ASSUME NEW r \in Reqs PROVE HasCause(reply[r], r)'
  <2>1. HasCause(reply'[r], r)
    <3>1. CASE reply'[r].kind \in {"agent_offline", "send_failed", "task_timeout"}
      BY <3>1 DEF HasCause
    <3>2. HasCause(channel[r], r) /\ HasCause(reply[r], r)
      BY DEF ErrorInv
    <3>3. QED
      BY <3>1, <3>2, ReplyStep
  <2>2. PICK m : m = reply'[r]
    OBVIOUS
  <2>3. HasCause(m, r)'
    BY <2>1, <2>2, CauseStays DEF ErrorInv
  <2>4. QED
    BY <2>2, <2>3 DEF HasCause
<1>5. QED
  BY <1>1, <1>3, <1>4 DEF ErrorInv

\* With unique task ids, the two resolvers of a host, and those of other hosts,
\* tell agent_disconnected and agent_revoked only to requests of a host whose
\* connection was unregistered, or which an administrator closed.
THEOREM ErrorsHaveCause == UniqueIds => (Spec => []ErrorHasCause)
<1> SUFFICES ASSUME UniqueIds PROVE Spec => []ErrorHasCause
  OBVIOUS
<1>1. Init => LoopHeld /\ ErrorInv
  BY ConstantsAssumption
     DEF Init, LoopHeld, ErrorInv, ResolvesOwnHost, HasCause, NoAnswer, Error,
         Servers,
         Settling
<1>2. TypeInv /\ FutureInv /\ LoopHeld /\ ErrorInv /\ [Next]_vars => ErrorInv'
  BY ErrorStep
<1>3. ErrorInv => ErrorHasCause
  BY DEF ErrorInv, ErrorHasCause
<1>4. TypeInv /\ FutureInv /\ [Next]_vars => FutureInv'
  BY FutureInvStep
<1>5. QED
  BY <1>1, <1>2, <1>3, <1>4, LoopStep, TypeInvInit, TypeInvStep, FutureInvInit,
     PTL DEF Spec

-----------------------------------------------------------------------------
(* The cleanups, the lock they hold and the registry they leave.           *)

\* The steps of requests and agents, and what the read loop skips, move no
\* server.
LEMMA ServersAtRest ==
  ASSUME \/ \E c \in Conns : HandleStdout(c) \/ AgentLost(c)
         \/ \E r \in Reqs :
              \/ CheckAgentOnline(r) \/ RegisterFuture(r) \/ GetConnection(r)
              \/ SendToAgent(r) \/ ReceiveResult(r) \/ Timeout(r)
              \/ UnregisterPending(r) \/ UnregisterHost(r) \/ UnregisterStdout(r)
         \/ \E c \in Conns, r \in Reqs : AgentStdout(c, r) \/ AgentResult(c, r)
         \/ UNCHANGED vars
  PROVE  UNCHANGED <<wsConnections, connectionsMu, pc, todo, cur, out>>
BY DEF HandleStdout, AgentLost, CheckAgentOnline, RegisterFuture, GetConnection,
       SendToAgent, ReceiveResult, Timeout, UnregisterPending, UnregisterHost,
       UnregisterStdout, AgentStdout, AgentResult, vars, registry, locals

\* UnregisterConnection takes connectionsMu and EndResolve gives it back.
LEMMA LockStep ==
  ASSUME TypeInv, LoopHeld, LockIsCleanup, [Next]_vars
  PROVE  LockIsCleanup'
<1> USE ConstantsAssumption
    DEF TypeInv, TypeOK, registry, locals, Goto, Servers, LockIsCleanup,
        Unregistered, Resolving, Settling
<1>1. ASSUME NEW c \in Conns, Upgrade(c) PROVE LockIsCleanup'
  BY <1>1 DEF Upgrade
<1>2. ASSUME NEW c \in Conns, RegisterConnection(c) PROVE LockIsCleanup'
  BY <1>2 DEF RegisterConnection
<1>3. ASSUME NEW c \in Conns, HandleResult(c) PROVE LockIsCleanup'
  BY <1>3 DEF HandleResult, Readable
<1>4. ASSUME NEW c \in Conns, ReadError(c) PROVE LockIsCleanup'
  BY <1>4 DEF ReadError
<1>5. ASSUME NEW c \in Conns, UnregisterConnection(c) PROVE LockIsCleanup'
  BY <1>5 DEF UnregisterConnection
<1>6. ASSUME NEW a \in Closers, CloseAgent(a) PROVE LockIsCleanup'
  BY <1>6 DEF CloseAgent
<1>7. ASSUME NEW a \in Closers, CloseSocket(a) PROVE LockIsCleanup'
  BY <1>7 DEF CloseSocket
<1>8. ASSUME NEW p \in Servers, SnapshotTasks(p) PROVE LockIsCleanup'
  BY <1>8 DEF SnapshotTasks
<1>9. ASSUME NEW p \in Servers, EndResolve(p) PROVE LockIsCleanup'
  BY <1>9 DEF EndResolve
<1>10. ASSUME NEW p \in Servers, NEW t \in Tasks, NextTask(p, t) PROVE LockIsCleanup'
  BY <1>10 DEF NextTask, LoopHeld
<1>11. ASSUME NEW p \in Servers,
              LookupFuture(p) \/ Deliver(p) \/ DeletePending(p) \/ DeleteStdout(p)
       PROVE  LockIsCleanup'
  <2>1. /\ pc[p] \in Settling /\ \E label \in Settling : pc' = [pc EXCEPT ![p] = label]
        /\ UNCHANGED <<connectionsMu, out>>
    BY <1>11 DEF LookupFuture, Deliver, DeletePending, DeleteStdout
  <2>2. QED
    BY <2>1
<1>12. ASSUME NEW p \in Servers, DeleteHost(p) PROVE LockIsCleanup'
  BY <1>12 DEF DeleteHost
<1>13. ASSUME UNCHANGED <<connectionsMu, pc, out>> PROVE LockIsCleanup'
  BY <1>13
<1>14. QED
  BY <1>1, <1>2, <1>3, <1>4, <1>5, <1>6, <1>7, <1>8, <1>9, <1>10, <1>11, <1>12,
     <1>13, ServersAtRest, NextActions

\* At most one AgentHandler is in its cleanup at any time, and it is the holder
\* of connectionsMu: what waits for the lock waits for a cleanup and for nothing
\* else.
THEOREM CleanupsExclude == Spec => []LockIsCleanup
<1>1. Init => LoopHeld /\ LockIsCleanup
  BY ConstantsAssumption
     DEF Init, LoopHeld, LockIsCleanup, Unregistered, Servers, Settling
<1>2. TypeInv /\ LoopHeld /\ LockIsCleanup /\ [Next]_vars => LockIsCleanup'
  BY LockStep
<1>3. QED
  BY <1>1, <1>2, LoopStep, TypeInvInit, TypeInvStep, PTL DEF Spec

\* A step of p itself is a section of its loop, any other leaves its locals.
LEMMA LoopAdvancesStep == ASSUME TypeInv, [Next]_vars PROVE LoopAdvances
<1> USE ConstantsAssumption
    DEF TypeInv, TypeOK, registry, locals, Goto, Servers, LoopAdvances, Resolving,
        Settling
<1>1. ASSUME NEW c \in Conns, Upgrade(c) PROVE LoopAdvances
  BY <1>1 DEF Upgrade
<1>2. ASSUME NEW c \in Conns, RegisterConnection(c) PROVE LoopAdvances
  BY <1>2 DEF RegisterConnection
<1>3. ASSUME NEW c \in Conns, HandleResult(c) PROVE LoopAdvances
  BY <1>3 DEF HandleResult, Readable
<1>4. ASSUME NEW c \in Conns, ReadError(c) PROVE LoopAdvances
  BY <1>4 DEF ReadError
<1>5. ASSUME NEW c \in Conns, UnregisterConnection(c) PROVE LoopAdvances
  BY <1>5 DEF UnregisterConnection
<1>6. ASSUME NEW a \in Closers, CloseAgent(a) PROVE LoopAdvances
  BY <1>6 DEF CloseAgent
<1>7. ASSUME NEW a \in Closers, CloseSocket(a) PROVE LoopAdvances
  BY <1>7 DEF CloseSocket
<1>8. ASSUME NEW p \in Servers, SnapshotTasks(p) PROVE LoopAdvances
  BY <1>8 DEF SnapshotTasks
<1>9. ASSUME NEW p \in Servers, EndResolve(p) PROVE LoopAdvances
  BY <1>9 DEF EndResolve, SectionsLeft
<1>10. ASSUME NEW p \in Servers, NEW t \in Tasks, NextTask(p, t) PROVE LoopAdvances
  BY <1>10 DEF NextTask
<1>11. ASSUME NEW p \in Servers,
              LookupFuture(p) \/ Deliver(p) \/ DeletePending(p) \/ DeleteStdout(p)
       PROVE  LoopAdvances
  BY <1>11 DEF LookupFuture, Deliver, DeletePending, DeleteStdout, SectionsLeft
<1>12. ASSUME NEW p \in Servers, DeleteHost(p) PROVE LoopAdvances
  BY <1>12 DEF DeleteHost, SectionsLeft
<1>13. ASSUME UNCHANGED <<pc, todo, cur, out>> PROVE LoopAdvances
  BY <1>13
<1>14. QED
  BY <1>1, <1>2, <1>3, <1>4, <1>5, <1>6, <1>7, <1>8, <1>9, <1>10, <1>11, <1>12,
     <1>13, ServersAtRest, NextActions

\* No request, result or other resolver prolongs the loop of a resolver, which
\* runs under connectionsMu when it is a connection's: each of its steps takes
\* one task id from the snapshot or brings the current one closer to its end.
THEOREM CleanupsAreBounded == Spec => CleanupIsBounded
<1>1. TypeInv /\ [Next]_vars => [LoopAdvances]_vars
  BY LoopAdvancesStep
<1>2. QED
  BY <1>1, TypeInvInit, TypeInvStep, PTL DEF Spec, CleanupIsBounded

\* Only RegisterConnection starts a read loop, and it registers what it starts.
LEMMA EvictionStep ==
  ASSUME TypeInv, LoopHeld, EvictionHasCause, [Next]_vars
  PROVE  EvictionHasCause'
<1> SUFFICES ASSUME NEW e \in Conns, Serving(e)', sock'[e] = "open",
                    wsConnections'[HostOf[e]] # e
             PROVE  \/ \E d \in Conns \ {e} : Same(d, e) /\ Unregistered(d)'
                    \/ \E a \in Closers : Same(a, e) /\ pc'[a] # "idle"
  BY DEF EvictionHasCause, Same
<1> DEFINE Caused == \/ \E d \in Conns \ {e} : Same(d, e) /\ Unregistered(d)
                     \/ \E a \in Closers : Same(a, e) /\ pc[a] # "idle"
<1>1. Caused => Caused'
  BY CleanupStays DEF Same, Servers
<1>2. Serving(e) /\ sock[e] = "open" /\ wsConnections[HostOf[e]] # e => Caused
  BY DEF EvictionHasCause
<1> HIDE DEF Caused
<1> USE ConstantsAssumption
    DEF TypeInv, TypeOK, registry, locals, Goto, Servers, Serving, Resolving, Settling
<1>3. ASSUME NEW c \in Conns, Upgrade(c) PROVE Caused'
  BY <1>1, <1>2, <1>3 DEF Upgrade
<1>4. ASSUME NEW c \in Conns, RegisterConnection(c) PROVE Caused'
  BY <1>1, <1>2, <1>4 DEF RegisterConnection
<1>5. ASSUME NEW c \in Conns, HandleResult(c) PROVE Caused'
  BY <1>1, <1>2, <1>5 DEF HandleResult, Readable
<1>6. ASSUME NEW c \in Conns, ReadError(c) PROVE Caused'
  BY <1>1, <1>2, <1>6 DEF ReadError
<1>7. ASSUME NEW c \in Conns, UnregisterConnection(c) PROVE Caused'
  <2>1. c # e /\ pc'[c] = "snapshot"
    BY <1>7 DEF UnregisterConnection
  <2>2. CASE HostOf[c] = HostOf[e]
    BY <2>1, <2>2 DEF Caused, Same, Unregistered
  <2>3. CASE HostOf[c] # HostOf[e]
    BY <1>1, <1>2, <1>7, <2>1, <2>3 DEF UnregisterConnection
  <2>4. QED
    BY <2>2, <2>3
<1>8. ASSUME NEW a \in Closers, CloseAgent(a) PROVE Caused'
  <2>1. pc'[a] # "idle"
    BY <1>8 DEF CloseAgent
  <2>2. CASE HostOf[a] = HostOf[e]
    BY <2>1, <2>2 DEF Caused, Same
  <2>3. CASE HostOf[a] # HostOf[e]
    BY <1>1, <1>2, <1>8, <2>3 DEF CloseAgent
  <2>4. QED
    BY <2>2, <2>3
<1>9. ASSUME NEW a \in Closers, CloseSocket(a) PROVE Caused'
  BY <1>1, <1>2, <1>9 DEF CloseSocket
<1>10. ASSUME NEW p \in Servers, SnapshotTasks(p) PROVE Caused'
  BY <1>1, <1>2, <1>10 DEF SnapshotTasks
<1>11. ASSUME NEW p \in Servers, EndResolve(p) PROVE Caused'
  BY <1>1, <1>2, <1>11 DEF EndResolve
<1>12. ASSUME NEW p \in Servers, NEW t \in Tasks, NextTask(p, t) PROVE Caused'
  BY <1>1, <1>2, <1>12 DEF NextTask, LoopHeld
<1>13. ASSUME NEW p \in Servers,
              LookupFuture(p) \/ Deliver(p) \/ DeletePending(p) \/ DeleteStdout(p)
       PROVE  Caused'
  BY <1>1, <1>2, <1>13 DEF LookupFuture, Deliver, DeletePending, DeleteStdout
<1>14. ASSUME NEW p \in Servers, DeleteHost(p) PROVE Caused'
  BY <1>1, <1>2, <1>14 DEF DeleteHost
<1>15. ASSUME UNCHANGED <<wsConnections, pc, out>>, sock'[e] = sock[e] PROVE Caused'
  BY <1>1, <1>2, <1>15
<1>16. \/ \E c \in Conns :
              \/ Upgrade(c) \/ RegisterConnection(c) \/ HandleResult(c)
              \/ ReadError(c) \/ UnregisterConnection(c)
       \/ \E a \in Closers : CloseAgent(a) \/ CloseSocket(a)
       \/ \E p \in Servers :
            \/ SnapshotTasks(p) \/ EndResolve(p)
            \/ \E t \in Tasks : NextTask(p, t)
       \/ \E p \in Servers :
            \/ LookupFuture(p) \/ Deliver(p) \/ DeletePending(p)
            \/ DeleteStdout(p) \/ DeleteHost(p)
       \/ UNCHANGED <<wsConnections, pc, out>> /\ sock'[e] = sock[e]
  <2>1. \A c \in Conns : AgentLost(c) => sock'[e] = sock[e]
    BY DEF AgentLost
  <2>2. \/ \E c \in Conns : HandleStdout(c)
        \/ \E r \in Reqs :
              \/ CheckAgentOnline(r) \/ RegisterFuture(r) \/ GetConnection(r)
              \/ SendToAgent(r) \/ ReceiveResult(r) \/ Timeout(r)
              \/ UnregisterPending(r) \/ UnregisterHost(r) \/ UnregisterStdout(r)
        \/ \E c \in Conns, r \in Reqs : AgentStdout(c, r) \/ AgentResult(c, r)
        \/ UNCHANGED vars
        => sock' = sock
    BY DEF HandleStdout, CheckAgentOnline, RegisterFuture, GetConnection,
           SendToAgent, ReceiveResult, Timeout, UnregisterPending, UnregisterHost,
           UnregisterStdout, AgentStdout, AgentResult, vars
  <2>3. QED
    BY <2>1, <2>2, ServersAtRest, NextActions
<1>17. QED
  BY <1>3, <1>4, <1>5, <1>6, <1>7, <1>8, <1>9, <1>10, <1>11, <1>12, <1>13, <1>14,
     <1>15, <1>16 DEF Caused, Same

\* The registry misses a connected agent whose read loop runs only when another
\* connection of that host was cleaned up, or an admin closed the host: the
\* deletion by hostname is the one flaw behind a live agent that is offline.
THEOREM EvictionsHaveCause == Spec => []EvictionHasCause
<1>1. Init => LoopHeld /\ EvictionHasCause
  BY ConstantsAssumption
     DEF Init, LoopHeld, EvictionHasCause, Serving, Servers, Settling
<1>2. TypeInv /\ LoopHeld /\ EvictionHasCause /\ [Next]_vars => EvictionHasCause'
  BY EvictionStep
<1>3. QED
  BY <1>1, <1>2, LoopStep, TypeInvInit, TypeInvStep, PTL DEF Spec
=============================================================================
