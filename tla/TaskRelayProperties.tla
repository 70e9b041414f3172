------------------------ MODULE TaskRelayProperties -------------------------
(* What TaskRelay is checked for.                                          *)
EXTENDS TaskRelay, FiniteSets

Answered(r) == reqPc[r] = "done"
InFlight(r) == reqPc[r] \in {"getConn", "write", "wait"}
Settling == {"lookup", "deliver", "delPending", "delStdout", "delHost"}
Same(p, q) == HostOf[p] = HostOf[q]

\* The local variables of a goroutine that settles a task hold what the code
\* has read by then (with TypeOK, inductive).
SettlesATask ==
  \A p \in Servers :
    /\ pc[p] \in Settling => cur[p] \in Tasks
    /\ pc[p] = "deliver" => ch[p] \in Reqs

\* Past the point where UnregisterConnection took connectionsMu.
Unregistered(c) ==
  \/ pc[c] \in {"snapshot", "resolving", "done"}
  \/ pc[c] \in Settling /\ Resolving(c)

\* The registry never hands out a connection whose AgentHandler has already
\* run UnregisterConnection (or has not registered it): a task sent there
\* would be resolved by nobody when the socket dies.
NoZombieConnection ==
  \A h \in Hosts : wsConnections[h] # None =>
    LET c == wsConnections[h]
    IN  HostOf[c] = h /\ pc[c] \notin {"idle", "upgraded"} /\ ~Unregistered(c)

\* A request that still waits for a message finds its channel registered
\* under its task id and its host recorded, so that whoever settles the task
\* reaches it: RegisterFuture fills both maps in one section, and every
\* deletion follows a delivery.
NoLostFuture ==
  \A r \in Reqs : InFlight(r) /\ channel[r] = NoAnswer =>
    /\ pendingTasks[TaskOf[r]] = r
    /\ taskHostnames[TaskOf[r]] = HostOf[r]

\* Resolver p still has the task of r to deliver.
WillSettle(p, r) ==
  /\ Same(p, r) /\ Resolving(p)
  /\ \/ TaskOf[r] \in todo[p]
     \/ cur[p] = TaskOf[r] /\ pc[p] \in {"lookup", "deliver"}

\* The loss of the connection r was sent on will reach r.
Reached(r) ==
  \/ ~Unregistered(connRef[r])
  \/ pc[connRef[r]] = "snapshot"
  \/ \E p \in Servers : WillSettle(p, r)

\* A request never waits on a connection whose cleanup has passed it by:
\* either the AgentHandler of the connection it was sent on has yet to take
\* its snapshot, or a resolver of that host still has the task to deliver.
NoStrandedRequest ==
  \A r \in Reqs : reqPc[r] = "wait" /\ channel[r] = NoAnswer => Reached(r)

\* A 200 answer carries what an agent made of the caller's own task, be it run,
\* refused or failed, and never of another's, with all the output the agent
\* streamed up to the cap, whatever late messages, timeouts and cleanups of other
\* goroutines come between.
AnswerIsOwn ==
  \A r \in Reqs : Answered(r) /\ reply[r].kind = "result" =>
    /\ reply[r].req = r
    /\ verdict[r] \in AllVerdicts
    /\ reply[r].stdout \in
         {chunks[r], IF chunks[r] > StdoutMax THEN StdoutMax ELSE chunks[r]}

HasCause(m, r) ==
  /\ m.kind = "agent_disconnected" => \E c \in Conns : Same(c, r) /\ Unregistered(c)
  /\ m.kind = "agent_revoked" => \E a \in Closers : Same(a, r) /\ pc[a] # "idle"

\* Nobody is told agent_disconnected or agent_revoked unless a connection of
\* that very host was unregistered, or an admin closed that very host.
ErrorHasCause == \A r \in Reqs : HasCause(reply[r], r)

\* pendingTasks keeps no channel nobody reads: the entry of an answered
\* request is about to be deleted by the goroutine that settles it.
NoLeakedFuture ==
  \A r \in Reqs : Answered(r) /\ pendingTasks[TaskOf[r]] = r =>
    \E p \in Servers : cur[p] = TaskOf[r] /\ pc[p] = "delPending"

-----------------------------------------------------------------------------
(* Why futures are neither lost nor leaked when no two requests share a    *)
(* task id: the parts of the inductive invariant.                          *)

UniqueIds == \A r, s \in Reqs : TaskOf[r] = TaskOf[s] => r = s

Begun(r) == reqPc[r] \notin {"idle", "register"}

\* An entry of pendingTasks is the channel of a request with that task id.
EntriesMatch ==
  \A t \in Tasks : pendingTasks[t] # None =>
    TaskOf[pendingTasks[t]] = t /\ Begun(pendingTasks[t])

\* A task id occurs nowhere before its request has registered its future.
TracesBegun ==
  /\ \A r \in Reqs : taskHostnames[TaskOf[r]] # None => Begun(r)
  /\ \A r \in Reqs : channel[r] # NoAnswer => Begun(r)
  /\ \A c \in Conns : \A r \in toAgent[c] : Begun(r)
  /\ \A c \in Conns : \A i \in 1..Len(fromAgent[c]) : Begun(fromAgent[c][i].req)
  /\ \A p \in Servers, r \in Reqs :
       TaskOf[r] \in todo[p] \/ (pc[p] \in Settling /\ cur[p] = TaskOf[r]) => Begun(r)

\* A goroutine about to deliver holds a message and the channel of its task.
DeliversOwn ==
  \A p \in Servers :
    /\ pc[p] \in Settling \cup {"resolving"} => out[p] # NoAnswer
    /\ pc[p] = "deliver" => TaskOf[ch[p]] = cur[p]

\* Deletions come after the delivery.
DeliveredFirst ==
  \A p \in Servers, r \in Reqs :
    /\ pc[p] \in {"delPending", "delStdout", "delHost"}
    /\ cur[p] = TaskOf[r]
    /\ InFlight(r)
    => channel[r] # NoAnswer

\* An entry that nobody will wait on any more is about to be deleted.
FilledIsDeleted ==
  \A r \in Reqs :
    /\ pendingTasks[TaskOf[r]] = r
    /\ channel[r] # NoAnswer \/ reqPc[r] \in {"unregHost", "unregStdout", "done"}
    => \E p \in Servers : cur[p] = TaskOf[r] /\ pc[p] = "delPending"

FutureInv ==
  /\ EntriesMatch
  /\ TracesBegun
  /\ DeliversOwn
  /\ DeliveredFirst
  /\ FilledIsDeleted
  /\ NoLostFuture

-----------------------------------------------------------------------------
(* Why no request is stranded, and no error goes to another host.          *)

\* A server that has tasks left to settle is a resolver in its loop.
LoopHeld ==
  \A p \in Servers :
    /\ todo[p] # {} => pc[p] \in Settling \cup {"resolving"} /\ Resolving(p)
    /\ pc[p] = "resolving" => Resolving(p)

\* From the moment it has a connection, which is one of its host.
SentIsReached ==
  \A r \in Reqs : reqPc[r] \in {"write", "wait"} =>
    /\ connRef[r] \in Conns
    /\ Same(connRef[r], r)
    /\ channel[r] = NoAnswer => Reached(r)

StrandedInv == LoopHeld /\ SentIsReached

\* What a resolver settles belongs to requests of its host, and the error it
\* delivers tells what it is.
ResolvesOwnHost ==
  /\ \A r \in Reqs : taskHostnames[TaskOf[r]] \in {HostOf[r], None}
  /\ \A p \in Servers, r \in Reqs :
       /\ Resolving(p)
       /\ TaskOf[r] \in todo[p] \/ (pc[p] \in Settling /\ cur[p] = TaskOf[r])
       => Same(p, r)
  /\ \A p \in Servers :
       /\ out[p].kind = "agent_disconnected" => p \in Conns /\ Unregistered(p)
       /\ out[p].kind = "agent_revoked" => p \in Closers /\ pc[p] # "idle"

ErrorInv ==
  /\ ResolvesOwnHost
  /\ \A r \in Reqs : HasCause(channel[r], r) /\ HasCause(reply[r], r)

\* A request whose connection is lost or closed is answered without waiting
\* for its timer: the disconnect path reaches every future of the host.
LossWakesRequest ==
  \A r \in Reqs :
    (reqPc[r] = "wait" /\ sock[connRef[r]] \in {"lost", "closed"}) ~> Answered(r)

\* No AgentHandler outlives its socket, and connectionsMu is not kept.
DeadSocketIsReclaimed ==
  \A c \in Conns : sock[c] \in {"lost", "closed"} ~> pc[c] = "done"

\* What a caller reads in an answer: the error of the server or, in a 200, what
\* the agent made of the task the result is of.
Told(m) == IF m.kind = "result" THEN verdict[m.req] ELSE m.kind

\* Answers that mean that the command does not run: of the server and of the agent.
Refusals == {"agent_offline", "send_failed", "refused"}

\* The promise of the REST calls, implemented by the relay.
Promise == INSTANCE TaskPromise WITH
  Kinds <- (ErrorKinds \cup AllVerdicts) \ {"none"},
  OfRun <- {"ran"},
  NotRun <- Refusals,
  asked <- {r \in Reqs : reqPc[r] # "idle"},
  answer <- [r \in Reqs |-> IF Answered(r) THEN Told(reply[r]) ELSE "none"],
  ran <- {r \in Reqs : verdict[r] = "ran"}

\* One answer to each request, which never changes what it says; it tells of a
\* run only when the caller's command ran, and refusals, agent_busy and expiry
\* handed on in a 200 included, are only of commands that do not run, before or
\* after.
KeepsPromise == Promise!Spec

\* Provided the timer of WaitForResult fires, every request is answered in the
\* end: the fairness of TaskPromise.
EveryRequestIsAnswered == Timers => Promise!Fairness

-----------------------------------------------------------------------------
(* Why the promise is kept: what answers, messages and tasks on their way  *)
(* say of what the agents made of the tasks.                               *)

\* An agent is done with r.
Served(r) == verdict[r] # "none"

\* What a resolver or a result message leaves in a channel.
Outcomes == {"agent_disconnected", "agent_revoked", "result"}

\* Results on their way are of tasks an agent is done with, and are settled under
\* their own task id.
CarriedResults ==
  /\ \A c \in Conns : \A i \in 1..Len(fromAgent[c]) :
       fromAgent[c][i].kind = "result" => Served(fromAgent[c][i].req)
  /\ \A p \in Servers :
       /\ pc[p] \in Settling \cup {"resolving"} => out[p].kind \in Outcomes
       /\ pc[p] \in Settling /\ out[p].kind = "result" =>
            cur[p] = TaskOf[out[p].req] /\ out[p].req \in Reqs /\ Served(out[p].req)

\* A channel and an answer hold a result of their own request.
HonestOutcomes ==
  /\ CarriedResults
  /\ \A r \in Reqs : channel[r] # NoAnswer =>
       /\ channel[r].kind \in Outcomes
       /\ channel[r].kind = "result" => channel[r].req = r /\ Served(r)
  /\ \A r \in Reqs : reply[r].kind = "result" => reply[r].req = r /\ Served(r)

\* A request that is cleaning up has its answer, and one whose message went to
\* an agent is waiting, or was not told that it failed; an agent is done once.
HonestRefusals ==
  /\ \A r \in Reqs : reqPc[r] \in {"unregPending", "unregHost", "unregStdout"} =>
       reply[r].kind \in {"send_failed", "task_timeout"}
  /\ \A r \in Reqs : (Served(r) \/ \E c \in Conns : r \in toAgent[c]) =>
       /\ reqPc[r] \notin {"idle", "register", "getConn", "write"}
       /\ reqPc[r] = "wait" \/ reply[r].kind \notin {"agent_offline", "send_failed"}
  /\ \A c \in Conns : \A r \in toAgent[c] : connRef[r] = c /\ ~Served(r)

HonestInv == HonestOutcomes /\ HonestRefusals

-----------------------------------------------------------------------------
(* What is left when callers use a task id twice.                          *)

\* Message m, if it is a result, is one of the task id of r, of a task that an
\* agent is done with.
ResultOfTask(m, r) ==
  m.kind = "result" =>
    m.req \in Reqs /\ TaskOf[m.req] = TaskOf[r] /\ Served(m.req)

\* Whatever task ids callers choose: no 200 carries the result of another task
\* id, and a request that was told agent_offline or send_failed is neither run
\* nor on its way to an agent.
AnswerIsOfTask ==
  \A r \in Reqs :
    /\ ResultOfTask(reply[r], r)
    /\ Answered(r) /\ reply[r].kind \in {"agent_offline", "send_failed"} =>
         ~Served(r) /\ \A c \in Conns : r \notin toAgent[c]

\* The entry of a task id is the channel of a request with that id, and so is
\* the channel a goroutine is about to deliver to.
EntriesOfTask ==
  /\ \A t \in Tasks : pendingTasks[t] # None => TaskOf[pendingTasks[t]] = t
  /\ \A p \in Servers : pc[p] = "deliver" => TaskOf[ch[p]] = cur[p]

ChannelsOfTask ==
  \A r \in Reqs :
    /\ channel[r] # NoAnswer => channel[r].kind \in Outcomes
    /\ ResultOfTask(channel[r], r)
    /\ ResultOfTask(reply[r], r)

SharedIdInv ==
  CarriedResults /\ EntriesOfTask /\ ChannelsOfTask /\ HonestRefusals

-----------------------------------------------------------------------------
(* Why an answer is complete: where the output of a request is until the   *)
(* result is settled.                                                      *)

Unsent(r) == reqPc[r] \in {"idle", "register", "getConn", "write"}

\* Output and result of a request travel on the connection it was sent on.
OneConnection ==
  /\ \A r \in Reqs : Unsent(r) => chunks[r] = 0
  /\ \A c \in Conns : \A i \in 1..Len(fromAgent[c]) :
       LET r == fromAgent[c][i].req IN connRef[r] = c /\ ~Unsent(r)

\* After its result, an agent sends nothing more of a request.
ResultIsLast ==
  \A c \in Conns : \A i \in 1..Len(fromAgent[c]) :
    LET m == fromAgent[c][i]
    IN  m.kind = "result" =>
          /\ m.stdout \in {0, chunks[m.req]}
          /\ \A j \in (i+1)..Len(fromAgent[c]) : fromAgent[c][j].req # m.req

\* Where queue q has the output of r.
OutputOf(r, q) == {i \in 1..Len(q) : q[i].kind = "stdout" /\ q[i].req = r}

Capped(n) == IF n > StdoutMax THEN StdoutMax ELSE n

\* The buffer of a request that waits has, up to the cap, all the output that is
\* not on its way: nobody clears it before something was delivered.
OutputIsKept ==
  \A r \in Reqs : channel[r] = NoAnswer =>
    /\ Unsent(r) => stdoutBuffers[TaskOf[r]] = 0
    /\ reqPc[r] = "wait" =>
         LET unread == Cardinality(OutputOf(r, fromAgent[connRef[r]]))
         IN  unread <= chunks[r] /\ stdoutBuffers[TaskOf[r]] = Capped(chunks[r] - unread)

\* Message m is the result of r with all its output.
Complete(m, r) ==
  m.req = r /\ Served(r) /\ m.stdout \in {chunks[r], Capped(chunks[r])}

\* The results that still reach a caller, in a goroutine, channel or answer.
ResultsAreComplete ==
  /\ \A p \in Servers, r \in Reqs :
       /\ pc[p] \in {"lookup", "deliver"} /\ cur[p] = TaskOf[r]
       /\ out[p].kind = "result"
       /\ reqPc[r] = "wait" /\ channel[r] = NoAnswer
       => Complete(out[p], r)
  /\ \A r \in Reqs :
       reqPc[r] = "wait" /\ channel[r].kind = "result" => Complete(channel[r], r)
  /\ \A r \in Reqs : reply[r].kind = "result" => Complete(reply[r], r)

OutputInv == OneConnection /\ ResultIsLast /\ OutputIsKept /\ ResultsAreComplete

-----------------------------------------------------------------------------
(* What the code does not keep.                                            *)

\* While an agent is connected and its AgentHandler reads, the registry
\* designates that connection (no admin closing anything): the replacement of
\* a stale WebSocket leaves the new one registered.
LiveConnectionIsRegistered ==
  \A c \in Conns : pc[c] = "reading" /\ sock[c] = "open" =>
    wsConnections[HostOf[c]] = c

\* The read loop of c runs: it waits for a message or settles a result.
Serving(c) == pc[c] = "reading" \/ (pc[c] \in Settling /\ ~Resolving(c))

\* All that evicts a live connection from the registry is the cleanup of another
\* connection of its host, which deletes by hostname, or an admin's CloseAgent:
\* neither a new connection, nor a revocation of another host, nor what is in
\* flight does.
EvictionHasCause ==
  \A c \in Conns :
    Serving(c) /\ sock[c] = "open" /\ wsConnections[HostOf[c]] # c =>
      \/ \E d \in Conns \ {c} : Same(d, c) /\ Unregistered(d)
      \/ \E a \in Closers : Same(a, c) /\ pc[a] # "idle"

-----------------------------------------------------------------------------
(* What keeps connectionsMu short.                                         *)

\* connectionsMu is held exactly from the deletion of the entry to the return of
\* UnregisterConnection, so cleanups of connections exclude each other.
LockIsCleanup ==
  \A c \in Conns :
    connectionsMu = c <=> Unregistered(c) /\ pc[c] # "done"

\* Sections of the loop of ResolveFuturesForHostname that p has still to run
\* before it takes the next task id.
SectionsLeft(p) ==
  IF pc[p] = "lookup" THEN 6
  ELSE IF pc[p] = "deliver" THEN 5
  ELSE IF pc[p] = "delPending" THEN 4
  ELSE IF pc[p] = "delStdout" THEN 3
  ELSE IF pc[p] = "delHost" THEN 2
  ELSE IF pc[p] = "resolving" THEN 1
  ELSE 0

\* The loop works off the task ids of its snapshot and no more: every step of p
\* takes one of them or is a section of the current one, and no step of anybody
\* else, a request registered for the host meanwhile included, prolongs it.
LoopAdvances ==
  \A p \in Servers :
    (pc[p] = "resolving" \/ pc[p] \in Settling) /\ Resolving(p) =>
      \/ UNCHANGED <<todo[p], pc[p], cur[p], out[p]>>
      \/ \E t \in todo[p] : todo'[p] = todo[p] \ {t}
      \/ todo'[p] = todo[p] /\ SectionsLeft(p)' < SectionsLeft(p)

CleanupIsBounded == [][LoopAdvances]_vars
=============================================================================
