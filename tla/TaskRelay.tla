------------------------------ MODULE TaskRelay ------------------------------
(***************************************************************************)
(* The task path of secagent-server: internal/ws/handler.go (registry of   *)
(* agent WebSockets, table of pending futures, stdout buffers) and         *)
(* internal/handlers/exec.go (the blocking REST calls exec, upload and     *)
(* fetch).                                                                 *)
(*                                                                         *)
(* Three kinds of goroutine run concurrently, one step per critical        *)
(* section of the code:                                                    *)
(*   Conns    the AgentHandler of one WebSocket connection object;         *)
(*   Reqs     the HTTP handler of one exec, upload or fetch request, from  *)
(*            checkAgentOnline to the response;                            *)
(*   Closers  an admin call of CloseAgent (revoke or delete of a minion).  *)
(*                                                                         *)
(* tasksMu, taskHostMu and buffersMu are leaf locks held for one access,   *)
(* or nested in one place (RegisterFuture), so each section is one atomic  *)
(* step.  connectionsMu is a variable: UnregisterConnection keeps it       *)
(* through the whole of ResolveFuturesForHostname.  conn.mu covers one     *)
(* taskHostnames entry and one write; the two commute with the steps of    *)
(* others that fall between them and are one step.                         *)
(*                                                                         *)
(* The host.up and host.down goroutines spawned on the way only enqueue    *)
(* hook events: their number is the number of connections past             *)
(* "upgraded" and past "unregister"; the queue is another component.       *)
(***************************************************************************)
EXTENDS Naturals, Sequences

CONSTANTS
  Hosts,      \* hostnames, the "sub" claim of the agents' JWTs
  Conns,      \* connection objects (*AgentConnection) over the whole run
  Reqs,       \* HTTP requests; a request's channel is named by the request
  Closers,    \* calls of CloseAgent
  Tasks,      \* task_id strings
  None,       \* absent map entry, nil channel
  HostOf,     \* hostname of every connection, request and closer
  TaskOf,     \* task_id of every request: caller-supplied or a fresh UUID
  Verdicts,   \* what agents make of tasks
  StdoutMax,  \* stdoutMaxBytes, in chunks
  MaxChunks   \* bound: chunks an agent streams for one task

\* All that the result of a task can say: the command was run, it was not and
\* will not be (no room, expired, not started), or a transfer failed and may have
\* begun to write.
AllVerdicts == {"ran", "refused", "failed"}

ASSUME ConstantsAssumption ==
  /\ HostOf \in [Conns \cup Reqs \cup Closers -> Hosts]
  /\ TaskOf \in [Reqs -> Tasks]
  /\ None \notin Hosts \cup Conns \cup Reqs \cup Closers \cup Tasks
  /\ (Conns \cup Reqs) \cap Closers = {}
  /\ Verdicts \subseteq AllVerdicts
  /\ StdoutMax \in Nat
  /\ MaxChunks \in Nat

VARIABLES
  wsConnections,  \* Hosts -> registered connection or None
  connectionsMu,  \* connection inside UnregisterConnection, or None
  pendingTasks,   \* Tasks -> request whose channel is registered, or None
  taskHostnames,  \* Tasks -> host or None
  stdoutBuffers,  \* Tasks -> accumulated chunks
  channel,        \* Reqs -> content of its channel of capacity 1
  sock,           \* Conns -> state of the socket, seen from the server
  pc,             \* Conns and Closers -> control point
  todo,           \* task ids ResolveFuturesForHostname has still to visit
  cur,            \* task id being settled
  ch,             \* the channel read from pendingTasks
  out,            \* the message to put in that channel
  reqPc,          \* Reqs -> control point
  connRef,        \* Reqs and Closers -> the *AgentConnection they hold
  reply,          \* Reqs -> the answer (final once reqPc is "done")
  toAgent,        \* Conns -> requests whose message the agent has to serve
  fromAgent,      \* Conns -> messages the agent has sent
  chunks,         \* Reqs -> chunks streamed by the agent
  verdict         \* Reqs -> what an agent made of it, which its result tells

registry == <<wsConnections, connectionsMu>>
futures  == <<pendingTasks, taskHostnames, stdoutBuffers, channel>>
locals   == <<todo, cur, ch, out>>
requests == <<reqPc, connRef, reply>>
agents   == <<toAgent, fromAgent, chunks, verdict>>
vars     == <<registry, futures, sock, pc, locals, requests, agents>>

Servers == Conns \cup Closers

ErrorKinds == {"none", "agent_offline", "send_failed", "task_timeout",
               "agent_disconnected", "agent_revoked"}
Answers == [kind: ErrorKinds \cup {"result"}, req: Reqs \cup {None}, stdout: Nat]
Error(kind) == [kind |-> kind, req |-> None, stdout |-> 0]
NoAnswer == Error("none")

Messages == [kind: {"stdout", "result"}, req: Reqs, stdout: Nat]

ServerPc == {"idle", "upgraded", "reading", "unregister", "close", "snapshot",
             "resolving", "lookup", "deliver", "delPending", "delStdout",
             "delHost", "done"}
RequestPc == {"idle", "register", "getConn", "write", "wait", "unregPending",
              "unregHost", "unregStdout", "done"}

TypeOK ==
  /\ wsConnections \in [Hosts -> Conns \cup {None}]
  /\ connectionsMu \in Conns \cup {None}
  /\ pendingTasks \in [Tasks -> Reqs \cup {None}]
  /\ taskHostnames \in [Tasks -> Hosts \cup {None}]
  /\ stdoutBuffers \in [Tasks -> Nat]
  /\ channel \in [Reqs -> Answers]
  /\ sock \in [Conns -> {"none", "open", "lost", "closed"}]
  /\ pc \in [Servers -> ServerPc]
  /\ todo \in [Servers -> SUBSET Tasks]
  /\ cur \in [Servers -> Tasks \cup {None}]
  /\ ch \in [Servers -> Reqs \cup {None}]
  /\ out \in [Servers -> Answers]
  /\ reqPc \in [Reqs -> RequestPc]
  /\ connRef \in [Reqs \cup Closers -> Conns \cup {None}]
  /\ reply \in [Reqs -> Answers]
  /\ toAgent \in [Conns -> SUBSET Reqs]
  /\ fromAgent \in [Conns -> Seq(Messages)]
  /\ chunks \in [Reqs -> Nat]
  /\ verdict \in [Reqs -> AllVerdicts \cup {"none"}]

Init ==
  /\ wsConnections = [h \in Hosts |-> None]
  /\ connectionsMu = None
  /\ pendingTasks = [t \in Tasks |-> None]
  /\ taskHostnames = [t \in Tasks |-> None]
  /\ stdoutBuffers = [t \in Tasks |-> 0]
  /\ channel = [r \in Reqs |-> NoAnswer]
  /\ sock = [c \in Conns |-> "none"]
  /\ pc = [p \in Servers |-> "idle"]
  /\ todo = [p \in Servers |-> {}]
  /\ cur = [p \in Servers |-> None]
  /\ ch = [p \in Servers |-> None]
  /\ out = [p \in Servers |-> NoAnswer]
  /\ reqPc = [r \in Reqs |-> "idle"]
  /\ connRef = [p \in Reqs \cup Closers |-> None]
  /\ reply = [r \in Reqs |-> NoAnswer]
  /\ toAgent = [c \in Conns |-> {}]
  /\ fromAgent = [c \in Conns |-> <<>>]
  /\ chunks = [r \in Reqs |-> 0]
  /\ verdict = [r \in Reqs |-> "none"]

Goto(p, label) == pc' = [pc EXCEPT ![p] = label]
RequestGoto(r, label) == reqPc' = [reqPc EXCEPT ![r] = label]

-----------------------------------------------------------------------------
(* AgentHandler: one goroutine per connection.                             *)

\* The agent dials (it runs one connection at a time) and the server
\* upgrades; the agent can then lose the connection before it is registered.
Upgrade(c) ==
  /\ pc[c] = "idle"
  /\ \A d \in Conns : HostOf[d] = HostOf[c] => sock[d] # "open"
  /\ sock' = [sock EXCEPT ![c] = "open"]
  /\ Goto(c, "upgraded")
  /\ UNCHANGED <<registry, futures, locals, requests, agents>>

\* Closes the socket registered for the host, if any, and takes its place.
RegisterConnection(c) ==
  /\ pc[c] = "upgraded"
  /\ connectionsMu = None
  /\ sock' = [d \in Conns |->
                IF d = wsConnections[HostOf[c]] THEN "closed" ELSE sock[d]]
  /\ wsConnections' = [wsConnections EXCEPT ![HostOf[c]] = c]
  /\ Goto(c, "reading")
  /\ UNCHANGED <<connectionsMu, futures, locals, requests, agents>>

\* Frames already received can still be read after the socket was closed.
Readable(c, kind) ==
  /\ pc[c] = "reading"
  /\ fromAgent[c] # <<>>
  /\ Head(fromAgent[c]).kind = kind

Consume(c) == fromAgent' = [fromAgent EXCEPT ![c] = Tail(@)]

\* HandleMessage, case "stdout": append under the cap.
HandleStdout(c) ==
  /\ Readable(c, "stdout")
  /\ LET t == TaskOf[Head(fromAgent[c]).req]
         combined == stdoutBuffers[t] + 1
     IN  stdoutBuffers' = [stdoutBuffers EXCEPT
           ![t] = IF combined > StdoutMax THEN StdoutMax ELSE combined]
  /\ Consume(c)
  /\ UNCHANGED <<registry, pendingTasks, taskHostnames, channel, sock, pc,
                 locals, requests, toAgent, chunks, verdict>>

\* Mutant: the accumulated stdout is ignored.
HandleResult_NoStdout(c) ==
  /\ Readable(c, "result")
  /\ cur' = [cur EXCEPT ![c] = TaskOf[Head(fromAgent[c]).req]]
  /\ out' = [out EXCEPT ![c] = Head(fromAgent[c])]
  /\ Consume(c)
  /\ Goto(c, "lookup")
  /\ UNCHANGED <<registry, futures, sock, todo, ch, requests, toAgent,
                 chunks, verdict>>

\* HandleMessage, case "result": the accumulated stdout fills an empty one.
HandleResult(c) ==
  /\ Readable(c, "result")
  /\ LET m == Head(fromAgent[c])
         t == TaskOf[m.req]
     IN  /\ cur' = [cur EXCEPT ![c] = t]
         /\ out' = [out EXCEPT ![c] =
              [kind |-> "result", req |-> m.req,
               stdout |-> IF m.stdout = 0 THEN stdoutBuffers[t] ELSE m.stdout]]
  /\ Consume(c)
  /\ Goto(c, "lookup")
  /\ UNCHANGED <<registry, futures, sock, todo, ch, requests, toAgent,
                 chunks, verdict>>

\* ReadJSON fails: server-side Close, or loss seen by the peer or TCP.  What
\* a lost connection had still in flight may or may not have been read.
ReadError(c) ==
  /\ pc[c] = "reading"
  /\ sock[c] \in {"lost", "closed"}
  /\ Goto(c, "unregister")
  /\ UNCHANGED <<registry, futures, sock, locals, requests, agents>>

\* Mutant: the entry stays.
UnregisterConnection_EntryStays(c) ==
  /\ pc[c] = "unregister"
  /\ connectionsMu = None
  /\ connectionsMu' = c
  /\ Goto(c, "snapshot")
  /\ UNCHANGED <<wsConnections, futures, sock, locals, requests, agents>>

\* Mutant: the futures of the host are not resolved.
UnregisterConnection_NoResolve(c) ==
  /\ pc[c] = "unregister"
  /\ connectionsMu = None
  /\ wsConnections' = [wsConnections EXCEPT ![HostOf[c]] = None]
  /\ sock' = [sock EXCEPT ![c] = "closed"]
  /\ Goto(c, "done")
  /\ UNCHANGED <<connectionsMu, futures, locals, requests, agents>>

\* Deferred on exit.  The entry of the hostname goes, whoever holds it.
UnregisterConnection(c) ==
  /\ pc[c] = "unregister"
  /\ connectionsMu = None
  /\ connectionsMu' = c
  /\ wsConnections' = [wsConnections EXCEPT ![HostOf[c]] = None]
  /\ Goto(c, "snapshot")
  /\ UNCHANGED <<futures, sock, locals, requests, agents>>

-----------------------------------------------------------------------------
(* CloseAgent, called by the admin handlers that revoke or delete.         *)

\* Looks the connection up and forgets it; returns false when there is none.
CloseAgent(a) ==
  /\ pc[a] = "idle"
  /\ connectionsMu = None
  /\ LET c == wsConnections[HostOf[a]]
     IN  /\ Goto(a, IF c = None THEN "done" ELSE "close")
         /\ connRef' = [connRef EXCEPT ![a] = c]
         /\ wsConnections' = [wsConnections EXCEPT ![HostOf[a]] = None]
  /\ UNCHANGED <<connectionsMu, futures, sock, locals, reqPc, reply, agents>>

\* Under conn.mu: close frame, then Close.
CloseSocket(a) ==
  /\ pc[a] = "close"
  /\ sock' = [sock EXCEPT ![connRef[a]] = "closed"]
  /\ Goto(a, "snapshot")
  /\ UNCHANGED <<registry, futures, locals, requests, agents>>

-----------------------------------------------------------------------------
(* ResolveFuturesForHostname, run by a Conn (holding connectionsMu, with   *)
(* "agent_disconnected") or by a Closer (not holding it, with              *)
(* "agent_revoked").                                                       *)

\* Mutant: a request already sent is told that its agent is offline.
ResolveReason_Offline(p) ==
  IF p \in Conns THEN "agent_offline" ELSE "agent_revoked"

ResolveReason(p) == IF p \in Conns THEN "agent_disconnected" ELSE "agent_revoked"

\* Mutant: the host is not compared.
SnapshotTasks_AnyHost(p) ==
  /\ pc[p] = "snapshot"
  /\ todo' = [todo EXCEPT ![p] = {t \in Tasks : taskHostnames[t] # None}]
  /\ out' = [out EXCEPT ![p] = Error(ResolveReason(p))]
  /\ Goto(p, "resolving")
  /\ UNCHANGED <<registry, futures, sock, cur, ch, requests, agents>>

\* The task ids of the host, under taskHostMu.
SnapshotTasks(p) ==
  /\ pc[p] = "snapshot"
  /\ todo' = [todo EXCEPT ![p] = {t \in Tasks : taskHostnames[t] = HostOf[p]}]
  /\ out' = [out EXCEPT ![p] = Error(ResolveReason(p))]
  /\ Goto(p, "resolving")
  /\ UNCHANGED <<registry, futures, sock, cur, ch, requests, agents>>

NextTask(p, t) ==
  /\ pc[p] = "resolving"
  /\ t \in todo[p]
  /\ todo' = [todo EXCEPT ![p] = @ \ {t}]
  /\ cur' = [cur EXCEPT ![p] = t]
  /\ Goto(p, "lookup")
  /\ UNCHANGED <<registry, futures, sock, ch, out, requests, agents>>

\* Mutant: connectionsMu is not unlocked.
EndResolve_NoUnlock(p) ==
  /\ pc[p] = "resolving"
  /\ todo[p] = {}
  /\ sock' = [c \in Conns |-> IF c = p THEN "closed" ELSE sock[c]]
  /\ out' = [out EXCEPT ![p] = NoAnswer]
  /\ Goto(p, "done")
  /\ UNCHANGED <<registry, futures, todo, cur, ch, requests, agents>>

\* The loop is over.  A Conn returns from UnregisterConnection, which frees
\* connectionsMu, and closes its own socket.
EndResolve(p) ==
  /\ pc[p] = "resolving"
  /\ todo[p] = {}
  /\ connectionsMu' = IF p \in Conns THEN None ELSE connectionsMu
  /\ sock' = [c \in Conns |-> IF c = p THEN "closed" ELSE sock[c]]
  /\ out' = [out EXCEPT ![p] = NoAnswer]
  /\ Goto(p, "done")
  /\ UNCHANGED <<wsConnections, futures, todo, cur, ch, requests, agents>>

-----------------------------------------------------------------------------
(* Settling one task: the same sections, in the same order, in the loop of *)
(* ResolveFuturesForHostname and in case "result" of HandleMessage.        *)

\* Mutant: the entry is deleted without a delivery.
LookupFuture_NoDelivery(p) ==
  /\ pc[p] = "lookup"
  /\ Goto(p, "delPending")
  /\ UNCHANGED <<registry, futures, sock, locals, requests, agents>>

LookupFuture(p) ==
  /\ pc[p] = "lookup"
  /\ ch' = [ch EXCEPT ![p] = pendingTasks[cur[p]]]
  /\ Goto(p, IF pendingTasks[cur[p]] = None THEN "delPending" ELSE "deliver")
  /\ UNCHANGED <<registry, futures, sock, todo, cur, out, requests, agents>>

\* Non-blocking send: a channel that already holds a message keeps it.
Deliver(p) ==
  /\ pc[p] = "deliver"
  /\ channel' = [channel EXCEPT ![ch[p]] = IF @ = NoAnswer THEN out[p] ELSE @]
  /\ ch' = [ch EXCEPT ![p] = None]
  /\ Goto(p, "delPending")
  /\ UNCHANGED <<registry, pendingTasks, taskHostnames, stdoutBuffers, sock,
                 todo, cur, out, requests, agents>>

DeletePending(p) ==
  /\ pc[p] = "delPending"
  /\ pendingTasks' = [pendingTasks EXCEPT ![cur[p]] = None]
  /\ Goto(p, "delStdout")
  /\ UNCHANGED <<registry, taskHostnames, stdoutBuffers, channel, sock,
                 locals, requests, agents>>

DeleteStdout(p) ==
  /\ pc[p] = "delStdout"
  /\ stdoutBuffers' = [stdoutBuffers EXCEPT ![cur[p]] = 0]
  /\ Goto(p, "delHost")
  /\ UNCHANGED <<registry, pendingTasks, taskHostnames, channel, sock, locals,
                 requests, agents>>

\* The last section; then the next task of the loop, or the next message.
Resolving(p) == out[p].kind # "result"

DeleteHost(p) ==
  /\ pc[p] = "delHost"
  /\ taskHostnames' = [taskHostnames EXCEPT ![cur[p]] = None]
  /\ cur' = [cur EXCEPT ![p] = None]
  /\ out' = [out EXCEPT ![p] = IF Resolving(p) THEN @ ELSE NoAnswer]
  /\ Goto(p, IF Resolving(p) THEN "resolving" ELSE "reading")
  /\ UNCHANGED <<registry, pendingTasks, stdoutBuffers, channel, sock, todo,
                 ch, requests, agents>>

-----------------------------------------------------------------------------
(* ExecCommand, UploadFile and FetchFile after validation.                 *)

Answer(r, kind) == reply' = [reply EXCEPT ![r] = Error(kind)]

\* 503 agent_offline at once when the host has no registered connection.
CheckAgentOnline(r) ==
  /\ reqPc[r] = "idle"
  /\ connectionsMu = None
  /\ IF wsConnections[HostOf[r]] = None
     THEN RequestGoto(r, "done") /\ Answer(r, "agent_offline")
     ELSE RequestGoto(r, "register") /\ UNCHANGED reply
  /\ UNCHANGED <<registry, futures, sock, pc, locals, connRef, agents>>

\* Mutant: only SendToAgent records the host.
RegisterFuture_NoHost(r) ==
  /\ reqPc[r] = "register"
  /\ pendingTasks' = [pendingTasks EXCEPT ![TaskOf[r]] = r]
  /\ RequestGoto(r, "getConn")
  /\ UNCHANGED <<registry, taskHostnames, stdoutBuffers, channel, sock, pc,
                 locals, connRef, reply, agents>>

\* Mutant: the two strings are swapped in the host map.
RegisterFuture_Swapped(r) ==
  /\ reqPc[r] = "register"
  /\ pendingTasks' = [pendingTasks EXCEPT ![TaskOf[r]] = r]
  /\ taskHostnames' = [taskHostnames EXCEPT ![TaskOf[r]] = TaskOf[r]]
  /\ RequestGoto(r, "getConn")
  /\ UNCHANGED <<registry, stdoutBuffers, channel, sock, pc, locals, connRef,
                 reply, agents>>

\* A new channel replaces whatever the task id had; both maps in one section.
RegisterFuture(r) ==
  /\ reqPc[r] = "register"
  /\ pendingTasks' = [pendingTasks EXCEPT ![TaskOf[r]] = r]
  /\ taskHostnames' = [taskHostnames EXCEPT ![TaskOf[r]] = HostOf[r]]
  /\ RequestGoto(r, "getConn")
  /\ UNCHANGED <<registry, stdoutBuffers, channel, sock, pc, locals, connRef,
                 reply, agents>>

\* First half of SendToAgent.
GetConnection(r) ==
  /\ reqPc[r] = "getConn"
  /\ connectionsMu = None
  /\ LET c == wsConnections[HostOf[r]]
     IN  IF c = None
         THEN /\ RequestGoto(r, "unregPending")
              /\ Answer(r, "send_failed")
              /\ UNCHANGED connRef
         ELSE /\ RequestGoto(r, "write")
              /\ connRef' = [connRef EXCEPT ![r] = c]
              /\ UNCHANGED reply
  /\ UNCHANGED <<registry, futures, sock, pc, locals, agents>>

\* Second half: the host of the task is recorded again, the message written.
\* A write to a lost connection may succeed into the void.
SendToAgent(r) ==
  /\ reqPc[r] = "write"
  /\ taskHostnames' = [taskHostnames EXCEPT ![TaskOf[r]] = HostOf[r]]
  /\ LET c == connRef[r]
     IN  \/ /\ sock[c] # "closed"
            /\ toAgent' = [toAgent EXCEPT
                 ![c] = IF sock[c] = "open" THEN @ \cup {r} ELSE @]
            /\ RequestGoto(r, "wait")
            /\ UNCHANGED reply
         \/ /\ sock[c] # "open"
            /\ RequestGoto(r, "unregPending")
            /\ Answer(r, "send_failed")
            /\ UNCHANGED toAgent
  /\ UNCHANGED <<registry, pendingTasks, stdoutBuffers, channel, sock, pc,
                 locals, connRef, fromAgent, chunks, verdict>>

\* WaitForResult, message first.
ReceiveResult(r) ==
  /\ reqPc[r] = "wait"
  /\ channel[r] # NoAnswer
  /\ reply' = [reply EXCEPT ![r] = channel[r]]
  /\ channel' = [channel EXCEPT ![r] = NoAnswer]
  /\ RequestGoto(r, "done")
  /\ UNCHANGED <<registry, pendingTasks, taskHostnames, stdoutBuffers, sock,
                 pc, locals, connRef, agents>>

\* Mutant: no UnregisterFuture after the timer.
Timeout_NoUnregister(r) ==
  /\ reqPc[r] = "wait"
  /\ Answer(r, "task_timeout")
  /\ RequestGoto(r, "done")
  /\ UNCHANGED <<registry, futures, sock, pc, locals, connRef, agents>>

\* Mutant: no timer.
Timeout_Never(r) == FALSE /\ reqPc[r] = "wait" /\ UNCHANGED vars

\* WaitForResult, timer first; select picks either when both are ready.
Timeout(r) ==
  /\ reqPc[r] = "wait"
  /\ Answer(r, "task_timeout")
  /\ RequestGoto(r, "unregPending")
  /\ UNCHANGED <<registry, futures, sock, pc, locals, connRef, agents>>

\* UnregisterFuture: three sections.
UnregisterPending(r) ==
  /\ reqPc[r] = "unregPending"
  /\ pendingTasks' = [pendingTasks EXCEPT ![TaskOf[r]] = None]
  /\ RequestGoto(r, "unregHost")
  /\ UNCHANGED <<registry, taskHostnames, stdoutBuffers, channel, sock, pc,
                 locals, connRef, reply, agents>>

UnregisterHost(r) ==
  /\ reqPc[r] = "unregHost"
  /\ taskHostnames' = [taskHostnames EXCEPT ![TaskOf[r]] = None]
  /\ RequestGoto(r, "unregStdout")
  /\ UNCHANGED <<registry, pendingTasks, stdoutBuffers, channel, sock, pc,
                 locals, connRef, reply, agents>>

UnregisterStdout(r) ==
  /\ reqPc[r] = "unregStdout"
  /\ stdoutBuffers' = [stdoutBuffers EXCEPT ![TaskOf[r]] = 0]
  /\ RequestGoto(r, "done")
  /\ UNCHANGED <<registry, pendingTasks, taskHostnames, channel, sock, pc,
                 locals, connRef, reply, agents>>

-----------------------------------------------------------------------------
(* The agent and the network.                                              *)

\* A stdout message, as the protocol allows (the agent's v1 sends none).
AgentStdout(c, r) ==
  /\ r \in toAgent[c]
  /\ sock[c] = "open"
  /\ chunks[r] < MaxChunks
  /\ chunks' = [chunks EXCEPT ![r] = @ + 1]
  /\ fromAgent' = [fromAgent EXCEPT
       ![c] = Append(@, [kind |-> "stdout", req |-> r, stdout |-> 0])]
  /\ UNCHANGED <<registry, futures, sock, pc, locals, requests, toAgent, verdict>>

\* The agent is done with a task.  Whether it ran the command, refused it
\* (agent_busy, expired, not started) or failed in a transfer, it sends a message
\* of type "result" on the connection the task came in by; if that is gone the
\* message is lost.  Output already streamed may be left out.
AgentResult(c, r) ==
  /\ r \in toAgent[c]
  /\ toAgent' = [toAgent EXCEPT ![c] = @ \ {r}]
  /\ \E v \in Verdicts :
       /\ v # "ran" => chunks[r] = 0
       /\ verdict' = [verdict EXCEPT ![r] = v]
  /\ IF sock[c] = "open"
     THEN \E n \in {0, chunks[r]} :
            fromAgent' = [fromAgent EXCEPT
              ![c] = Append(@, [kind |-> "result", req |-> r, stdout |-> n])]
     ELSE UNCHANGED fromAgent
  /\ UNCHANGED <<registry, futures, sock, pc, locals, requests, chunks>>

\* The agent closes, crashes, or the network is cut.
AgentLost(c) ==
  /\ sock[c] = "open"
  /\ sock' = [sock EXCEPT ![c] = "lost"]
  /\ UNCHANGED <<registry, futures, pc, locals, requests, agents>>

-----------------------------------------------------------------------------
ReadLoop(c) == HandleStdout(c) \/ HandleResult(c) \/ ReadError(c)

Resolve(p) == SnapshotTasks(p) \/ EndResolve(p) \/ \E t \in Tasks : NextTask(p, t)

Settle(p) ==
  LookupFuture(p) \/ Deliver(p) \/ DeletePending(p) \/ DeleteStdout(p) \/ DeleteHost(p)

UnregisterFuture(r) == UnregisterPending(r) \/ UnregisterHost(r) \/ UnregisterStdout(r)

ConnStep(c) == RegisterConnection(c) \/ ReadLoop(c) \/ UnregisterConnection(c)

RequestStep(r) ==
  RegisterFuture(r) \/ GetConnection(r) \/ SendToAgent(r) \/ ReceiveResult(r)
    \/ UnregisterFuture(r)

\* Every goroutine has returned: the only state in which nothing is left to do.
Finished ==
  /\ \A p \in Servers : pc[p] = "done"
  /\ \A r \in Reqs : reqPc[r] = "done"
  /\ UNCHANGED vars

Next ==
  \/ \E c \in Conns : Upgrade(c) \/ ConnStep(c) \/ AgentLost(c)
  \/ \E a \in Closers : CloseAgent(a) \/ CloseSocket(a)
  \/ \E p \in Servers : Resolve(p) \/ Settle(p)
  \/ \E r \in Reqs : CheckAgentOnline(r) \/ RequestStep(r) \/ Timeout(r)
  \/ \E c \in Conns, r \in Reqs : AgentStdout(c, r) \/ AgentResult(c, r)
  \/ Finished

Spec == Init /\ [][Next]_vars

(***************************************************************************)
(* The Go scheduler runs every goroutine that can run.  A lost connection  *)
(* is noticed (TCP keep-alive is on for accepted sockets), so ReadError is *)
(* among the fair steps; nothing is assumed of agents, clients or admins,  *)
(* nor, in this formula, of the timer of WaitForResult.                    *)
(***************************************************************************)
Scheduler ==
  /\ \A c \in Conns : WF_vars(ConnStep(c))
  /\ \A a \in Closers : WF_vars(CloseSocket(a))
  /\ \A p \in Servers : WF_vars(Resolve(p) \/ Settle(p))
  /\ \A r \in Reqs : WF_vars(RequestStep(r))

SchedulerSpec == Spec /\ Scheduler

\* The timer of WaitForResult fires in the end.
Timers == \A r \in Reqs : WF_vars(Timeout(r))
=============================================================================
