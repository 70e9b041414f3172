--------------------------- MODULE AgentDispatcher ---------------------------
(***************************************************************************)
(* The agent, secagent-minion: internal/ws/dispatcher.go (Run, connect,    *)
(* the semaphore, the cancel functions, re-enrolment after a 401), the     *)
(* message handlers of main.go and internal/executor/executor.go.          *)
(*                                                                         *)
(* Run is one goroutine: it dials, reads messages, and backs off.  Every   *)
(* exec message accepted gets a goroutine with a slot of the semaphore of  *)
(* its connection; put_file and fetch_file get one without a slot.  When   *)
(* Run returns, main returns: every goroutine is gone ("stopped").         *)
(*                                                                         *)
(* A message is taken off the socket by the step that handles it: whatever *)
(* the server has sent, in any order, is what Read* may find.  The rekey   *)
(* message is in KeyRotation, the ack is only a message sent, unmarshalling*)
(* errors skip the message.                                                *)
(***************************************************************************)
EXTENDS Naturals, FiniteSets

CONSTANTS
  Execs,         \* exec messages of the server
  Transfers,     \* put_file and fetch_file messages
  TaskIds,       \* task_id strings
  TaskOf,        \* task_id of every exec message
  None,          \* absent
  MaxConcurrent, \* Dispatcher.maxConcurrent
  MaxRetries,    \* EnrollConfig.MaxRetries
  MaxConns       \* bound: connections over the whole run

Jobs == Execs \cup Transfers

ASSUME AgentAssumption ==
  /\ IsFiniteSet(Execs)
  /\ Execs \cap Transfers = {}
  /\ TaskOf \in [Execs -> TaskIds]
  /\ None \notin Execs
  /\ MaxConcurrent \in Nat \ {0}
  /\ MaxRetries \in Nat \ {0}
  /\ MaxConns \in Nat

VARIABLES
  run,       \* control point of Run
  conn,      \* number of connections made; the last is the current one
  sock,      \* the current socket, seen from the agent
  tries,     \* failed attempts of handleUnauthorized, while it runs
  jwtFile,   \* whether the token is on disk
  stopping,  \* ctx cancelled: SIGTERM or SIGINT
  sem,       \* slots in use, per connection
  tasks,     \* TaskIds -> exec message whose cancel function is registered
  found,     \* exec message whose cancel function cancelTask holds, or None
  asked,     \* history: exec messages for whose id a cancel came before their
             \* command ended, until they are answered
  pc,        \* Jobs -> control point of the goroutine of the message
  connOf,    \* Execs -> connection of the message, until its goroutine ends
  cancelled, \* exec messages whose taskCtx is cancelled, until their command ends
  late,      \* exec messages whose runCtx ended by its deadline, likewise
  ran,       \* jobs whose command or transfer was started
  outcome,   \* Jobs -> the result made
  answer     \* Jobs -> the result handed to send

loop     == <<run, conn, sock, tries, jwtFile, stopping>>
maps     == <<sem, tasks, found, asked>>
work     == <<pc, connOf, cancelled, late, ran, outcome, answer>>
vars     == <<loop, maps, work>>

Conns == 1..MaxConns

\* Results that say that nothing was done (expired, failed to start and the checks
\* of a transfer are "refused"), and those of what was run.  A transfer that fails
\* once it has begun ("broken") may have written all, part or nothing.
Refusals == {"busy", "refused"}
Endings  == {"result", "timeout", "cancelled"}
Outcomes == Refusals \cup Endings \cup {"broken"}

TypeOK ==
  /\ run \in {"dial", "serving", "backoff", "reenroll", "pause", "stopped"}
  /\ conn \in 0..MaxConns
  /\ run = "serving" => conn \in Conns
  /\ sock \in {"open", "lost", "revoked"}
  /\ tries \in 0..MaxRetries-1
  /\ jwtFile \in BOOLEAN
  /\ stopping \in BOOLEAN
  /\ sem \in [Conns -> 0..MaxConcurrent]
  /\ tasks \in [TaskIds -> Execs \cup {None}]
  /\ found \in Execs \cup {None}
  /\ asked \in SUBSET Execs
  /\ pc \in [Jobs -> {"idle", "start", "running", "killed", "reply",
                      "unregister", "release", "done"}]
  /\ connOf \in [Execs -> Conns \cup {0}]
  /\ \A e \in Execs : pc[e] \notin {"idle", "done"} => connOf[e] \in Conns
  /\ cancelled \in SUBSET Execs
  /\ late \in SUBSET Execs
  /\ ran \in SUBSET Jobs
  /\ outcome \in [Jobs -> Outcomes \cup {"none"}]
  /\ answer \in [Jobs -> Outcomes \cup {"none"}]

Init ==
  /\ run = "dial"
  /\ conn = 0
  /\ sock = "lost"
  /\ tries = 0
  /\ jwtFile = TRUE
  /\ stopping = FALSE
  /\ sem = [c \in Conns |-> 0]
  /\ tasks = [t \in TaskIds |-> None]
  /\ found = None
  /\ asked = {}
  /\ pc = [e \in Jobs |-> "idle"]
  /\ connOf = [e \in Execs |-> 0]
  /\ cancelled = {}
  /\ late = {}
  /\ ran = {}
  /\ outcome = [e \in Jobs |-> "none"]
  /\ answer = [e \in Jobs |-> "none"]

-----------------------------------------------------------------------------
(* Run: dialling, backing off, enrolling again                             *)

\* A wait of NextDelay, which grows with the attempts: how long is left out.
BackOff == run' = "backoff"

\* The handshake succeeds; the connection has its own semaphore.
Dial ==
  /\ run = "dial"
  /\ ~stopping
  /\ conn < MaxConns
  /\ run' = "serving"
  /\ conn' = conn + 1
  /\ sock' = "open"
  /\ UNCHANGED <<tries, jwtFile, stopping, maps, work>>

\* No network, a cancelled ctx, a status other than 401.
DialFails ==
  /\ run = "dial"
  /\ BackOff
  /\ UNCHANGED <<conn, sock, tries, jwtFile, stopping, maps, work>>

\* 401: handleUnauthorized removes the token before anything else.
Unauthorized ==
  /\ run = "dial"
  /\ ~stopping
  /\ run' = "reenroll"
  /\ jwtFile' = FALSE
  /\ UNCHANGED <<conn, sock, tries, stopping, maps, work>>

\* The new token is on disk, the backoff reset, and Run dials at once.
ReEnrolled ==
  /\ run = "reenroll"
  /\ ~stopping
  /\ run' = "dial"
  /\ jwtFile' = TRUE
  /\ tries' = 0
  /\ UNCHANGED <<conn, sock, stopping, maps, work>>

\* 403: no other attempt.
ReEnrollRefused ==
  /\ run = "reenroll"
  /\ ~stopping
  /\ run' = "stopped"
  /\ tries' = 0
  /\ UNCHANGED <<conn, sock, jwtFile, stopping, maps, work>>

\* Mutant: one attempt too many.
ReEnrollFails_OneMore ==
  /\ run = "reenroll"
  /\ IF tries < MaxRetries
     THEN run' = "pause" /\ tries' = tries + 1
     ELSE run' = "stopped" /\ tries' = 0
  /\ UNCHANGED <<conn, sock, jwtFile, stopping, maps, work>>

ReEnrollFails ==
  /\ run = "reenroll"
  /\ IF tries + 1 < MaxRetries
     THEN run' = "pause" /\ tries' = tries + 1
     ELSE run' = "stopped" /\ tries' = 0
  /\ UNCHANGED <<conn, sock, jwtFile, stopping, maps, work>>

\* The two selects on time.After, seconds away, and ctx.Done.
WaitOver ==
  /\ \/ run = "backoff" /\ ~stopping /\ run' = "dial"
     \/ run = "pause" /\ ~stopping /\ run' = "reenroll"
     \/ run \in {"backoff", "pause"} /\ stopping /\ run' = "stopped"
  /\ tries' = IF run = "pause" /\ ~stopping THEN tries ELSE 0
  /\ UNCHANGED <<conn, sock, jwtFile, stopping, maps, work>>

\* The read loop is at ReadMessage.
Reading == run = "serving" /\ found = None

\* Mutant: the close code is not looked at.
ReadError_AnyCode ==
  /\ Reading
  /\ sock # "open"
  /\ BackOff
  /\ UNCHANGED <<conn, sock, tries, jwtFile, stopping, maps, work>>

\* ReadMessage fails: close code 4001 ends Run, anything else backs off.
ReadError ==
  /\ Reading
  /\ \/ sock = "revoked" /\ run' = "stopped"
     \/ sock = "lost" /\ BackOff
  /\ UNCHANGED <<conn, sock, tries, jwtFile, stopping, maps, work>>

-----------------------------------------------------------------------------
(* connect: one message                                                    *)

Goto(e, label) == pc' = [pc EXCEPT ![e] = label]

Receive(e) ==
  /\ Reading
  /\ pc[e] = "idle"

\* A slot is free: the cancel function is registered and a goroutine started.
\* The context of the task is cancelled already if ctx is.
ReadExec(e) ==
  /\ Receive(e)
  /\ sem[conn] < MaxConcurrent
  /\ sem' = [sem EXCEPT ![conn] = @ + 1]
  /\ tasks' = [tasks EXCEPT ![TaskOf[e]] = e]
  /\ cancelled' = IF stopping THEN cancelled \cup {e} ELSE cancelled
  /\ connOf' = [connOf EXCEPT ![e] = conn]
  /\ Goto(e, "start")
  /\ UNCHANGED <<loop, found, asked, late, ran, outcome, answer>>

\* Mutant: agent_busy is answered, and the command run all the same.
ReadBusy_Runs(e) ==
  /\ Receive(e)
  /\ sem[conn] = MaxConcurrent
  /\ outcome' = [outcome EXCEPT ![e] = "busy"]
  /\ answer' = [answer EXCEPT ![e] = "busy"]
  /\ connOf' = [connOf EXCEPT ![e] = conn]
  /\ Goto(e, "start")
  /\ UNCHANGED <<loop, maps, cancelled, late, ran>>

\* No slot: agent_busy, from the read loop itself.
ReadBusy(e) ==
  /\ Receive(e)
  /\ sem[conn] = MaxConcurrent
  /\ outcome' = [outcome EXCEPT ![e] = "busy"]
  /\ answer' = [answer EXCEPT ![e] = "busy"]
  /\ Goto(e, "done")
  /\ UNCHANGED <<loop, maps, connOf, cancelled, late, ran>>

\* put_file, fetch_file: a goroutine, no slot, no cancel function.
ReadTransfer(e) ==
  /\ Receive(e)
  /\ Goto(e, "start")
  /\ UNCHANGED <<loop, maps, connOf, cancelled, late, ran, outcome, answer>>

Unfinished(e) == pc[e] \in {"start", "running", "killed"}

\* Mutant: the cancel function is that of the parent context.
CallCancel_OfParent ==
  /\ found # None
  /\ cancelled' = cancelled \cup {e \in Execs : Unfinished(e)}
  /\ found' = None
  /\ UNCHANGED <<loop, sem, tasks, asked, pc, connOf, late, ran, outcome, answer>>

\* cancelTask, under the lock: the cancel function is looked up by task id,
\* whatever the connection the task came by; an id that is not there has none.
ReadCancel(t) ==
  /\ Reading
  /\ found' = tasks[t]
  /\ asked' = asked \cup {e \in Execs : TaskOf[e] = t /\ Unfinished(e)}
  /\ UNCHANGED <<loop, sem, tasks, work>>

\* ... and called after the unlock: in vain if the command has ended by then.
CallCancel ==
  /\ found # None
  /\ cancelled' = IF Unfinished(found) THEN cancelled \cup {found} ELSE cancelled
  /\ found' = None
  /\ UNCHANGED <<loop, sem, tasks, asked, pc, connOf, late, ran, outcome, answer>>

-----------------------------------------------------------------------------
(* The goroutine of a message                                              *)

Alive == run # "stopped"

End(e, kind) ==
  /\ outcome' = [outcome EXCEPT ![e] = kind]
  /\ Goto(e, "reply")

\* The command is over, or was not started: its contexts are garbage.
EndCommand(e, kind) ==
  /\ End(e, kind)
  /\ cancelled' = cancelled \ {e}
  /\ late' = late \ {e}

\* Executor.Run up to cmd.Start, which refuses a cancelled context: the message
\* has expired, or the command does not start.
StartCommand(e) ==
  /\ Alive
  /\ pc[e] = "start"
  /\ \/ /\ EndCommand(e, "refused")
        /\ UNCHANGED ran
     \/ /\ e \notin cancelled
        /\ ran' = ran \cup {e}
        /\ Goto(e, "running")
        /\ UNCHANGED <<cancelled, late, outcome>>
  /\ UNCHANGED <<loop, maps, connOf, answer>>

\* files.PutFile or FetchFile: done; refused for its path, its encoding or its
\* size; or failed after that, with or without a trace on the disk.
Transfer(e) ==
  /\ Alive
  /\ pc[e] = "start"
  /\ \/ End(e, "result") /\ ran' = ran \cup {e}
     \/ End(e, "refused") /\ UNCHANGED ran
     \/ End(e, "broken") /\ ran' \in {ran, ran \cup {e}}
  /\ UNCHANGED <<loop, maps, connOf, cancelled, late, answer>>

\* runCtx reaches its timeout, unless it was cancelled before.
Deadline(e) ==
  /\ Alive
  /\ pc[e] = "running"
  /\ e \notin cancelled \cup late
  /\ late' = late \cup {e}
  /\ UNCHANGED <<loop, maps, pc, connOf, cancelled, ran, outcome, answer>>

\* Mutant: the command has no timeout of its own.
Kill_IfCancelled(e) ==
  /\ Alive
  /\ pc[e] = "running"
  /\ e \in cancelled
  /\ Goto(e, "killed")
  /\ UNCHANGED <<loop, maps, connOf, cancelled, late, ran, outcome, answer>>

\* os/exec kills /bin/sh.  Wait returns later, when whoever inherited the
\* output pipes has closed them.
Kill(e) ==
  /\ Alive
  /\ pc[e] = "running"
  /\ e \in cancelled \cup late
  /\ Goto(e, "killed")
  /\ UNCHANGED <<loop, maps, connOf, cancelled, late, ran, outcome, answer>>

\* What cmd.Wait's error is taken for.
WaitError(e) ==
  IF e \in late THEN "timeout" ELSE IF e \in cancelled THEN "cancelled" ELSE "result"

\* cmd.Wait returns: the command ended by itself, well or not, or was killed.
Wait(e) ==
  /\ Alive
  /\ \/ pc[e] = "running" /\ EndCommand(e, "result")
     \/ pc[e] \in {"running", "killed"} /\ EndCommand(e, WaitError(e))
  /\ UNCHANGED <<loop, maps, connOf, ran, answer>>

\* The goroutine is over: its connection is garbage.
Over(e) ==
  /\ Goto(e, "done")
  /\ connOf' = [connOf EXCEPT ![e] = 0]

\* send, on the connection the message came by: in vain if that is gone.
Send(e) ==
  /\ Alive
  /\ pc[e] = "reply"
  /\ answer' = [answer EXCEPT ![e] = outcome[e]]

Reply(e) ==
  /\ Send(e)
  /\ Goto(e, "unregister")
  /\ asked' = asked \ {e}
  /\ UNCHANGED <<loop, sem, tasks, found, connOf, cancelled, late, ran, outcome>>

ReplyTransfer(e) ==
  /\ Send(e)
  /\ Goto(e, "done")
  /\ UNCHANGED <<loop, maps, connOf, cancelled, late, ran, outcome>>

\* Mutant: the entry stays.
UnregisterTask_Keeps(e) ==
  /\ Alive
  /\ pc[e] = "unregister"
  /\ Goto(e, "release")
  /\ UNCHANGED <<loop, maps, connOf, cancelled, late, ran, outcome, answer>>

\* The deferred calls: unregisterTask, by task id, then the slot.
UnregisterTask(e) ==
  /\ Alive
  /\ pc[e] = "unregister"
  /\ tasks' = [tasks EXCEPT ![TaskOf[e]] = None]
  /\ Goto(e, "release")
  /\ UNCHANGED <<loop, sem, found, asked, connOf, cancelled, late, ran, outcome, answer>>

\* Mutant: the slot is given back to the current connection.
ReleaseSlot_OfCurrent(e) ==
  /\ Alive
  /\ pc[e] = "release"
  /\ sem[conn] > 0
  /\ sem' = [sem EXCEPT ![conn] = @ - 1]
  /\ Over(e)
  /\ UNCHANGED <<loop, tasks, found, asked, cancelled, late, ran, outcome, answer>>

ReleaseSlot(e) ==
  /\ Alive
  /\ pc[e] = "release"
  /\ sem' = [sem EXCEPT ![connOf[e]] = @ - 1]
  /\ Over(e)
  /\ UNCHANGED <<loop, tasks, found, asked, cancelled, late, ran, outcome, answer>>

-----------------------------------------------------------------------------
(* The network, the server and the operator                                *)

Lose ==
  /\ Alive
  /\ sock = "open"
  /\ sock' \in {"lost", "revoked"}
  /\ UNCHANGED <<run, conn, tries, jwtFile, stopping, maps, work>>

\* ctx is done, and with it the context of every task.
Terminate ==
  /\ Alive
  /\ ~stopping
  /\ stopping' = TRUE
  /\ cancelled' = cancelled \cup {e \in Execs : Unfinished(e)}
  /\ UNCHANGED <<run, conn, sock, tries, jwtFile, maps, pc, connOf, late,
                 ran, outcome, answer>>

-----------------------------------------------------------------------------
RunStep ==
  \/ Dial \/ DialFails \/ Unauthorized
  \/ ReEnrolled \/ ReEnrollRefused \/ ReEnrollFails
  \/ WaitOver \/ ReadError \/ CallCancel

Read ==
  \/ \E e \in Execs : ReadExec(e) \/ ReadBusy(e)
  \/ \E e \in Transfers : ReadTransfer(e)
  \/ \E t \in TaskIds : ReadCancel(t)

\* What the goroutine of an exec message does of itself or by its timer.
ExecStep(e) ==
  \/ StartCommand(e) \/ Deadline(e) \/ Kill(e)
  \/ Reply(e) \/ UnregisterTask(e) \/ ReleaseSlot(e)

TransferStep(e) == Transfer(e) \/ ReplyTransfer(e)

Next ==
  \/ RunStep \/ Read \/ Lose \/ Terminate
  \/ \E e \in Execs : ExecStep(e) \/ Wait(e)
  \/ \E e \in Transfers : TransferStep(e)

Spec == Init /\ [][Next]_vars

\* Goroutines run and timers fire.  Nothing is assumed of the commands, nor
\* of the descendants that keep the output of a killed command open.
FairSpec ==
  /\ Spec
  /\ WF_vars(RunStep)
  /\ \A e \in Execs : WF_vars(ExecStep(e))
  /\ \A e \in Transfers : WF_vars(TransferStep(e))
=============================================================================
