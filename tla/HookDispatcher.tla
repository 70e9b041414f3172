---------------------------- MODULE HookDispatcher ----------------------------
(***************************************************************************)
(* The event hooks of secagent-server: internal/hooks (dispatcher.go,      *)
(* executor.go, config.go), the rows of action_log, and the SIGHUP         *)
(* goroutine of main.go.                                                   *)
(*                                                                         *)
(* Goroutines: whoever calls Dispatch for an event (for host.up and        *)
(* host.down a goroutine of its own, started by the connection handler);   *)
(* one consumer of the queue; one per action of an event; one that reloads *)
(* the configuration.  Templates, headers and signatures are left out: an  *)
(* action is its type and its number of retries.  webhook and api share    *)
(* their loop and are "http" here, shell and file are what they are.       *)
(***************************************************************************)
EXTENDS Integers, Sequences, FiniteSetsExt

CONSTANTS
  Events,     \* occurrences of events
  Kinds,      \* host.new, host.up, ...
  KindOf,     \* kind of every event
  Configs,    \* contents of hooks.json that parse
  Hooks,      \* the HookDefs of every content
  NoConfig,   \* nil *HooksConfig, and a hooks.json that does not exist
  Invalid,    \* a hooks.json that does not parse
  None,       \* no event
  QueueSize,  \* capacity of the queue: 1000 in main.go
  Edits,      \* bound: contents of hooks.json over the run, in order
  MaxActions, \* bound: actions of a HookDef
  LogFails    \* bound: whether writes of action_log may fail

ActionDefs == [type: {"http", "shell", "file", "unknown"}, maxRetries: Int]

ASSUME HookAssumption ==
  /\ KindOf \in [Events -> Kinds]
  /\ Hooks \in [Configs -> Seq([event: Kinds, actions: Seq(ActionDefs)])]
  /\ \A c \in Configs : \A i \in DOMAIN Hooks[c] : Len(Hooks[c][i].actions) <= MaxActions
  /\ NoConfig \notin Configs
  /\ Invalid \notin Configs \cup {NoConfig}
  /\ None \notin Events
  /\ Edits \in Seq(Configs \cup {NoConfig, Invalid}) /\ Edits # <<>>
  /\ QueueSize \in Nat \ {0}
  /\ MaxActions \in Nat
  /\ LogFails \in BOOLEAN

VARIABLES
  evPc,     \* Events -> where the event is
  queue,    \* Dispatcher.queue
  consumer, \* control point of the goroutine of Start
  job,      \* the event it took, or None
  cfg,      \* the configuration it read for that event
  next,     \* index of the action to launch
  config,   \* Dispatcher.config
  edit,     \* index in Edits of what is on disk
  sighup,   \* a signal waits in sighupChan, of capacity 1
  reload,   \* control point of the SIGHUP goroutine
  loaded,   \* what it read
  stopping, \* dispatchCtx is cancelled: main is returning
  actPc,    \* Runs -> control point of the goroutine of an action
  action,   \* Runs -> its ActionDef
  tries,    \* Runs -> outcome of every attempt, while the goroutine runs
  row,      \* Runs -> its row of action_log
  inForce,  \* history: Events -> configurations in force since Dispatch
  signalled \* history: SIGHUP was sent, or the server started, after the last edit

Runs == Events \X (1..MaxActions)

events    == <<evPc, queue>>
consuming == <<consumer, job, cfg, next>>
reloading == <<config, edit, sighup, reload, loaded, signalled>>
running   == <<actPc, action, tries, row>>
vars == <<events, consuming, reloading, stopping, running, inForce>>

NoAction == [type |-> "none", maxRetries |-> 0]
Versions == Configs \cup {NoConfig}

TypeOK ==
  /\ evPc \in [Events -> {"idle", "calling", "queued", "taken", "launched", "dropped"}]
  /\ queue \in Seq(Events)
  /\ Len(queue) <= QueueSize
  /\ consumer \in {"select", "read", "launch", "stopped"}
  /\ job \in Events \cup {None}
  /\ consumer \in {"read", "launch"} => job \in Events
  /\ cfg \in Versions
  /\ next \in 1..MaxActions+1
  /\ config \in Versions
  /\ edit \in DOMAIN Edits
  /\ sighup \in BOOLEAN
  /\ reload \in {"wait", "set"}
  /\ loaded \in Versions \cup {Invalid}
  /\ stopping \in BOOLEAN
  /\ actPc \in [Runs -> {"none", "attempt", "stuck", "backoff", "log", "done"}]
  /\ action \in [Runs -> ActionDefs \cup {NoAction}]
  /\ tries \in [Runs -> Seq({"ok", "4xx", "error"})]
  /\ row \in [Runs -> {"none", "success", "failure"}]
  /\ inForce \in [Events -> SUBSET Versions]
  /\ signalled \in BOOLEAN

\* hooks.json on disk.
file == Edits[edit]

\* main: the first load, where a file that does not parse leaves no hook.
Init ==
  /\ evPc = [e \in Events |-> "idle"]
  /\ queue = <<>>
  /\ consumer = "select"
  /\ job = None
  /\ cfg = NoConfig
  /\ next = 1
  /\ edit = 1
  /\ config = IF file = Invalid THEN NoConfig ELSE file
  /\ sighup = FALSE
  /\ reload = "wait"
  /\ loaded = NoConfig
  /\ stopping = FALSE
  /\ actPc = [r \in Runs |-> "none"]
  /\ action = [r \in Runs |-> NoAction]
  /\ tries = [r \in Runs |-> <<>>]
  /\ row = [r \in Runs |-> "none"]
  /\ inForce = [e \in Events |-> {}]
  /\ signalled = TRUE

-----------------------------------------------------------------------------
(* Dispatch                                                                *)

\* A host enrols, connects, leaves, is revoked or deleted.
Emit(e) ==
  /\ evPc[e] = "idle"
  /\ evPc' = [evPc EXCEPT ![e] = "calling"]
  /\ UNCHANGED <<queue, consuming, reloading, stopping, running, inForce>>

\* Mutant: one place too many.
Dispatch_OneMore(e) ==
  /\ evPc[e] = "calling"
  /\ Len(queue) <= QueueSize
  /\ queue' = Append(queue, e)
  /\ evPc' = [evPc EXCEPT ![e] = "queued"]
  /\ inForce' = [inForce EXCEPT ![e] = {config}]
  /\ UNCHANGED <<consuming, reloading, stopping, running>>

\* Never blocks: a full queue drops the event.
Dispatch(e) ==
  /\ evPc[e] = "calling"
  /\ \/ /\ Len(queue) < QueueSize
        /\ queue' = Append(queue, e)
        /\ evPc' = [evPc EXCEPT ![e] = "queued"]
        /\ inForce' = [inForce EXCEPT ![e] = {config}]
     \/ /\ Len(queue) = QueueSize
        /\ evPc' = [evPc EXCEPT ![e] = "dropped"]
        /\ UNCHANGED <<queue, inForce>>
  /\ UNCHANGED <<consuming, reloading, stopping, running>>

-----------------------------------------------------------------------------
(* The consumer: Start, processJob                                         *)

Take ==
  /\ consumer = "select"
  /\ queue # <<>>
  /\ job' = Head(queue)
  /\ queue' = Tail(queue)
  /\ evPc' = [evPc EXCEPT ![job'] = "taken"]
  /\ consumer' = "read"
  /\ UNCHANGED <<cfg, next, reloading, stopping, running, inForce>>

\* With events left in the queue, select takes either branch.
StopConsumer ==
  /\ consumer = "select"
  /\ stopping
  /\ consumer' = "stopped"
  /\ UNCHANGED <<events, job, cfg, next, reloading, stopping, running, inForce>>

\* The pointer is read under d.mu; the configuration it designates is never
\* modified.
ReadConfig ==
  /\ consumer = "read"
  /\ cfg' = config
  /\ next' = 1
  /\ consumer' = "launch"
  /\ UNCHANGED <<events, job, reloading, stopping, running, inForce>>

\* The actions of the first HookDef for that kind of event, if any.
ActionsFor(c, kind) ==
  LET defs     == IF c = NoConfig THEN <<>> ELSE Hooks[c]
      matching == {i \in DOMAIN defs : defs[i].event = kind}
  IN  IF matching = {} THEN <<>> ELSE defs[Min(matching)].actions

LaunchFrom(c) ==
  LET todo == ActionsFor(c, KindOf[job])
      r    == <<job, next>>
  IN  /\ consumer = "launch"
      /\ next <= Len(todo)
      /\ action' = [action EXCEPT ![r] = todo[next]]
      /\ actPc' = [actPc EXCEPT ![r] = IF todo[next].type = "unknown" THEN "done" ELSE "attempt"]
      /\ next' = next + 1
      /\ UNCHANGED <<events, consumer, job, cfg, reloading, stopping, tries, row, inForce>>

\* Mutant: every turn of the loop reads d.config again.
Launch_Rereads == LaunchFrom(config)

\* One turn of the loop over the actions: an unknown type is only logged.
Launch == LaunchFrom(cfg)

EndJobAt(label) ==
  /\ consumer = "launch"
  /\ next > Len(ActionsFor(cfg, KindOf[job]))
  /\ evPc' = [evPc EXCEPT ![job] = "launched"]
  /\ inForce' = [inForce EXCEPT ![job] = {}]
  /\ consumer' = label
  /\ job' = None
  /\ cfg' = NoConfig
  /\ next' = 1
  /\ UNCHANGED <<queue, reloading, stopping, running>>

\* Mutant: without a configuration, the goroutine itself returns.
EndJob_Returns == EndJobAt(IF cfg = NoConfig THEN "stopped" ELSE "select")

\* processJob returns to the loop of Start.
EndJob == EndJobAt("select")

-----------------------------------------------------------------------------
(* executeAction and the executors                                         *)

\* Attempts an executor makes before it gives up.
Attempts(def) ==
  IF def.type = "http" /\ def.maxRetries > 0 THEN def.maxRetries + 1 ELSE 1

GoOn(r, label) == actPc' = [actPc EXCEPT ![r] = label]

\* Mutant: a 4xx is retried as any other failure.
AfterAttempt_Retries4xx(r, result) ==
  IF result # "ok" /\ Len(tries[r]) + 1 < Attempts(action[r]) THEN "backoff" ELSE "log"

\* Only a network error or a status that is neither 2xx nor 4xx is retried.
AfterAttempt(r, result) ==
  IF result = "error" /\ Len(tries[r]) + 1 < Attempts(action[r]) THEN "backoff" ELSE "log"

\* One request, which its timeout ends at the latest, one file write, or one
\* command.
Attempt(r) ==
  /\ actPc[r] = "attempt"
  /\ \E result \in {"ok", "4xx", "error"} :
       /\ result = "4xx" => action[r].type = "http"
       /\ tries' = [tries EXCEPT ![r] = Append(@, result)]
       /\ GoOn(r, AfterAttempt(r, result))
  /\ UNCHANGED <<events, consuming, reloading, stopping, action, row, inForce>>

\* cmd.Run does not return while a descendant of the command keeps the pipe of
\* its standard error open, whether the command has been killed or has ended.
ShellStuck(r) ==
  /\ actPc[r] = "attempt"
  /\ action[r].type = "shell"
  /\ GoOn(r, "stuck")
  /\ UNCHANGED <<events, consuming, reloading, stopping, action, tries, row, inForce>>

\* Killed, or failed; Wait returns nil if the command had ended well by itself.
ShellReleased(r) ==
  /\ actPc[r] = "stuck"
  /\ \E result \in {"ok", "error"} : tries' = [tries EXCEPT ![r] = Append(@, result)]
  /\ GoOn(r, "log")
  /\ UNCHANGED <<events, consuming, reloading, stopping, action, row, inForce>>

\* time.After, or ctx.Done: "context cancelled".
BackoffOver(r) ==
  /\ actPc[r] = "backoff"
  /\ \/ GoOn(r, "attempt")
     \/ stopping /\ GoOn(r, "log")
  /\ UNCHANGED <<events, consuming, reloading, stopping, action, tries, row, inForce>>

Succeeded(r) == tries[r][Len(tries[r])] = "ok"

Write(r, success) ==
  row' = [row EXCEPT ![r] = IF success THEN "success" ELSE "failure"]

EndAction(r) ==
  /\ GoOn(r, "done")
  /\ tries' = [tries EXCEPT ![r] = <<>>]
  /\ UNCHANGED <<events, consuming, reloading, stopping, action, inForce>>

\* The insertion fails on a cancelled context; its error is only logged.
CreateActionLog(r) ==
  /\ actPc[r] = "log"
  /\ \/ ~stopping /\ Write(r, Succeeded(r))
     \/ (stopping \/ LogFails) /\ UNCHANGED row
  /\ EndAction(r)

-----------------------------------------------------------------------------
(* SIGHUP: LoadConfig, SetConfig                                           *)

EditFile ==
  /\ edit < Len(Edits)
  /\ edit' = edit + 1
  /\ signalled' = FALSE
  /\ UNCHANGED <<events, consuming, config, sighup, reload, loaded, stopping, running, inForce>>

\* Mutant: without its buffer, the channel refuses a signal during a reload.
Sighup_Unbuffered ==
  /\ sighup' = (reload = "wait")
  /\ signalled' = TRUE
  /\ UNCHANGED <<events, consuming, config, edit, reload, loaded, stopping, running, inForce>>

\* A signal that finds another waiting is the same signal.
Sighup ==
  /\ sighup' = TRUE
  /\ signalled' = TRUE
  /\ UNCHANGED <<events, consuming, config, edit, reload, loaded, stopping, running, inForce>>

LoadConfig ==
  /\ reload = "wait"
  /\ sighup
  /\ sighup' = FALSE
  /\ loaded' = file
  /\ reload' = "set"
  /\ UNCHANGED <<events, consuming, config, edit, signalled, stopping, running, inForce>>

\* A file that does not parse leaves the configuration as it is; one that is
\* not there clears it.
SetConfig ==
  /\ reload = "set"
  /\ config' = IF loaded = Invalid THEN config ELSE loaded
  /\ reload' = "wait"
  /\ loaded' = NoConfig
  /\ inForce' = [e \in Events |->
       IF evPc[e] = "queued" \/ (evPc[e] = "taken" /\ consumer = "read")
       THEN inForce[e] \cup {config'} ELSE inForce[e]]
  /\ UNCHANGED <<events, consuming, edit, sighup, signalled, stopping, running>>

Shutdown ==
  /\ stopping' = TRUE
  /\ UNCHANGED <<events, consuming, reloading, running, inForce>>

-----------------------------------------------------------------------------
Consume == Take \/ StopConsumer \/ ReadConfig \/ Launch \/ EndJob

ActionStep(r) == Attempt(r) \/ BackoffOver(r) \/ CreateActionLog(r)

Reload == LoadConfig \/ SetConfig

Next ==
  \/ \E e \in Events : Emit(e) \/ Dispatch(e)
  \/ Consume
  \/ \E r \in Runs : ActionStep(r) \/ ShellStuck(r) \/ ShellReleased(r)
  \/ EditFile \/ Sighup \/ Reload \/ Shutdown

Spec == Init /\ [][Next]_vars

\* Goroutines run, requests and commands have timeouts; nothing is assumed of
\* the descendants of a shell command.
FairSpec ==
  /\ Spec
  /\ \A e \in Events : WF_vars(Dispatch(e))
  /\ WF_vars(Consume)
  /\ WF_vars(Reload)
  /\ \A r \in Runs : WF_vars(ActionStep(r))

-----------------------------------------------------------------------------
(* Properties                                                              *)

\* The actions launched for an event are those of one HookDef, in order and
\* without omission, of a configuration that was in force at some time between
\* Dispatch and their launch, whatever reloads come between two launches.
Launched(e) == {i \in 1..MaxActions : actPc[<<e, i>>] # "none"}

Follows(e, c) ==
  \A i \in Launched(e) :
    i <= Len(ActionsFor(c, KindOf[e])) /\ action[<<e, i>>] = ActionsFor(c, KindOf[e])[i]

HookOfItsTime ==
  \A e \in Events :
    /\ evPc[e] = "taken" => \E c \in inForce[e] : Follows(e, c)
    /\ evPc[e] = "launched" =>
         \E c \in Versions :
           Follows(e, c) /\ Launched(e) = DOMAIN ActionsFor(c, KindOf[e])

\* The row of an action says how its last attempt ended; there is no other
\* attempt after a success or a 4xx, at most 1 + max_retries of them, and
\* fewer only for those reasons or at the end of the server.
RowTellsAttempts ==
  [][\A r \in Runs : actPc[r] = "log" /\ actPc'[r] = "done" =>
       /\ row'[r] = "success" => Succeeded(r)
       /\ row'[r] = "failure" => ~Succeeded(r)
       /\ \A i \in 1..Len(tries[r])-1 : tries[r][i] = "error"
       /\ Len(tries[r]) <= Attempts(action[r])
       /\ ~stopping /\ tries[r][Len(tries[r])] = "error"
            => Len(tries[r]) = Attempts(action[r])]_vars

\* Every event is dropped at once or launched, and every action of it ends,
\* however slow the others are: only a shell whose descendants keep its
\* standard error, or the end of the server, prevents it.
Ended(r) == actPc[r] \in {"none", "done", "stuck"}

EveryEventEnds ==
  \A e \in Events :
    evPc[e] = "calling" ~>
      \/ stopping
      \/ evPc[e] = "dropped"
      \/ evPc[e] = "launched" /\ \A i \in 1..MaxActions : Ended(<<e, i>>)

\* A SIGHUP sent after the last edit of the file is not lost, though it came
\* during the reload of an earlier content: when nothing is pending, what is in
\* force is what the file says, if it parses.
SighupTakesEffect ==
  signalled /\ ~sighup /\ reload = "wait" /\ file # Invalid => config = file
=============================================================================
