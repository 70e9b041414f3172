# Ansible-SecAgent relay: specifications and proofs

This directory holds TLA+ models of the relay (`secagent-server`) and of its
agent (`secagent-minion`), the TLC configurations that check them on small
instances, and TLAPS proofs of their main invariants for every value of the
constants. All definitions are translated from the Go sources; the documents in
`src/DOC` appear only where a model shows that the code does something else.

Contents: 1. the system — 2. how the modules are organised — 3. each component
(model, properties, bounds, fairness, proofs) — 4. runs — 5. theorems — 6. where
code and documents disagree — 7. what is only model-checked, what is not
modelled — 8. plan — 9. how to run.

Paths below are relative to `src/GO/cmd/secagent-server` (S:) and
`src/GO/cmd/secagent-minion` (M:).

## 1. The system

A server stands between an Ansible control node and agents that open one
outgoing WebSocket each. A plugin call (exec, upload, fetch) is a blocking HTTP
request; the server sends a task message over the agent's WebSocket, waits for
the result message, and answers. Administrators enrol, revoke and delete agents,
rotate keys, and configure hooks called when agents come and go.

```
 plugin --HTTP--> exec/upload/fetch --futures--> ws handler --WebSocket--> minion
 admin  --HTTP--> admin handlers    --CloseAgent-^   |                      |
                  security (rotation) --rekey--------+                      executor
 minion --HTTP--> register (challenge, JWT)          +--Dispatch--> hooks --> webhook,
                        |                                                    shell, file
                      store (SQLite: agents, tokens, server_config, action_log)
```

### Inventory

| Component | State | Operations | What is hard | What makes it correct |
|---|---|---|---|---|
| Task relay (S: `internal/ws/handler.go`, `internal/handlers/exec.go`) | registry of connections, pending futures, hosts of tasks, stdout buffers; three leaf locks and `connectionsMu` | `AgentHandler`, Register/Unregister, SendToAgent, WaitForResult, handleResult/Stdout, CloseAgent | goroutines per request and per connection over maps under separate locks; replacement of a stale WebSocket; timers against late results; two resolvers of one host | every request is answered once, with the result of its own command; a lost connection wakes its requests; nothing leaks |
| Key rotation (S: `internal/handlers/security.go`, `register.go`, `internal/ws/jwt.go`; M: rekey message) | JWT secrets, deadline and RSA key in memory and in `server_config` | AdminRotateKeys, RekeyAgent, dual-key check, load at start | swap in memory then five writes; agents connecting meanwhile; crash in between; two rotations | tokens promised to be accepted are accepted, across restarts; every agent gets a new token |
| Agent loop and executor (M: `internal/ws/dispatcher.go`, `internal/executor`, `main.go`) | socket, backoff, semaphore, cancel functions, processes | Run, connect, read loop, runTask, cancel, re-enrolment, SIGTERM | goroutines that outlive their connection; cancel against end against deadline; kill of a shell with descendants | one answer per message, slots and cancel functions returned, revocation final |
| Hooks (S: `internal/hooks`, `main.go`) | queue of 1000, configuration, rows of `action_log` | Dispatch, consumer, executor with retries, SIGHUP | reload between two actions; full queue; shutdown; descendants of a shell | an event is launched once, with one configuration; a reload is not lost; rows tell the truth |
| Enrolment, server (S: `register.go`, `store_enrollment_tokens.go`, `store.go`) | pending nonces (memory), tokens, authorized keys, agents (database) | RegisterAgent in two phases, legacy flow, AdminAuthorize | no transaction over three writes; client gone while the handler runs; one nonce per hostname; crash between phases | uses are counted, holders are on file, nobody is locked out |
| Enrolment, agent (M: `internal/enrollment`, `ws/enrollment_bridge.go`) | RSA key and JWT on disk | Enroll, ReEnroll | restart between the phases, a JWT written and lost | as above |
| Token refresh (S: `register.go`) | JTI of the row, JWT of the agent | TokenRefresh | races with a rekey, a registration or a revocation; an answer that is lost | the JTI on file is that of the JWT in use |
| Minion administration (S: `handlers/admin.go`) | agents rows, blacklist | revoke, suspend, resume, set-state, delete, variables, list | handlers of several statements over one row; a JTI read before another is written; a purge | each writer acts on the row as if alone; a revocation lists the JWT in use; a deletion is told once and seen |
| Token administration (S: `admin_tokens.go`, `plugin_auth.go`, `store_plugin_tokens.go`) | tokens | create, revoke, delete, purge, use | a check and an audit apart from the lookup, against revocation, deletion and expiry | a token useless on arrival lets nobody in and is not audited as used |
| JWT authentication (S: `internal/auth`, `ws/jwt.go`) | none | verify | the dual-key window | dual key in `KeyRotation` |
| Store (S: `internal/storage`) | SQLite tables | SQL under one mutex | two methods read a document and write it back; sequences of calls are not atomic | the agents table implements `AgentTable`; other rows appear with the handlers that use them |
| Async job registry (M: `internal/registry`) | jobs in memory and a JSON file | register, update, restore, kill expired | reuse of PIDs, a late update after a kill | planned; production code only restores it |
| NATS client (S: `internal/broker`) | connection | connect, health | nothing publishes or subscribes | planned last |
| Start and shutdown (S: `main.go`) | — | order of initialisation, listeners | the SIGHUP goroutine, end of the dispatcher | in `HookDispatcher`, `KeyRotation` |
| Inventory (S: `handlers/inventory.go`) | none | GetInventory, AdminGetInventory | the registry and the table are read at two moments | a deleted agent is in no later listing |
| Fact collection, CLI, encryption at rest, Ansible plugin, deployment | no state of their own | — | — | not modelled (section 7) |

`PROJECT.json` lists the same components with the files of each, and under
`hazards` every point of the code that a test would hardly reach.

## 2. Organisation

| Module | What it is |
|---|---|
| `TaskRelay` | the server's task path |
| `TaskRelayProperties` | its properties, the inductive invariants they rest on, the mapping to `TaskPromise` |
| `TaskRelayProofs` | theorems: types, registry, futures |
| `DisconnectProofs` | extends it: what the loss of a connection does to the requests of a host, to the registry and to `connectionsMu` |
| `PromiseProofs` | extends it: `TaskRelay` implements `TaskPromise`, answers are complete, and what is left when ids are shared |
| `TaskPromise` | abstract specification: what a relay of tasks promises; implemented by `TaskRelay` and by `AgentDispatcher` |
| `KeyRotation`, `KeyRotationProofs` | rotation of secrets across memory, database and agents |
| `AgentDispatcher`, `AgentProperties`, `AgentProofs` | the agent |
| `HookDispatcher`, `HookProofs` | hooks |
| `Enrollment`, `EnrollmentProofs` | enrolment |
| `PluginTokens` | plugin tokens, `requirePluginAuth`, and what all calls share: their control points, answers, `dbMu` |
| `MinionAdmin`, `MinionAdminProofs` | extends `PluginTokens`: the row of an agent under administration, JWT issue, revocation, listings |
| `AgentTable` | abstract specification of a row of `agents`; implemented by `MinionAdmin` |
| `MC*` | instances for TLC: operators for function-valued constants, symmetry sets |

The components meet at narrow interfaces, so each model has the others as an
environment that may do anything their code can do:

- `TaskRelay` has an agent that executes, streams, answers, or dies;
  `AgentDispatcher` has a server that sends any message at any time. Both
  implement the same `TaskPromise`, at the two ends of the WebSocket, under
  different answers (`Kinds`, `OfRun`, `NotRun`).
- `AgentDispatcher` has a server that may answer 401; `KeyRotation` says when it
  does. `Enrollment` is what a re-enrolment runs.
- `Enrollment` has rotations of the RSA key as an event; `KeyRotation` has
  enrolments as a read of the current secret.
- `MinionAdmin` has, of `Enrollment`, the upsert and the answer of a
  registration (the hostname's key, nonce and token are there), and of
  `TaskRelay` the presence of the host in the registry and the messages on their
  way; `TaskRelay` has the close of a connection by an administrator, which is
  what revoke and delete do to requests. exec, upload and fetch call
  `requirePluginAuth` first: `PluginTokens` models it, and a request of
  `TaskRelay` begins after it.
- `TaskRelay`, `MinionAdmin` and `Enrollment` call `Dispatch` (host.up, host.down,
  host.new, host.deleted, host.revoked); `HookDispatcher` receives events of any
  kind.

Conventions. `pc`, `reqPc`, `rotPc` ... are control points of goroutines; one
action is one critical section, or one access to a socket, the database or a
channel. `None` is nil or an absent entry. A comment `bound:` marks a constant
that exists for TLC only. A definition `X_Suffix` is a plausible mistake in
`X`: `PROJECT.json` says which property detects it.

## 3. The components

### 3.1 Task path of the server: `TaskRelay`

Code: S:`internal/ws/handler.go`, S:`internal/handlers/exec.go`.

State. `wsConnections`, `pendingTasks`, `taskHostnames` and `stdoutBuffers` are
the four package-level maps; `channel[r]` is the channel of capacity 1 that
request `r` waits on; `connectionsMu` is a variable because
`UnregisterConnection` keeps that lock while it resolves futures, whereas the
other three are held for one access and are folded into the step. `sock`,
`toAgent` and `fromAgent` are the WebSocket seen from both ends; `chunks` counts
the output the agent has streamed for a task, and `verdict` says what it made of
it: `ran`, `refused` (no slot free, expired) or `failed` (the command cannot be
started, the transfer breaks off). All three are sent as a message of type result,
so the caller gets a 200 for each of them.

Actions. An `AgentHandler` goes through `Upgrade`, `RegisterConnection`,
`HandleStdout` / `HandleResult` (the read loop), `ReadError`,
`UnregisterConnection` and the resolver (`SnapshotTasks`, `NextTask`,
`LookupFuture`, `Deliver`, `DeletePending`, `DeleteStdout`, `DeleteHost`,
`EndResolve`). The settling steps are shared with a result message and with
`CloseAgent`, as `handleResult` and `ResolveFuturesForHostname` repeat the same
accesses in the same order. A request goes through `CheckAgentOnline`,
`RegisterFuture`, `GetConnection`, `SendToAgent`, `ReceiveResult` or `Timeout`,
and the three deletions of `UnregisterFuture`, each under a lock of its own.

Properties (`TaskRelayProperties`).
- `NoZombieConnection`: the registry designates no connection whose cleanup has
  run.
- `NoLostFuture`, `NoLeakedFuture`: a request that waits can be reached, an
  answered one is forgotten.
- `NoStrandedRequest`: a request never waits on a connection whose cleanup has
  passed it by. This is the race of `GetConnection`, `SendToAgent` and
  `UnregisterConnection`.
- `AnswerIsOwn`: a 200 carries what an agent made of the caller's own task, a
  result or a refusal, with all the output streamed for it, up to the cap.
- `ErrorHasCause`: an error names what happened to the caller's own task on its own
  host.
- `KeepsPromise`: the relay implements `TaskPromise`. An answer of type result says
  that an agent is done with the task, not that the command ran; `agent_offline` and
  `send_failed` say that no agent got it; the other errors leave it open.
- `LossWakesRequest`, `DeadSocketIsReclaimed`, `EveryRequestIsAnswered`.

Fairness. `SchedulerSpec` says that the Go scheduler runs each goroutine that
can run, and no more: the step of an agent, a client or an administrator is
never owed. `ReadError` is included because Go's listener enables TCP keep-alive
on accepted sockets, so a dead peer is noticed. The timer of `WaitForResult` is
kept apart (`Timers`) so that `LossWakesRequest` cannot be won by waiting for
the timeout.

Bounds. Two requests and two connections of one host are what the race between
replacement, loss, result and timeout needs (a connection and its replacement, a
request sent on each): `relay_requests`, without streamed output and with one
verdict, as its properties do not tell apart what a result carries. What it carries
is the question of `relay_output`: two requests share a connection, so that an
answer may go to the wrong one, each streams up to two chunks for a buffer of one,
so that output is truncated, and the verdict is any. A second host and an admin
come in `relay_hosts`, where the two resolvers of one host run at the same time,
one of them outside `connectionsMu`, and streamed output meets the result, the
timeout and the loss of the connection.

Proof. None of the properties above is inductive. Five invariants of
`TaskRelayProperties` are, each under those before it, and `TaskRelayProofs`,
`DisconnectProofs` and `PromiseProofs` prove them in this order:

- `FutureInv`, for `NoLostFuture` and `NoLeakedFuture`: an entry of
  `pendingTasks` is the channel of a request with that id (`EntriesMatch`), an id
  occurs nowhere before its future is registered (`TracesBegun`), the goroutine
  about to deliver holds the channel of the task it settles (`DeliversOwn`),
  deletions follow the delivery (`DeliveredFirst`), and an entry nobody will wait
  on is about to be deleted (`FilledIsDeleted`).
- `StrandedInv`, for `NoStrandedRequest`. The property speaks of a request that
  waits; its proof has to begin when the request takes its connection
  (`SentIsReached`): that one is of its host and has its cleanup ahead, or is about
  to take its snapshot, or a resolver of the host has the task to settle
  (`Reached`). The snapshot finds the task because its future was registered first,
  with its hostname (`NoFutureIsLost`). `LoopHeld` says that whoever has tasks left
  to settle is a resolver in its loop. A connection may be absent from the registry
  with its cleanup ahead, replaced or removed by the cleanup of the one it replaced,
  which is why `Unregistered`, a control point, and not the registry decides.
- `ErrorInv`, for `ErrorHasCause`: what a resolver has ahead are tasks of its own
  host, and the error it carries names what it is (`ResolvesOwnHost`).
- `HonestInv`, for `KeepsPromise`: a result, in a socket, in a goroutine or in a
  channel, is that of a request an agent is done with (`HonestOutcomes`), and a
  request whose message reached the agent, or may still, is told neither
  `agent_offline` nor `send_failed` (`HonestRefusals`). Then every step of
  `TaskRelay` is a step of `TaskPromise` or leaves its variables alone.

- `OutputInv`, for `AnswerIsOwn`, follows the output of a request from the agent to
  the caller: task, output and result travel on one connection (`OneConnection`),
  nothing of a request follows its result there (`ResultIsLast`), and while a
  request waits its buffer holds, up to the cap, all that was streamed and is not
  still in the socket (`OutputIsKept`). What is in the socket is counted as the
  cardinality of the positions of its messages, so that a message taken from the
  head or put at the end changes it by one and no induction over the queue is needed.
  A result that is settled with the buffer is then complete
  (`ResultsAreComplete`).

These have `UniqueIds`, no two requests with one task id, as an explicit
hypothesis: the server makes UUIDs, but a caller may give a `task_id` of its own,
and then two requests share an entry. What does not need it:

- `TypeCorrect`, `RegistryIsLive`.
- `SharedIdsStayTogether`: with `SharedIdInv`, every message, entry, channel and
  answer belongs to its task *id*, so that requests with one id can be told each
  other's results, and nobody else's.
- `EvictionsHaveCause`: a connection that serves without its entry in the registry
  lost it to the cleanup of another connection of its host, or to an administrator.
  It delimits finding 1: there is no other way for a live connection to leave
  the registry.
- `CleanupsExclude` and `CleanupsAreBounded`: `connectionsMu` is held exactly
  during the second half of `UnregisterConnection`, and every step of a resolver
  takes a task of its snapshot or finishes one. This is the safety half of
  `DeadSocketIsReclaimed`: under the lock there is a number of steps fixed when
  it was taken, none of which waits.

TLC agrees with these invariants on two requests that share a task id (two
connections, 3.7 M states). Of the constants, `ConstantsAssumption` says only their
types, and that a closer, or `None`, is nothing else.

### 3.2 Key rotation: `KeyRotation`

Code: S:`internal/handlers/security.go`, the state and start of
S:`internal/handlers/register.go`, S:`internal/ws/jwt.go`, the part of
`AgentHandler` that rekeys, the rekey message of M:`main.go`.

State. `keys` is `ServerState` (current and previous secret, deadline, RSA key),
`db` the rows of `server_config`. A secret is named by the rotation that made
it. `token[h]` is the secret of the JWT the agent holds, `inbox` the rekey
messages on their way, `missed` (history) the connections for which the last rekey
that was tried has failed.

Actions. `SwapKeys` (the section under `server.mu`), one `PersistKeys` step per
`ConfigSet`, which may fail as the code only logs it, `GetConnectedHostnames`,
`SendRekey` per host, `EndRotation`; `Connect` (the dual-key check),
`RegisterConnection`, `ReadSecret`, `RekeyAgent`; `HandleRekey`, `Enroll`,
`Enrolled` of the agent; `GraceElapses`; `Restart`, which reloads the keys from
the database as `InitServerState` does. A rekey may fail at either end. The server
sends none when the agent has no row or its key is of no use (security.go:169-187;
`AgentHandler` then sends a message without a token, handler.go:426-430), and the
agent keeps its JWT when there is no token in the message, or when it cannot decrypt
or write it (dispatcher.go:407-424).

Properties. `disturbed` is a history variable: the last rotation overlapped an
earlier one, or was cut by a restart or had a write fail.
`UndisturbedDatabaseFollowsMemory` and `UndisturbedTokensAccepted` say that
otherwise a restart changes nothing and promised tokens are accepted; that they
fail without the condition is what `rotation_cut` shows, and the overlap of two
rotations (security.go:110-115, no lock around the writes) is listed as a
hazard. `OldTokenIsReplaced` is the opportunistic rekey of a connection that
authenticated with the previous secret. It and `RotationReachesEveryAgent` leave out
the connections of `missed`: no one tries a failed rekey again.

Fairness: the goroutines of the server and the read loop of the agent. Bounds:
two rotations, so that they can overlap; one fault, a restart or a failed write,
at any point; one agent, as agents do not interact (the rotation visits them one
by one). The passing run has one connection: with two of them and two rotations
there are 10.6 M states, too many for the liveness check. Two connections with one
rotation, where one replaces the other (30 k states), satisfy the same properties,
and `rotation_cut` and `rotation_missed` have two; the theorems below are for any
number of connections, agents and rotations.

Proof. `KeysInv` says what the database already holds at each control point of
the only rotation in progress; the last write then completes the copy.

Two more theorems say how much of findings 2 and 3 is due to what, with conditions
on whole behaviours. `Orderly`: no rotation starts during another, no write fails
and no restart comes during a rotation. `disturbed` then stays false
(`OrderlyIsUndisturbed`), and `DatabaseFollowsMemory` and `PromisedTokensAccepted`
hold without exception (`OrderlyRotationsKeepPromises`). `Quiet` is about the moment
of a swap only: no other rotation is on its way to the agents, no connection is
between authentication and registration, no handler is about to sign with a
secret it has read. Every rotation then reaches every agent that is connected when
it ends, unless its rekey was tried and failed (`QuietRotationsReachEveryAgent`).
Its invariant `ReachInv` says that an agent has one connection, that whatever is
about to be signed is signed with the current secret, and that a connection in the
registry outside `missed` has, or will get, a JWT of that secret, unless the
rotation in progress has its host still ahead (`ReachedByRotation`). Each of the
three conditions is needed: without any one of them TLC finds
`RotationReachesEveryAgent` violated. The window between authentication and
registration, which `rotation_missed` shows, is therefore one of three by which an
agent is passed over although no rekey of its own failed: two rotations that
overlap, and a rekey signed with a secret read before the swap, do it too.

### 3.3 Agent: `AgentDispatcher`

Code: M:`internal/ws/dispatcher.go`, M:`internal/executor/executor.go`, the
handlers of M:`main.go`.

State. `run` is where the goroutine of `Run` is; `sem[c]` the semaphore of
connection `c` (each connection makes its own); `tasks` the map of cancel
functions, which outlives connections; `found` the cancel function that
`cancelTask` has looked up and not called yet; `pc[e]`, `outcome[e]`, `answer[e]`
the goroutine of message `e`, the result it made and what it handed to `send`;
`ran` the messages that had an effect; `asked` (history) the tasks a cancel was read
for while they had a goroutine.

Actions. `Dial`, `DialFails`, `Unauthorized` and the re-enrolment steps,
`WaitOver`, `ReadError`; `ReadExec`, `ReadBusy`, `ReadTransfer`; `ReadCancel`, the
lookup under the lock, and `CallCancel`, after the unlock, when the command may have
ended; `StartCommand`, `Wait`, `Deadline`, `Kill`, `Reply`, `UnregisterTask`,
`ReleaseSlot`; `Transfer`, which is done, or refused, or breaks off with or without
a trace on the disk; `Lose` and `Terminate` of the environment. A goroutine survives
its connection, as in the code, and its answer is then sent in vain.

Properties (`AgentProperties`). `SlotsAreHeld`, `RegisteredIsCancellable`,
`CancelIsExact` (what is reported cancelled was asked for by its id, or the agent
stops; what was asked for and goes on is cancelled, or about to be),
`RevokedIsFinal`, `EveryTaskEnds`, and `AgentKeepsPromise`: the agent implements the
same `TaskPromise` as the server, where a transfer that broke off says nothing of
what it left. The semaphore bounds the goroutines *of one connection*; after a
reconnection the agent may run more than `maxConcurrent` commands in all
(dispatcher.go makes a new semaphore per connection, AGENT_SPEC.md:183-189 speaks of
the agent). What bounds the total is `CommandsAreBounded`, that many for every
connection made so far.

Fairness: goroutines and timers. Nothing is assumed of commands (`Wait`) nor of
the descendants of a killed shell, which may keep its output open for ever:
`EveryTaskEnds` names that exception, and in the code it is real (`cmd.Wait`
waits for the pipes). Bounds: two messages for one slot, so that one of them may
find none; a transfer; two connections, so that a command outlives the one it came
by and is cancelled from the other; two attempts of re-enrolment. The length of the
waits between connections is left out.

Proof. `Counted` (a semaphore is the cardinality of the holders of its slots, with
finiteness), `Filed` (what the map holds, whatever the ids) and `Honest` (an answer
tells whether the command was started). `Filed` contains `CancelsOfId`: an entry is
that of a live task of its id, and a live task without its entry shares its id with
another one that was accepted; under `UniqueIds` that is `RegisteredIsCancellable`.
`CommandsAreBounded` follows from `Counted` by numbering the goroutines of each
connection: pairs of connection and number are an injection into a set of `conn *
MaxConcurrent` elements, which spares an induction over connections.
`TerminationAdvances` is what is left of finding 4: after SIGTERM, `Run` makes no
connection, and each of its steps is one of at most three that lead to its return
(`StepsLeft`), so the read on an open socket is the only thing that keeps it.
`CancelIsExact` is a part of `Caused`, which follows a cancel from the message to
the answer: what is cancelled has its goroutine and was asked for, or the context of
the agent is done, and a cancel function that was looked up was asked for, or is
that of a command that has ended since. It needs `UniqueIds`: an id used twice has
one entry, so a cancel may reach the other task. `RevokedIsFinal` rests on
`RevokedLeaves`, that `Run` serves, or has stopped, while its socket is open or was
closed with 4001.

### 3.4 Hooks: `HookDispatcher`

Code: S:`internal/hooks`, the SIGHUP goroutine and the shutdown of S:`main.go`,
the rows of `action_log`.

State. `queue`, `consumer` with the event and the configuration it holds, the
configuration in force and what the SIGHUP goroutine has read, a signal pending
in a channel of capacity 1, one goroutine per action with its attempts and row.

Actions. `Emit`, `Dispatch` (enqueue or drop), `Take`, `ReadConfig`, `Launch`,
`EndJob`, `StopConsumer`; `EditFile`, `Sighup`, `LoadConfig`, `SetConfig`;
`Attempt`, `BackoffOver`, `CreateActionLog`; `ShellStuck`, `ShellReleased` (with
an error, or with success when the shell had exited by itself and only a descendant
kept its stderr open); `Shutdown`.

Properties. `HookOfItsTime` (the actions of an event are those of
one definition, although a reload may come between two launches);
`SighupTakesEffect` (the capacity of 1 of the signal channel loses nothing that
matters); `RowTellsAttempts`; `EveryEventEnds`.

Fairness: goroutines run, HTTP requests and commands have timeouts; nothing is
assumed of the descendants of a shell. Bounds: a queue of one place stands for
1000 (what matters is that it can be full); four contents of `hooks.json`: one
to start, another, one that does not parse, none; two events of different kinds;
two actions per definition, with `max_retries` of -1, 0 and 1.

Proof. `ReloadInv`: while a content is loaded and not in force, it is the last one,
or another signal waits, or none was sent for it. `QueueInv`, which the others rest
on: the place of each event, in the channel at most once. Type correctness needs
that the actions of a hook are numbered, and that the next one to launch, the
smallest that is not launched, exists (`SmallestExists`, from the well-foundedness
of the naturals). `OriginInv` makes `HookOfItsTime` inductive: the configuration the
consumer holds was in force while it held the event, the actions launched so far are
the first ones of that configuration's definition for that kind, no others were
launched for the event, and none before it was taken. `TriesInv` does the same for
`RowTellsAttempts`: what the attempts so far say at each control point of an action,
which needs `OriginInv` too, as an action launched twice would mix the attempts of
both.

### 3.5 Enrolment: `Enrollment`

Code: `RegisterAgent` of S:`internal/handlers/register.go` with
S:`internal/storage/store_enrollment_tokens.go` and `store.go`; M:`main.go`
(`loadOrEnroll`) and M:`internal/enrollment`.

State. The rows (`token`, `spent`, `authorized`, `agents`), the memory of the
server (`pending`, `rsa`), a handler per attempt (`pc`, `offered`, `held`,
`refusal`), the agents' disks (`jwt`). `use_count` of a token is the set of the
attempts that incremented it.

Actions. `Start`, `AnswerChallenge`, `StoreJwt` of the agent; `Validate`,
`ReadKeys`, `StorePendingNonce`, `ConsumePendingNonce`,
`ConsumeEnrollmentToken`, `AddAuthorizedKey`, `PersistAgent`, `GetAuthorizedKey`
of the handler, one per access to the database or to the map of nonces;
`AdminDeleteToken`, `AdminPurgeTokens`, `AdminAuthorize`, `DeleteAgent`;
`Abandon` (the client leaves, the handler goes on with a cancelled context),
`ExpireToken`, `NonceExpires`, `RotateKeys`, `Crash`, `ForgetJwt`.

Properties. `UsesCoverEnrolments` (the three writes are no transaction, but they
come in the order that never under-counts), `HolderIsOnFile`, `RefusalHasCause`,
`AloneAttemptSucceeds` (whatever is left behind, nobody is locked out).

Fairness: handlers run and so does an agent that started; nothing makes one
start. Bounds: two installations of one hostname (a reinstalled machine), two
attempts of the first with a reusable token, one with a one-shot token, a legacy
request; one fault of any kind at any point; one act of the administrator.

Proof. `TypeInv` (types, and agreement of the client with its handler),
`UsesInv` (every attempt past the payment, on file or on disk is counted),
`HolderInv`: one client waits per installation (`Single`), the row of an attempt
that was served is its own or one it cannot help (`Written`). `CauseInv`: an
attempt has spent nothing before its handler reaches the payment; while it answers
its challenge, the pending nonce of the hostname is its own or its challenge is
among the lost ones (replaced, expired, gone with a crash); and the RSA key it
encrypted for is at most as recent as the one its handler decrypts with, so that a
failed decryption means a rotation in between.

`RefusalHasCause` leaves open whether there are other reasons. `CalmAttemptsPass`
says there are none: an attempt with a token of use, whose client stays, whose
nonce neither expires nor is displaced by a handler of the same hostname, and which
meets no rotation and no crash (`Calm`), is not refused. It is the safety half of
`AloneAttemptSucceeds`, for one-shot tokens too. `OneShotTokensAreUsedOnce` bounds
the other side: a one-shot token has a second use only if two handlers are between
`validateEnrollmentToken` and `ConsumeEnrollmentToken` at one moment (`OnePayer`);
without that condition TLC finds the second use.

### 3.6 Administration of an agent: `MinionAdmin`, `PluginTokens`, `AgentTable`

Code: S:`internal/handlers/admin.go`, `admin_tokens.go`, `plugin_auth.go`,
`inventory.go`; `TokenRefresh` and the last steps of `RegisterAgent` of
`register.go`; `sendRekeyToAgent` of `security.go`; the methods of
S:`internal/storage/store.go` and `store_plugin_tokens.go` they call.

State. A call is one HTTP request, of any kind; `pc[c]` is the point its handler
has reached and `reply[c]` what it answered. Every method of the store runs under
`dbMu`, so it is one step, except `SetAgentVar` and `DeleteAgentVar`, which read
the variables by one statement and write the document by another: `dbMu` is a
variable, held between the two. `agent` is the row of the one host, `blacklist`
and `overdue` the table of JTIs, `registered`, `inbox` and `held` the host's entry
in the registry, the rekey messages on their way, and the JWT the agent holds;
`tokens`, `lapsed` and `lastUse` the rows of `plugin_tokens`. A JTI, and the value
of a variable, is named by the call that makes it. History variables say what no
variable of the code does: which JWTs are on their way and whether the issue they
come from was alone (`flight`, `clean`, `astray`), which revocations began when
none was (`quiet`), how often the row was inserted (`lives`), which listings came
after a deletion (`buried`, `late`), which requests came with a token already of
no use (`hopeless`).

Actions. `RevokeGet`, `RevokeBlacklist`, `RevokeClose`, `RevokeMark`; `DeleteGet`,
`DeleteClose`, `DeleteRow`; `SetSuspended`, `SetState`; `SetVarsCall`,
`SetVarRead`, `SetVarWrite`, `DeleteVarRead`, `DeleteVarWrite`; `PurgeBlacklist`;
`RekeyGet`, `RekeyUpdate`, `RekeySend`; `RefreshGet`, `RefreshUpdate`,
`RefreshAnswer`; `EnrolStart`, `EnrolRow`, `EnrolAnswer`; `InventoryCall`,
`InventoryRegistry`, `InventoryTable`, `ListCall`, `ListTable`, `ListRegistry`;
the administration and the check of plugin tokens. Each statement may fail, as a
busy database or a cancelled context makes it fail, with what the handler does
then: an answer 500, or a line in the log and the next step. The agent connects,
reads a rekey message, saves it or not, and is lost at any time.

Properties.
- `AdmittedWasValid`: a request whose token was useless when it arrived is not
  admitted and is not what `last_used_at` tells of, whatever comes between
  lookup, checks and audit. The converse is not promised: a token revoked after
  the lookup still lets that request in.
- `DeletedOnce`: host.deleted and its 200 come once per life of the row, with any
  number of administrators.
- `DeletedIsNotListed`: listings read the registry and the table at two moments,
  in either order, and none that came after a deletion shows the agent.
- `HolderIsCurrent`: the JTI on file is that of the JWT in use, unless an issue is
  in progress, was lost (a rekey to a closed connection, an answer the agent did
  not get, an `UpdateTokenJTI` that failed and was logged) or raced another
  issue. Those cases are real: the two writes, to the row and to the agent, are in
  no order that two issues share (security.go:190).
- `RevocationIsEffective`: a revocation that began in none of those cases has
  the JWT in use in the blacklist until that entry may be purged or another JWT is
  issued. In one of them it lists another JTI, where REST_ADMIN.md:88 says the
  one of the active JWT.
- `TableIsAtomic`: the row implements `AgentTable`, in which every operation
  acts at once and only on its columns. It fails as soon as `SetAgentVar` lets go
  of `dbMu` between its statements.

Fairness: none is stated, and no liveness. What is owed to a caller is the subject
of `TaskRelay`; here every handler is a finite sequence of steps.

Bounds: three calls of any kind, so two that race and a third that looks, or an
issue, a second issue and a revocation; one plugin token, as tokens do not
interact; two variables, so that one can be lost while another is written. Calls
are interchangeable, hence the symmetry.

Proof. `LocalsOK`: a handler between two statements holds `dbMu` and a copy of the
variables that is that of the row; it makes the refinement of `AgentTable` a
matter of one step. `HopelessInv`: a token of no use stays so, and a hopeless
request that passed the lookup came with a token that had expired. `LivesInv`
counts deletions against insertions, which asks that calls be finite. `LateInv`:
the row does not come back while `buried`. `FlightInv` relates a JWT on its way to
the one handler or the one message that carries it, `HolderInv` adds that a clean
issue is alone and its JTI is on file. `QuietInv`: since the revocation began
nothing was issued, so the JTI it read is still that of the agent.

### 3.7 What is common

Every module names its constants' assumptions: `ConstantsAssumption`,
`RotationAssumption`, `AgentAssumption`, `HookAssumption`,
`EnrollmentAssumption`, `PluginTokensAssumption`, `MinionAdminAssumption`,
`RowAssumption`. They say that names differ and that functions have their
domains, and nothing about the size of the system except that the calls of
`MinionAdmin` are finitely many. TLC evaluates them in every run.

`CHECK_DEADLOCK FALSE` is set where the system may really stop: the agent exits,
the server shuts down, all the attempts that the bounds allow are made. The
`relay_*` runs check deadlock: they stop only when every goroutine has returned
(`Finished`), which excludes a deadlock between `connectionsMu` and the other
locks.

## 4. Runs

| Run | Specification | Question | Distinct states |
|---|---|---|---|
| `relay_requests` | `Spec` | 2 requests, 2 connections, 1 host: `TypeOK`, `NoZombieConnection`, `NoLostFuture`, `NoStrandedRequest`, `NoLeakedFuture` | 1.13 M, symmetry |
| `relay_output` | `Spec` | 2 requests on 1 connection, 2 chunks each for a buffer of 1, any verdict: `AnswerIsOwn`, `KeepsPromise` | 1.59 M, symmetry |
| `relay_hosts` | `SchedulerSpec` | 2 hosts, a request, an admin who closes a connection: `ErrorHasCause`, `LossWakesRequest`, `DeadSocketIsReclaimed`, `EveryRequestIsAnswered` | 221 k |
| `relay_stale` | `Spec` | *violated:* `LiveConnectionIsRegistered` | - |
| `rotation` | `FairSpec` | 2 rotations, a fault: `TypeOK`, `UndisturbedDatabaseFollowsMemory`, `UndisturbedTokensAccepted`, `OldTokenIsReplaced` | 397 k |
| `rotation_cut` | `Spec` | *violated:* `PromisedTokensAccepted` | - |
| `rotation_missed` | `Spec` | *violated:* `RotationReachesEveryAgent` | - |
| `agent_tasks` | `FairSpec` | 2 messages, a transfer, 2 connections, 1 slot: `TypeOK`, `SlotsAreHeld`, `RegisteredIsCancellable`, `CancelIsExact`, `RevokedIsFinal`, `AgentKeepsPromise`, `EveryTaskEnds` | 680 k |
| `agent_terminate` | `FairSpec` | *violated:* `TerminateEndsRun` | - |
| `hooks` | `FairSpec` | 2 events, queue of 1, 4 contents: `TypeOK`, `HookOfItsTime`, `SighupTakesEffect`, `RowTellsAttempts`, `EveryEventEnds` | 107 k |
| `enrolment` | `FairSpec` | 4 attempts, 2 tokens, a fault, an admin: `TypeOK`, `UsesCoverEnrolments`, `HolderIsOnFile`, `RefusalHasCause`, `AloneAttemptSucceeds` | 423 k |
| `minion_admin` | `Spec` | 3 calls, 1 plugin token, 2 variables: `TypeOK`, `AdmittedWasValid`, `DeletedOnce`, `DeletedIsNotListed`, `HolderIsCurrent`, `RevocationIsEffective`, `TableIsAtomic` | 763 k, symmetry |

Symmetry is used only in runs that check safety; requests and connections of one
host, and administrative calls, are interchangeable there. Each property of a
passing run has a mutant in `PROJECT.json`, a plausible mistake in the code under
which TLC finds that property violated.

## 5. Theorems

| Module | Theorem | States, for all values of the constants |
|---|---|---|
| `TaskRelayProofs` | `TypeCorrect` | `Spec => []TypeOK` (with the locals of a settling goroutine) |
| | `RegistryIsLive` | `Spec => []NoZombieConnection` |
| | `NoFutureIsLost` | under `UniqueIds`, `Spec => []NoLostFuture` |
| | `NoFutureIsLeaked` | under `UniqueIds`, `Spec => []NoLeakedFuture` |
| `DisconnectProofs` | `NobodyIsStranded` | under `UniqueIds`, `Spec => []NoStrandedRequest` |
| | `ErrorsHaveCause` | under `UniqueIds`, `Spec => []ErrorHasCause` |
| | `EvictionsHaveCause` | `Spec => []EvictionHasCause` |
| | `CleanupsExclude` | `Spec => []LockIsCleanup` |
| | `CleanupsAreBounded` | `Spec => CleanupIsBounded` |
| `PromiseProofs` | `RelayImplementsPromise` | under `UniqueIds`, `Spec => KeepsPromise` |
| | `AnswersAreComplete` | under `UniqueIds`, `Spec => []AnswerIsOwn` |
| | `SharedIdsStayTogether` | `Spec => []AnswerIsOfTask` |
| `KeyRotationProofs` | `TypeCorrect` | `Spec => []TypeOK` |
| | `RestartIsTransparent` | `Spec => []UndisturbedDatabaseFollowsMemory` |
| | `PromisesSurviveRestart` | `Spec => []UndisturbedTokensAccepted` |
| | `OrderlyRotationsKeepPromises` | `Spec /\ Orderly => [](DatabaseFollowsMemory /\ PromisedTokensAccepted)` |
| | `QuietRotationsReachEveryAgent` | `Spec /\ Quiet => []RotationReachesEveryAgent` |
| `AgentProofs` | `TypeCorrect` | `Spec => []TypeOK` |
| | `SlotsAreCounted` | `Spec => []SlotsAreHeld` |
| | `CancelsReachTheirId` | `Spec => []CancelsOfId` |
| | `TasksAreCancellable` | under `UniqueIds`, `Spec => []RegisteredIsCancellable` |
| | `AgentImplementsPromise` | `Spec => AgentKeepsPromise` |
| | `CancellationIsExact` | under `UniqueIds`, `Spec => []CancelIsExact` |
| | `RevocationIsFinal` | `Spec => RevokedIsFinal` |
| | `CommandsStayBounded` | `Spec => []CommandsAreBounded` |
| | `TerminationAdvances` | `Spec => TerminateAdvances` |
| `HookProofs` | `TypeCorrect` | `Spec => []TypeOK` |
| | `SighupIsNotLost` | `Spec => []SighupTakesEffect` |
| | `ActionsAreOfOneConfig` | `Spec => []HookOfItsTime` |
| | `RowsTellAttempts` | `Spec => RowTellsAttempts` |
| `EnrollmentProofs` | `TypeCorrect` | `Spec => []TypeOK` |
| | `UsesAreCounted` | `Spec => []UsesCoverEnrolments` |
| | `HoldersAreOnFile` | `Spec => []HolderIsOnFile` |
| | `RefusalsHaveCause` | `Spec => []RefusalHasCause` |
| | `CalmAttemptsPass` | for an attempt `a` with a token, `Spec /\ Calm(a) => [](pc[a] # "refused")` |
| | `OneShotTokensAreUsedOnce` | `Spec /\ []OnePayer => []OneShotIsUsedOnce` |
| `MinionAdminProofs` | `TypeCorrect` | `Spec => []TypeOK` |
| | `RowIsAtomic` | `Spec => TableIsAtomic` |
| | `UselessTokensAreRefused` | `Spec => []AdmittedWasValid` |
| | `DeletionIsToldOnce` | `Spec => []DeletedOnce` |
| | `DeletedStaysUnlisted` | `Spec => []DeletedIsNotListed` |
| | `HolderStaysCurrent` | `Spec => []HolderIsCurrent` |
| | `RevocationsHold` | `Spec => []RevocationIsEffective` |

Each proof has a lemma for `Init`, one for a step with one case per action, and
a final temporal step. Actions that leave the variables of an invariant alone
are disposed of together in a frame lemma (`ReloadFrame`, `QuietSteps`).

Four theorems have a temporal hypothesis (`Orderly`, `Quiet`, `Calm`, `OnePayer`).
Each bounds a flaw or an exception from the other side: where a run shows that a
property fails, or a property makes an exception, the theorem says that nothing else
makes it fail; the conclusion of `QuietRotationsReachEveryAgent` keeps the exception
of a rekey that was tried and failed. TLC checked their conclusions, and the
invariants they rest on, with the hypothesis added to the next-state relation, and
that the conclusion fails without it.

## 6. Where code and documents disagree

Shown by a run (`findings` of `PROJECT.json`):

1. `relay_stale`. `UnregisterConnection` deletes by hostname (handler.go:131):
   the cleanup of a replaced connection removes its replacement, which stays
   connected, is answered for as offline, and has its requests failed.
   `EvictionsHaveCause`: that, or an administrator, is the only way.
2. `rotation_cut`. A rotation writes its rows one by one after the swap in
   memory (security.go:110-115); a crash in between makes the restarted server
   reject tokens that were issued or promised. `OrderlyRotationsKeepPromises`: so do
   a failed write and a rotation during another, and nothing else.
3. `rotation_missed`. An agent authenticated before the swap and registered
   after the list of hosts was taken gets no rekey, although
   ARCHITECTURE.md:1620-1624 says "pour chaque agent connecté".
   `QuietRotationsReachEveryAgent`: besides a rekey that is tried and fails, there are
   two more ways, and no other.
4. `agent_terminate`. `ReadMessage` is not interrupted by the context, so SIGTERM
   does not end `Run` while the server stays silent (dispatcher.go:239 says it
   does). `TerminationAdvances`: no other step of `Run` delays it.

Met while reading, not settled by a run (a difference of wording, of a constant
or of a part that is not modelled):

- Server. `agent_busy` is documented as an error answered 429 (REST_PLUGIN.md:146,
  WEBSOCKET.md:247, ARCHITECTURE.md:934); the agent puts it in stderr and not in
  `error` (dispatcher.go:451), so the server answers 200 with rc -1, as it does for
  a task that has expired or cannot be started: hence the verdicts of `AnswerIsOwn`.
  `agent_disconnected` is 500 in REST_PLUGIN.md:145 and 503 in the code; a timeout
  never sends the cancel message of ARCHITECTURE.md:951; a send error that contains
  "timeout" is answered 504 (exec.go:231); the HTTP server's WriteTimeout of 15 s
  (main.go:219) is shorter than the wait of an exec; a `task_id` sent twice is run
  twice (REST_PLUGIN.md:112); a chunk of stdout that comes after the result leaves a
  buffer behind (handler.go:274).
- Rotation and tokens. An agent without a row or a usable key is sent a rekey
  without a token, for which it "should re-enroll" (handler.go:426-427); the agent
  ignores it (dispatcher.go:407-424). After the deadline the previous secret is
  ignored, not cleared (SECURITY.md §5, SERVER_SPEC §6); the blacklist of JTIs is
  not read when a WebSocket authenticates (WEBSOCKET.md:27); `PreviousPrivateKey` is
  never used, so an answer encrypted before a rotation is refused.
- Agents table. `suspended` is stored and not enforced (ARCHITECTURE.md:1523-1524):
  neither does a suspension close the WebSocket with 4001 and refuse the next one
  (REST_ADMIN.md:106), nor are exec requests answered 503 (the comment of
  store.go:540). `agents.status` follows admin calls, not connections.
- Revocation. It blacklists the JTI on file (admin.go:463), which is not that of
  the active JWT (REST_ADMIN.md:88) when an issue is in progress, was lost or
  raced: the exceptions that `HolderIsCurrent` names. `IsJTIBlacklisted`,
  `IsAgentSuspended`, `UpdateLastSeen` and `RevokeKey` have no caller, so nothing is
  checked against the blacklist on connection (ARCHITECTURE.md:575-578, 596): the
  model's `Connect` looks at neither, as the code does.
- Enrolment. Between `Validate` and `ConsumeEnrollmentToken` two attempts may both
  pass with a one-shot token, and both enrol: `ConsumeEnrollmentToken` increments
  without a condition on `use_count` (SECURITY.md:121 says any later use is
  rejected; in the model a token's uses may be two attempts, and
  `UsesCoverEnrolments` says that both are counted). A one-shot token is spent when
  a later write fails, although store_enrollment_tokens.go:114 asks for a
  transaction. A second challenge replaces the first of the same hostname. The
  handler of an attempt the agent gave up on may write its JTI last, so that a later
  revocation blacklists another JTI than the agent's (`HolderIsOnFile` names this
  case). A nonce has 16 bytes (REST_ENROLLMENT.md:73 says 32).
- Agent. Re-enrolment sends field names the server does not read
  (enrollment_bridge.go:111-116, register.go:32-37) and has no backoff of its own;
  `writeSecret` truncates, then writes, where its comment says atomic; the kill is
  SIGKILL of the shell alone (AGENT_SPEC.md:273 says SIGTERM); a cancel before the
  process starts answers rc 1; close codes 4002 and 4003 are treated like any
  other (AGENT_SPEC.md:177-178).
- Hooks. `max_retries` defaults to 0 (HOOKS_SPEC §3.1 says 3); a row that cannot
  be written is only logged, as at shutdown (HOOKS_SPEC §7 says every execution is
  traced); an unknown type of action leaves no row; host.up and host.down are
  dispatched by goroutines of their own and may come in either order.

## 7. What is only model-checked, what is not modelled

Only model-checked: all liveness, that is `LossWakesRequest`,
`DeadSocketIsReclaimed`, `EveryRequestIsAnswered`, `OldTokenIsReplaced`,
`EveryTaskEnds`, `EveryEventEnds` and `AloneAttemptSucceeds`. TLAPS does not reason
about `ENABLED`, hence not about weak fairness. `CleanupsAreBounded` and
`CalmAttemptsPass` prove what of two of them is safety. Every invariant of a run,
and every other action property and refinement, is proved.

No module declares a RECURSIVE operator and no proof needs an induction over
data: queues are reasoned about by index.

Abstracted: JSON, base64, encryption (a nonce is answered correctly or for
another key), TLS, HTTP parsing and argument checks before the first change of
state, log lines, SQL. The lifetime of JWTs is left out; only their secret is
followed. A database call is atomic, because the store serialises calls on one
connection. Time is the order of events: a timer may fire at any moment after it
was set, and a deadline may pass at any moment.

Not modelled, or not yet: the read-only handlers (`AdminGetMinion`,
`AdminGetMinionVars`, status, statistics, lists of tokens); the verdict of a CIDR
or of a hostname pattern, which is any; the async job registry, which production
code only restores at start; the NATS client, which publishes nothing; collection
of facts, the CLI, encryption at rest, all without state of their own; the Ansible
plugin, a client whose requests are those of `TaskRelay`; deployment scripts. A
transfer is done, refused, or broken off with or without a trace; which bytes or
which mode it leaves is not modelled, nor is the length of the waits between the
agent's connections.

## 8. Plan

Order of what is left, the most important first:

1. Executor and transfers: truncation of the output in the agent, and what
   `put_file` leaves when it breaks off (directories, part of the file, its mode),
   which is now one outcome, `broken`.
2. `AsyncRegistry`: memory before file, temporary file and rename, restore after
   a crash, a late `UpdateJob` over the answer of a kill.
3. Composition of `TaskRelay` with an agent that is revoked while a request
   starts, and of `MinionAdmin` with `KeyRotation`, where the JTI of a rekey and
   the secret it is signed with come from the same rotation.
4. Proofs: that the exceptions of `HolderIsCurrent` are all there are, as for
   enrolment (an issue at a time and no lost message keep the row and the agent
   equal), and the order of the actions of two events in `HookDispatcher`.
5. The NATS client's acknowledgements, last.

## 9. How to run

```
tlc -workers 2 -config relay_requests.cfg MCTaskRelay.tla
tlapm TaskRelayProofs.tla
```

Configurations `relay_*` go with `MCTaskRelay`, `rotation*` with `MCKeyRotation`,
`agent_*` with `MCAgent`, `hooks` with `MCHooks`, `enrolment` with `MCEnrollment`,
`minion_admin` with `MCMinionAdmin`. No run takes more than two and a half minutes
with two workers on a free machine, no proof module more than a few minutes. The
four violation runs end with the counterexample described in section 6.
