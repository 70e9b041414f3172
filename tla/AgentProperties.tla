-------------------------- MODULE AgentProperties ---------------------------
(* What AgentDispatcher is checked for.                                    *)
EXTENDS AgentDispatcher

\* No two exec messages share a task id, as with the server's own UUIDs.
UniqueIds == \A d, e \in Execs : TaskOf[d] = TaskOf[e] => d = e

Registered == {"start", "running", "killed", "reply", "unregister"}
Holding == Registered \cup {"release"}

Holders(c) == {e \in Execs : connOf[e] = c /\ pc[e] \in Holding}

\* The semaphore of a connection counts the goroutines started from it, those
\* that outlive the connection included: none gives back a slot it did not
\* take, to another connection, or twice, and maxConcurrent bounds them.
SlotsAreHeld ==
  \A c \in Conns : sem[c] = Cardinality(Holders(c)) /\ sem[c] <= MaxConcurrent

\* Every task that still has a goroutine can be cancelled by its id, from any
\* later connection too, and the map designates no task that has ended.
RegisteredIsCancellable ==
  /\ \A e \in Execs : pc[e] \in Registered => tasks[TaskOf[e]] = e
  /\ \A t \in TaskIds : tasks[t] # None => pc[tasks[t]] \in Registered

\* Cancellation is exact, across reconnections and although the cancel function is
\* called after the map is unlocked: a task is reported cancelled only if a cancel
\* of its id came while it had a goroutine, or at shutdown; and such a cancel has
\* reached a task that goes on, or is about to.
CancelIsExact ==
  /\ \A e \in Execs : pc[e] = "reply" /\ outcome[e] = "cancelled" => e \in asked \/ stopping
  /\ \A e \in asked : Unfinished(e) => e \in cancelled \/ found = e

\* Close code 4001: the agent makes no other connection.
RevokedIsFinal == [][sock = "revoked" => UNCHANGED conn]_vars

\* Every task accepted ends, its slot and its cancel function given back, unless
\* its command was killed and its descendants keep its output open, or the agent
\* stops.
EveryTaskEnds ==
  \A e \in Jobs :
    pc[e] = "start" ~> (pc[e] \in {"done", "killed"} \/ run = "stopped")

\* The agent's end of the promise TaskRelay makes to its callers: at most one
\* answer for every message, the result of a task only if it was run, and busy,
\* expired or refused only for what leaves no trace; a transfer that broke is
\* neither.
Promise == INSTANCE TaskPromise WITH
  Reqs <- Jobs,
  Kinds <- Outcomes,
  OfRun <- Endings,
  NotRun <- Refusals,
  asked <- {e \in Jobs : pc[e] # "idle"}

AgentKeepsPromise == Promise!Spec

-----------------------------------------------------------------------------
(* What is left of these for the agent as a whole, or when a task id comes *)
(* twice.                                                                  *)

\* maxConcurrent is the size of a semaphore, and connect makes one for every
\* connection: what bounds the commands of the agent is that many for each
\* connection it has made.
Occupied == {e \in Execs : pc[e] \in Holding}
CommandsAreBounded == Cardinality(Occupied) <= conn * MaxConcurrent

\* The cancel functions, whatever the ids: an entry is that of a live task of
\* this id, and a live task without its entry shares its id with another one that
\* was accepted, which replaced the entry (registerTask) or removed it
\* (unregisterTask).
SharesItsId(e) ==
  \E d \in Execs \ {e} :
    TaskOf[d] = TaskOf[e] /\ pc[d] # "idle" /\ outcome[d] # "busy"

CancelsOfId ==
  /\ \A t \in TaskIds : tasks[t] # None =>
       TaskOf[tasks[t]] = t /\ pc[tasks[t]] \in Registered
  /\ \A e \in Execs :
       pc[e] \in Registered => tasks[TaskOf[e]] = e \/ SharesItsId(e)

\* SIGTERM, as far as Run goes by itself: every step of it is one of at most
\* three that lead to the return, and none makes a connection or takes a token.
\* What may keep it from the next step is a read on an open socket.
StepsLeft ==
  IF run = "serving" THEN 3
  ELSE IF run \in {"dial", "reenroll"} THEN 2
  ELSE IF run \in {"backoff", "pause"} THEN 1
  ELSE 0

TerminateAdvances ==
  [][stopping => /\ UNCHANGED <<conn, jwtFile>>
                 /\ run' # run => StepsLeft' < StepsLeft]_vars

-----------------------------------------------------------------------------
(* What the code does not keep.                                            *)

\* dispatcher.go:239: Run "tourne jusqu'a ce que ctx soit annule": SIGTERM
\* ends the agent.
TerminateEndsRun == stopping ~> run = "stopped"
=============================================================================
