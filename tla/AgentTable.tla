----------------------------- MODULE AgentTable -----------------------------
(***************************************************************************)
(* What the rows of the agents table promise their writers                 *)
(* (internal/storage/store.go): every operation takes effect at once, on   *)
(* the row as it is then, and on the columns it is about only.  A          *)
(* registration keeps the variables, the suspension and the status of a    *)
(* host that was already there, and nothing but a registration brings a    *)
(* row into being.                                                         *)
(***************************************************************************)
CONSTANTS Jtis, Keys, Values, None

VARIABLE agent  \* the row of one host, or None

Fresh(j) ==
  [jti       |-> j,
   vars      |-> [k \in Keys |-> None],
   suspended |-> FALSE,
   status    |-> "disconnected"]

Init == agent = None \/ \E j \in Jtis : agent = Fresh(j)

Register(j) ==
  agent' = IF agent = None THEN Fresh(j) ELSE [agent EXCEPT !.jti = j]

SetJti(j)       == agent # None /\ agent' = [agent EXCEPT !.jti = j]
SetVar(k, v)    == agent # None /\ agent' = [agent EXCEPT !.vars[k] = v]
SetSuspended(b) == agent # None /\ agent' = [agent EXCEPT !.suspended = b]
SetStatus(s)    == agent # None /\ agent' = [agent EXCEPT !.status = s]
Delete          == agent # None /\ agent' = None

Next ==
  \/ \E j \in Jtis : Register(j) \/ SetJti(j)
  \/ \E k \in Keys, v \in Values \cup {None} : SetVar(k, v)
  \/ \E b \in BOOLEAN : SetSuspended(b)
  \/ \E s \in {"connected", "disconnected"} : SetStatus(s)
  \/ Delete

Spec == Init /\ [][Next]_agent
=============================================================================
