----------------------------- MODULE KeyRotation -----------------------------
(***************************************************************************)
(* Rotation of the JWT secret and RSA key of secagent-server:              *)
(* internal/handlers/security.go (AdminRotateKeys, RekeyAgent), the server *)
(* state and its start in internal/handlers/register.go, the dual-key      *)
(* check of internal/ws/jwt.go, and the part of AgentHandler that rekeys.  *)
(*                                                                         *)
(* A secret is named by the rotation that generated it, and so is the RSA  *)
(* key generated with it.  The keys in memory (under server.mu) and the    *)
(* rows of server_config are two records written by separate steps; a      *)
(* restart replaces the first by the second.  A deadline is named by the   *)
(* rotation that set it and is past once that rotation is in "expired":    *)
(* grace periods are free parameters, so they end in any order.            *)
(*                                                                         *)
(* The lifetime of the JWTs themselves is left out: a token is rejected    *)
(* here only for its secret.                                               *)
(***************************************************************************)
EXTENDS Naturals, Sequences

CONSTANTS
  Hosts,        \* agents, one per hostname
  Conns,        \* connection attempts over the whole run
  HostOf,       \* the agent of every connection attempt
  Rotations,    \* calls of AdminRotateKeys
  FirstSecret,  \* JWT_SECRET_KEY of the first boot
  None,         \* no previous secret, no deadline, no connection
  MaxFaults     \* bound: restarts of the server and writes that fail, together

ASSUME RotationAssumption ==
  /\ HostOf \in [Conns -> Hosts]
  /\ None \notin Conns \cup Rotations
  /\ FirstSecret \notin Rotations \cup {None}
  /\ MaxFaults \in Nat

Secrets == Rotations \cup {FirstSecret}

VARIABLES
  keys,     \* ServerState: current and previous secret, deadline, RSA key
  db,       \* the same, in server_config
  expired,  \* rotations whose grace period is over
  rotPc,    \* Rotations -> control point of AdminRotateKeys
  old,      \* Rotations -> oldJWTSecret
  todo,     \* Rotations -> hosts still to rekey
  registered, \* Hosts -> connection registered for the host, or None
  pc,       \* Conns -> control point of AgentHandler
  open,     \* connections the agent has not lost
  fresh,    \* Conns -> the secret RekeyAgent has read
  inbox,    \* Conns -> rekey messages on their way, by secret
  agent,    \* Hosts -> state of the agent process
  token,    \* Hosts -> secret that signs the JWT the agent holds
  answer,   \* Hosts -> secret read by RegisterAgent for its answer
  faults,   \* number of restarts and failed writes
  missed,   \* history: open connections whose last rekey was not sent, or was
            \* sent and dropped by the agent
  promised, \* history: the keys as the last rotation announced them
  disturbed \* history: the last rotation began during another, or a restart
            \* cut a rotation or a write failed since

store   == <<keys, db, expired>>
rotation == <<rotPc, old, todo>>
handler == <<registered, pc, open, fresh, inbox>>
agents  == <<agent, token, answer>>
history == <<faults, missed, promised, disturbed>>
vars    == <<store, rotation, handler, agents, history>>

KeyState == [current: Secrets, previous: Secrets \cup {None},
             deadline: Rotations \cup {None}, rsa: Secrets]

Persisting == {"previous", "current", "deadline", "rsa"}
InProgress(r) == rotPc[r] \in Persisting

TypeOK ==
  /\ keys \in KeyState
  /\ db \in KeyState
  /\ expired \in SUBSET Rotations
  /\ rotPc \in [Rotations -> Persisting \cup {"idle", "list", "rekey", "done"}]
  /\ old \in [Rotations -> Secrets \cup {None}]
  /\ \A r \in Rotations : rotPc[r] = "previous" => old[r] # None
  /\ todo \in [Rotations -> SUBSET Hosts]
  /\ registered \in [Hosts -> Conns \cup {None}]
  /\ pc \in [Conns -> {"idle", "accepted", "acceptedOld", "rekey", "send",
                       "serving", "gone"}]
  /\ open \in SUBSET Conns
  /\ fresh \in [Conns -> Secrets \cup {None}]
  /\ \A c \in Conns : pc[c] = "send" => fresh[c] # None
  /\ inbox \in [Conns -> Seq(Secrets)]
  /\ agent \in [Hosts -> {"ready", "rejected", "enrolling"}]
  /\ token \in [Hosts -> Secrets]
  /\ answer \in [Hosts -> Secrets \cup {None}]
  /\ \A h \in Hosts : agent[h] = "enrolling" => answer[h] # None
  /\ faults \in 0..MaxFaults
  /\ missed \in SUBSET Conns
  /\ promised \in KeyState
  /\ disturbed \in BOOLEAN

\* A first boot has generated and persisted the keys (InitServerState).
FirstKeys == [current |-> FirstSecret, previous |-> None, deadline |-> None,
              rsa |-> FirstSecret]

Init ==
  /\ keys = FirstKeys
  /\ db = FirstKeys
  /\ expired = {}
  /\ rotPc = [r \in Rotations |-> "idle"]
  /\ old = [r \in Rotations |-> None]
  /\ todo = [r \in Rotations |-> {}]
  /\ registered = [h \in Hosts |-> None]
  /\ pc = [c \in Conns |-> "idle"]
  /\ open = {}
  /\ fresh = [c \in Conns |-> None]
  /\ inbox = [c \in Conns |-> <<>>]
  /\ agent = [h \in Hosts |-> "ready"]
  /\ token = [h \in Hosts |-> FirstSecret]
  /\ answer = [h \in Hosts |-> None]
  /\ faults = 0
  /\ missed = {}
  /\ promised = FirstKeys
  /\ disturbed = FALSE

-----------------------------------------------------------------------------
(* validateJWTDualKey                                                      *)

InGrace(k) == k.deadline # None /\ k.deadline \notin expired

\* The secrets under which a JWT is accepted.
Accepted(k) ==
  {k.current} \cup (IF k.previous # None /\ InGrace(k) THEN {k.previous} ELSE {})

-----------------------------------------------------------------------------
(* AdminRotateKeys                                                         *)

RotGoto(r, label) == rotPc' = [rotPc EXCEPT ![r] = label]

\* Mutant: the old secret is not kept for the write that follows.
SwapKeys_OldForgotten(r) ==
  /\ rotPc[r] = "idle"
  /\ keys' = [current |-> r, previous |-> keys.current, deadline |-> r, rsa |-> r]
  /\ promised' = keys'
  /\ disturbed' = (\E q \in Rotations : InProgress(q))
  /\ RotGoto(r, "previous")
  /\ UNCHANGED <<db, expired, old, todo, handler, agents, faults, missed>>

\* Under server.mu: the four fields at once.
SwapKeys(r) ==
  /\ rotPc[r] = "idle"
  /\ keys' = [current |-> r, previous |-> keys.current, deadline |-> r, rsa |-> r]
  /\ old' = [old EXCEPT ![r] = keys.current]
  /\ promised' = keys'
  /\ disturbed' = (\E q \in Rotations : InProgress(q))
  /\ RotGoto(r, "previous")
  /\ UNCHANGED <<db, expired, todo, handler, agents, faults, missed>>

\* One ConfigSet; its error is logged and the rotation goes on.  The old
\* secret is written first and not used after.
ConfigSet(r, field, value, next) ==
  /\ rotPc[r] = field
  /\ RotGoto(r, next)
  /\ old' = [old EXCEPT ![r] = None]
  /\ \/ /\ db' = [db EXCEPT ![field] = value]
        /\ UNCHANGED <<faults, disturbed>>
     \/ /\ faults < MaxFaults
        /\ faults' = faults + 1
        /\ disturbed' = TRUE
        /\ UNCHANGED db
  /\ UNCHANGED <<keys, expired, todo, handler, agents, missed, promised>>

\* Mutant: the deadline of the rotation is not persisted.
PersistKeys_NoDeadline(r) ==
  \/ ConfigSet(r, "previous", old[r], "current")
  \/ ConfigSet(r, "current", r, "rsa")
  \/ ConfigSet(r, "rsa", r, "list")

\* In the order of the code.  rsa_key_previous, which nothing reads but the
\* next start, is written between the last two.
PersistKeys(r) ==
  \/ ConfigSet(r, "previous", old[r], "current")
  \/ ConfigSet(r, "current", r, "deadline")
  \/ ConfigSet(r, "deadline", r, "rsa")
  \/ ConfigSet(r, "rsa", r, "list")

GetConnectedHostnames(r) ==
  /\ rotPc[r] = "list"
  /\ todo' = [todo EXCEPT ![r] = {h \in Hosts : registered[h] # None}]
  /\ RotGoto(r, "rekey")
  /\ UNCHANGED <<store, old, handler, agents, history>>

\* SendToAgent: to the connection registered now; a lost one swallows it.
Send(h, s) ==
  inbox' = [c \in Conns |->
    IF c = registered[h] /\ c \in open THEN Append(inbox[c], s) ELSE inbox[c]]

\* sendRekeyToAgent, meant for connection c of host h.  It sends nothing when
\* GetAgent fails or has no row of h, when it cannot sign, or cannot encrypt with
\* the public key of the row, or when the write on the connection fails.
SendRekeyToAgent(h, s, c) ==
  \/ /\ Send(h, s)
     /\ missed' = missed \ {registered[h]}
  \/ /\ missed' = missed \cup ({c} \cap open)
     /\ UNCHANGED inbox

\* The loop over the hosts signs with the secret of this rotation, and goes on
\* whatever became of the last one.
SendRekey(r, h) ==
  /\ rotPc[r] = "rekey"
  /\ h \in todo[r]
  /\ SendRekeyToAgent(h, r, registered[h])
  /\ todo' = [todo EXCEPT ![r] = @ \ {h}]
  /\ UNCHANGED <<store, rotPc, old, registered, pc, open, fresh, agents,
                 faults, promised, disturbed>>

EndRotation(r) ==
  /\ rotPc[r] = "rekey"
  /\ todo[r] = {}
  /\ RotGoto(r, "done")
  /\ UNCHANGED <<store, old, todo, handler, agents, history>>

\* Time: the deadline announced by a rotation passes.
GraceElapses(r) ==
  /\ rotPc[r] # "idle"
  /\ r \notin expired
  /\ expired' = expired \cup {r}
  /\ UNCHANGED <<keys, db, rotation, handler, agents, history>>

-----------------------------------------------------------------------------
(* Crash and restart                                                       *)

\* Mutant: the previous secret is not loaded.
InitServerState_NoPrevious == [db EXCEPT !.previous = None]

InitServerState == db

\* Every goroutine and connection is gone; the keys come from the database.
Restart ==
  /\ faults < MaxFaults
  /\ faults' = faults + 1
  /\ keys' = InitServerState
  /\ disturbed' = (disturbed \/ \E r \in Rotations : InProgress(r))
  /\ rotPc' = [r \in Rotations |-> IF rotPc[r] = "idle" THEN "idle" ELSE "done"]
  /\ todo' = [r \in Rotations |-> {}]
  /\ registered' = [h \in Hosts |-> None]
  /\ pc' = [c \in Conns |-> IF pc[c] = "idle" THEN "idle" ELSE "gone"]
  /\ open' = {}
  /\ missed' = {}
  /\ inbox' = [c \in Conns |-> <<>>]
  /\ agent' = [h \in Hosts |-> IF agent[h] = "enrolling" THEN "rejected" ELSE agent[h]]
  /\ old' = [r \in Rotations |-> None]
  /\ fresh' = [c \in Conns |-> None]
  /\ answer' = [h \in Hosts |-> None]
  /\ UNCHANGED <<db, expired, token, promised>>

-----------------------------------------------------------------------------
(* AgentHandler: authentication, registration, opportunistic rekey         *)

Goto(c, label) == pc' = [pc EXCEPT ![c] = label]

\* The agent, which has no other connection, presents its JWT.
Connect(c) ==
  /\ pc[c] = "idle"
  /\ agent[HostOf[c]] = "ready"
  /\ \A d \in open : HostOf[d] # HostOf[c]
  /\ LET s == token[HostOf[c]]
     IN  IF s \in Accepted(keys)
         THEN /\ Goto(c, IF s = keys.current THEN "accepted" ELSE "acceptedOld")
              /\ open' = open \cup {c}
              /\ UNCHANGED agent
         ELSE /\ Goto(c, "gone")
              /\ agent' = [agent EXCEPT ![HostOf[c]] = "rejected"]
              /\ UNCHANGED open
  /\ UNCHANGED <<store, rotation, registered, fresh, inbox, token, answer, history>>

\* Mutant: usedPrevious is ignored.
RegisterConnection_NoRekey(c) ==
  /\ pc[c] \in {"accepted", "acceptedOld"}
  /\ registered' = [registered EXCEPT ![HostOf[c]] = c]
  /\ Goto(c, "serving")
  /\ UNCHANGED <<store, rotation, open, fresh, inbox, agents, history>>

RegisterConnection(c) ==
  /\ pc[c] \in {"accepted", "acceptedOld"}
  /\ registered' = [registered EXCEPT ![HostOf[c]] = c]
  /\ Goto(c, IF pc[c] = "acceptedOld" THEN "rekey" ELSE "serving")
  /\ UNCHANGED <<store, rotation, open, fresh, inbox, agents, history>>

\* RekeyAgent reads the current secret under server.mu ...
ReadSecret(c) ==
  /\ pc[c] = "rekey"
  /\ fresh' = [fresh EXCEPT ![c] = keys.current]
  /\ Goto(c, "send")
  /\ UNCHANGED <<store, rotation, registered, open, inbox, agents, history>>

\* ... and sends a JWT signed with it to whoever is registered for the host.  If
\* it could not, AgentHandler writes a rekey without a JWT on its connection,
\* which the agent cannot decrypt and ignores.
RekeyAgent(c) ==
  /\ pc[c] = "send"
  /\ SendRekeyToAgent(HostOf[c], fresh[c], c)
  /\ fresh' = [fresh EXCEPT ![c] = None]
  /\ Goto(c, "serving")
  /\ UNCHANGED <<store, rotation, registered, open, agents, faults, promised, disturbed>>

\* The connection is cut; what it carried is lost.
LoseConnection(c) ==
  /\ c \in open
  /\ open' = open \ {c}
  /\ inbox' = [inbox EXCEPT ![c] = <<>>]
  /\ missed' = missed \ {c}
  /\ UNCHANGED <<store, rotation, registered, pc, fresh, agents, faults, promised,
                 disturbed>>

\* The read loop fails: UnregisterConnection, by hostname.
UnregisterConnection(c) ==
  /\ pc[c] = "serving"
  /\ c \notin open
  /\ registered' = [registered EXCEPT ![HostOf[c]] = None]
  /\ Goto(c, "gone")
  /\ UNCHANGED <<store, rotation, open, fresh, inbox, agents, history>>

-----------------------------------------------------------------------------
(* The agent                                                               *)

\* "rekey" in the read loop: the new JWT replaces the old, on disk first.  One
\* that cannot be decrypted, or not be written to the disk, is logged and dropped.
HandleRekey(c) ==
  /\ inbox[c] # <<>>
  /\ inbox' = [inbox EXCEPT ![c] = Tail(@)]
  /\ \/ /\ token' = [token EXCEPT ![HostOf[c]] = Head(inbox[c])]
        /\ UNCHANGED missed
     \/ /\ missed' = IF Tail(inbox[c]) = <<>> THEN missed \cup {c} ELSE missed
        /\ UNCHANGED token
  /\ UNCHANGED <<store, rotation, registered, pc, open, fresh, agent, answer,
                 faults, promised, disturbed>>

\* After a 401 the agent removes its JWT and enrols again, at its next start if
\* not before; RegisterAgent reads the current secret with the other keys
\* before it verifies, and answers later.
Enroll(h) ==
  /\ agent[h] = "rejected"
  /\ agent' = [agent EXCEPT ![h] = "enrolling"]
  /\ answer' = [answer EXCEPT ![h] = keys.current]
  /\ UNCHANGED <<store, rotation, handler, token, history>>

Enrolled(h) ==
  /\ agent[h] = "enrolling"
  /\ agent' = [agent EXCEPT ![h] = "ready"]
  /\ token' = [token EXCEPT ![h] = answer[h]]
  /\ answer' = [answer EXCEPT ![h] = None]
  /\ UNCHANGED <<store, rotation, handler, history>>

-----------------------------------------------------------------------------
Rotate(r) ==
  \/ PersistKeys(r) \/ GetConnectedHostnames(r) \/ EndRotation(r)
  \/ \E h \in Hosts : SendRekey(r, h)

AgentHandler(c) ==
  RegisterConnection(c) \/ ReadSecret(c) \/ RekeyAgent(c) \/ UnregisterConnection(c)

Next ==
  \/ \E r \in Rotations : SwapKeys(r) \/ Rotate(r) \/ GraceElapses(r)
  \/ \E c \in Conns : Connect(c) \/ AgentHandler(c) \/ LoseConnection(c) \/ HandleRekey(c)
  \/ \E h \in Hosts : Enroll(h) \/ Enrolled(h)
  \/ Restart

Spec == Init /\ [][Next]_vars

\* The goroutines of the server and the read loop of the agent keep running.
FairSpec ==
  /\ Spec
  /\ \A r \in Rotations : WF_vars(Rotate(r))
  /\ \A c \in Conns : WF_vars(AgentHandler(c)) /\ WF_vars(HandleRekey(c))

-----------------------------------------------------------------------------
(* Properties                                                              *)

Rotating == \E r \in Rotations : InProgress(r)

\* Between two rotations the database holds the keys of the memory, so that a
\* restart changes nothing.
DatabaseFollowsMemory == ~Rotating => db = keys

\* DatabaseFollowsMemory, unless the last rotation overlapped an earlier one or
\* a rotation was cut by a restart or had a write fail since it began: the next
\* rotation that is left alone repairs what the earlier ones spoiled.  It
\* relates AdminRotateKeys, whose writes come one by one after the swap, to
\* InitServerState.
UndisturbedDatabaseFollowsMemory == ~disturbed => DatabaseFollowsMemory

\* The secrets of the JWTs that agents hold or that are on their way to them.
Issued ==
  {token[h] : h \in Hosts}
    \cup UNION {{inbox[c][i] : i \in DOMAIN inbox[c]} : c \in Conns}

\* A JWT that the last rotation promised to accept (signed with its secret, or
\* with the one it replaced while its grace period lasts) is accepted by the
\* server as it is now.
PromisedTokensAccepted == Issued \cap Accepted(promised) \subseteq Accepted(keys)

\* PromisedTokensAccepted, unless the last rotation was disturbed: restarts
\* between rotations lock no agent out.
UndisturbedTokensAccepted == ~disturbed => PromisedTokensAccepted

\* A connection that authenticated with the previous secret ends up with another
\* JWT ("rekey opportuniste"), unless it is lost or, once registered, another
\* connection takes or clears the entry of the host, or the rekey itself fails,
\* on the server or in the agent.
Unlisted(c) == pc[c] \in {"rekey", "send", "serving"} /\ registered[HostOf[c]] # c

OldTokenIsReplaced ==
  \A c \in Conns, s \in Secrets :
    (pc[c] = "acceptedOld" /\ token[HostOf[c]] = s)
      ~> (c \notin open \/ Unlisted(c) \/ c \in missed \/ token[HostOf[c]] # s)

\* ARCHITECTURE.md, "Pour chaque agent connecte": once the last rotation has
\* returned, every agent connected with a JWT of an older secret has a newer
\* one on its way, unless a rekey that was tried for it has failed.
RotationReachesEveryAgent ==
  \A r \in Rotations : \A c \in open \ missed :
    /\ rotPc[r] = "done"
    /\ keys.current = r
    /\ pc[c] = "serving"
    /\ registered[HostOf[c]] = c
    => token[HostOf[c]] = r \/ inbox[c] # <<>>

-----------------------------------------------------------------------------
(* When the last two hold all the same.                                    *)

\* Every rotation writes its rows undisturbed: none begins before the last one
\* has written its own, no write fails, and a restart waits for the last row.
OrderlyStep ==
  /\ (\E r \in Rotations : SwapKeys(r)) => ~Rotating
  /\ faults' # faults => Restart /\ ~Rotating

Orderly == [][OrderlyStep]_vars

\* At the moment of a swap, no other rotation is on its way to the agents, no
\* connection is between its authentication and its registration with what is
\* still the current secret, and no handler holds a secret it read for a rekey.
QuietSwap ==
  /\ \A r \in Rotations : rotPc[r] \in {"idle", "done"}
  /\ \A c \in open : pc[c] # "accepted"
  /\ \A c \in Conns : pc[c] # "send"

Quiet == [][(\E r \in Rotations : SwapKeys(r)) => QuietSwap]_vars

\* The JWT that the agent of c has once it has read what c carries.
LatestToken(c) ==
  IF inbox[c] = <<>> THEN token[HostOf[c]] ELSE inbox[c][Len(inbox[c])]

\* The rekey messages of r that are still to be sent reach host h.
Ahead(r, h) ==
  \/ InProgress(r) \/ rotPc[r] = "list"
  \/ rotPc[r] = "rekey" /\ h \in todo[r]

Listed(c) == c \in open /\ pc[c] = "serving" /\ registered[HostOf[c]] = c

\* An agent that is connected and registered has the JWT of the current secret,
\* or it is the last one on its way, unless a rotation will still send it or its
\* last rekey has failed.
ReachedByRotation ==
  \A c \in Conns \ missed : Listed(c) =>
    \/ LatestToken(c) = keys.current
    \/ \E r \in Rotations : keys.current = r /\ Ahead(r, HostOf[c])

\* The parts of the inductive invariant: the connections of a host, ...
ConnectionsAreSingle ==
  /\ \A c, d \in open : HostOf[c] = HostOf[d] => c = d
  /\ \A c \in open : agent[HostOf[c]] = "ready"
  /\ \A c \in open : pc[c] # "idle"
  /\ \A h \in Hosts, c \in Conns : registered[h] = c =>
       HostOf[c] = h /\ pc[c] \in {"rekey", "send", "serving"}
  /\ \A c \in Conns : inbox[c] # <<>> =>
       c \in open /\ pc[c] \in {"rekey", "send", "serving"}

\* ... and the secrets that are about to be used.
SecretsAreCurrent ==
  /\ \A r \in Rotations : rotPc[r] \notin {"idle", "done"} => keys.current = r
  /\ \A c \in open : pc[c] = "accepted" => token[HostOf[c]] = keys.current
  /\ \A c \in Conns : pc[c] = "send" => fresh[c] = keys.current

ReachInv == ConnectionsAreSingle /\ SecretsAreCurrent /\ ReachedByRotation
=============================================================================
