-------------------------- MODULE KeyRotationProofs --------------------------
(***************************************************************************)
(* Proofs about KeyRotation, for every number of agents, connections,      *)
(* rotations, restarts and failed writes.                                  *)
(*                                                                         *)
(* KeysInv strengthens the two "undisturbed" properties.  It says what the *)
(* database already has at each control point of the only rotation in      *)
(* progress; without it the last write could not be seen to complete the   *)
(* copy of the memory.                                                     *)
(*                                                                         *)
(* The last two sections bound what can go wrong.  Behaviours that are     *)
(* Orderly keep the promises of every rotation: an overlap, a failed write *)
(* and a restart during a rotation are all that breaks them.  Behaviours   *)
(* that are Quiet reach every agent: ReachInv says that a connection that  *)
(* is listed has, or will get, a JWT of the current secret unless the      *)
(* rotation in progress has its host still ahead or its last rekey failed. *)
(***************************************************************************)
EXTENDS KeyRotation, TLAPS

\* The rows of server_config written by rotation r so far.
Written(r) ==
  /\ keys.current = r /\ keys.deadline = r /\ keys.rsa = r
  /\ rotPc[r] = "previous" => keys.previous = old[r]
  /\ rotPc[r] \in {"current", "deadline", "rsa"} => db.previous = keys.previous
  /\ rotPc[r] \in {"deadline", "rsa"} => db.current = keys.current
  /\ rotPc[r] = "rsa" => db.deadline = keys.deadline

KeysInv ==
  ~disturbed =>
    /\ keys = promised
    /\ \A q, r \in Rotations : InProgress(q) /\ InProgress(r) => q = r
    /\ \A r \in Rotations : InProgress(r) => Written(r)
    /\ DatabaseFollowsMemory

\* The rotation's own control point after a step that moves it.
LEMMA RotGotoFrame ==
  ASSUME NEW r \in Rotations, NEW label, RotGoto(r, label),
         rotPc \in [Rotations -> Persisting \cup {"idle", "list", "rekey", "done"}]
  PROVE  /\ rotPc'[r] = label
         /\ \A q \in Rotations : q # r => rotPc'[q] = rotPc[q]
BY DEF RotGoto

\* A message sent to a host keeps the type of every inbox.
LEMMA SendTyped ==
  ASSUME NEW h \in Hosts, NEW s \in Secrets, Send(h, s),
         inbox \in [Conns -> Seq(Secrets)]
  PROVE  inbox' \in [Conns -> Seq(Secrets)]
BY DEF Send

\* A rekey that is sent reaches the queue of the connection registered for the
\* host; one that is not leaves the connection it was meant for in `missed`.
LEMMA SentOrMissed ==
  ASSUME NEW h \in Hosts, NEW s \in Secrets, NEW c, SendRekeyToAgent(h, s, c),
         inbox \in [Conns -> Seq(Secrets)], missed \in SUBSET Conns, open \in SUBSET Conns
  PROVE  /\ inbox' \in [Conns -> Seq(Secrets)]
         /\ missed' \in SUBSET Conns
         /\ inbox' = inbox \/ Send(h, s)
BY SendTyped DEF SendRekeyToAgent

LEMMA InitType == ASSUME Init PROVE TypeOK
<1>1. FirstKeys \in KeyState
  BY DEF FirstKeys, KeyState, Secrets
<1>2. /\ inbox \in [Conns -> Seq(Secrets)]
      /\ 0 \in 0..MaxFaults
  BY RotationAssumption DEF Init
<1> QED
  BY <1>1, <1>2, RotationAssumption DEF Init, TypeOK, Secrets, Persisting

\* Every step keeps the types.
LEMMA TypeStep == ASSUME TypeOK, [Next]_vars PROVE TypeOK'
<1> USE RotationAssumption DEF TypeOK, store, rotation, handler, agents, history
<1>1. ASSUME NEW r \in Rotations, SwapKeys(r) PROVE TypeOK'
  BY <1>1 DEF SwapKeys, RotGoto, KeyState, Secrets, Persisting
<1>2. ASSUME NEW r \in Rotations, PersistKeys(r) PROVE TypeOK'
  <2>1. ASSUME NEW field \in Persisting, NEW value, NEW next \in {"current", "deadline", "rsa", "list"},
               [db EXCEPT ![field] = value] \in KeyState,
               field = "previous" \/ rotPc[r] # "previous",
               ConfigSet(r, field, value, next)
        PROVE  TypeOK'
    <3>1. \/ db' = [db EXCEPT ![field] = value] /\ UNCHANGED <<faults, disturbed>>
          \/ faults < MaxFaults /\ faults' = faults + 1 /\ disturbed' = TRUE /\ db' = db
      BY <2>1 DEF ConfigSet
    <3>2. faults' \in 0..MaxFaults
      BY <3>1
    <3>3. disturbed' \in BOOLEAN
      BY <3>1
    <3>4. db' \in KeyState
      BY <2>1, <3>1
    <3> QED BY <2>1, <3>2, <3>3, <3>4 DEF ConfigSet, RotGoto, Persisting
  <2>2. rotPc[r] = "previous" => [db EXCEPT !["previous"] = old[r]] \in KeyState
    BY DEF KeyState
  <2>3. /\ [db EXCEPT !["current"] = r] \in KeyState
        /\ [db EXCEPT !["deadline"] = r] \in KeyState
        /\ [db EXCEPT !["rsa"] = r] \in KeyState
    BY DEF KeyState, Secrets
  <2>4. CASE ConfigSet(r, "previous", old[r], "current")
    BY <2>1, <2>2, <2>4 DEF ConfigSet, Persisting
  <2>5. CASE ConfigSet(r, "current", r, "deadline")
    BY <2>1, <2>3, <2>5 DEF ConfigSet, Persisting
  <2>6. CASE ConfigSet(r, "deadline", r, "rsa")
    BY <2>1, <2>3, <2>6 DEF ConfigSet, Persisting
  <2>7. CASE ConfigSet(r, "rsa", r, "list")
    BY <2>1, <2>3, <2>7 DEF ConfigSet, Persisting
  <2> QED BY <1>2, <2>4, <2>5, <2>6, <2>7 DEF PersistKeys
<1>3. ASSUME NEW r \in Rotations, GetConnectedHostnames(r) PROVE TypeOK'
  BY <1>3 DEF GetConnectedHostnames, RotGoto, Persisting
<1>4. ASSUME NEW r \in Rotations, NEW h \in Hosts, SendRekey(r, h) PROVE TypeOK'
  <2>1. /\ inbox' \in [Conns -> Seq(Secrets)]
        /\ missed' \in SUBSET Conns
    BY <1>4, SentOrMissed DEF SendRekey, Secrets
  <2>2. todo' \in [Rotations -> SUBSET Hosts]
    BY <1>4 DEF SendRekey
  <2>3. QED
    BY <1>4, <2>1, <2>2 DEF SendRekey
<1>5. ASSUME NEW r \in Rotations, EndRotation(r) PROVE TypeOK'
  BY <1>5 DEF EndRotation, RotGoto, Persisting
<1>6. ASSUME NEW r \in Rotations, GraceElapses(r) PROVE TypeOK'
  BY <1>6 DEF GraceElapses
<1>7. ASSUME NEW c \in Conns, Connect(c) PROVE TypeOK'
  <2>1. \E label \in {"accepted", "acceptedOld", "gone"} : Goto(c, label)
    BY <1>7 DEF Connect
  <2>2. \/ open' = open \cup {c} /\ agent' = agent
        \/ open' = open /\ agent' = [agent EXCEPT ![HostOf[c]] = "rejected"]
    BY <1>7 DEF Connect
  <2>3. \A h \in Hosts : agent'[h] = "enrolling" => agent[h] = "enrolling"
    BY <1>7 DEF Connect
  <2>4. open' \in SUBSET Conns
    BY <2>2
  <2>5. agent' \in [Hosts -> {"ready", "rejected", "enrolling"}]
    BY <2>2
  <2>6. /\ pc' \in [Conns -> {"idle", "accepted", "acceptedOld", "rekey", "send",
                               "serving", "gone"}]
        /\ \A d \in Conns : pc'[d] = "send" => pc[d] = "send"
    BY <2>1 DEF Goto
  <2>7. UNCHANGED <<keys, db, expired, rotPc, old, todo, registered, fresh, inbox,
                    token, answer, faults, missed, promised, disturbed>>
    BY <1>7 DEF Connect
  <2> QED BY <2>3, <2>4, <2>5, <2>6, <2>7
<1>8. ASSUME NEW c \in Conns, RegisterConnection(c) PROVE TypeOK'
  BY <1>8 DEF RegisterConnection, Goto
<1>9. ASSUME NEW c \in Conns, ReadSecret(c) PROVE TypeOK'
  BY <1>9 DEF ReadSecret, Goto, KeyState, Secrets
<1>10. ASSUME NEW c \in Conns, RekeyAgent(c) PROVE TypeOK'
  <2>1. /\ inbox' \in [Conns -> Seq(Secrets)]
        /\ missed' \in SUBSET Conns
    BY <1>10, SentOrMissed DEF RekeyAgent
  <2>2. QED
    BY <1>10, <2>1 DEF RekeyAgent, Goto
<1>11. ASSUME NEW c \in Conns, UnregisterConnection(c) PROVE TypeOK'
  BY <1>11 DEF UnregisterConnection, Goto
<1>12. ASSUME NEW c \in Conns, LoseConnection(c) PROVE TypeOK'
  BY <1>12 DEF LoseConnection
<1>13. ASSUME NEW c \in Conns, HandleRekey(c) PROVE TypeOK'
  <2>1. missed' = missed \/ missed' = missed \cup {c}
    BY <1>13 DEF HandleRekey
  <2>2. token' \in [Hosts -> Secrets]
    <3>1. Head(inbox[c]) \in Secrets
      BY <1>13 DEF HandleRekey
    <3>2. token' = [token EXCEPT ![HostOf[c]] = Head(inbox[c])] \/ token' = token
      BY <1>13 DEF HandleRekey
    <3>3. QED
      BY <3>1, <3>2
  <2>3. inbox' \in [Conns -> Seq(Secrets)]
    <3>1. Tail(inbox[c]) \in Seq(Secrets)
      BY <1>13 DEF HandleRekey
    <3>2. QED
      BY <1>13, <3>1 DEF HandleRekey
  <2>4. QED
    BY <1>13, <2>1, <2>2, <2>3 DEF HandleRekey
<1>14. ASSUME NEW h \in Hosts, Enroll(h) PROVE TypeOK'
  BY <1>14 DEF Enroll, KeyState, Secrets
<1>15. ASSUME NEW h \in Hosts, Enrolled(h) PROVE TypeOK'
  BY <1>15 DEF Enrolled
<1>16. ASSUME Restart PROVE TypeOK'
  BY <1>16 DEF Restart, InitServerState
<1>17. CASE UNCHANGED vars
  BY <1>17 DEF vars
<1> QED
  BY <1>1, <1>2, <1>3, <1>4, <1>5, <1>6, <1>7, <1>8, <1>9, <1>10, <1>11,
     <1>12, <1>13, <1>14, <1>15, <1>16, <1>17
  DEF Next, Rotate, AgentHandler

\* Every variable keeps its type, and a value read under server.mu is there
\* when the step that uses it runs.
THEOREM TypeCorrect == Spec => []TypeOK
BY InitType, TypeStep, PTL DEF Spec

-----------------------------------------------------------------------------
LEMMA SameKeys ==
  ASSUME NEW k \in KeyState, NEW l \in KeyState, k.current = l.current,
         k.previous = l.previous, k.deadline = l.deadline, k.rsa = l.rsa
  PROVE  k = l
BY DEF KeyState

LEMMA InitKeys == ASSUME Init PROVE KeysInv
BY DEF Init, KeysInv, DatabaseFollowsMemory, InProgress, Persisting

\* Steps outside the persistence of a rotation move neither copy of the keys
\* and start or end no rotation.
LEMMA KeysFrame ==
  ASSUME KeysInv, UNCHANGED <<keys, db, old, promised, disturbed>>,
         \A r \in Rotations : rotPc'[r] = rotPc[r] \/ (~InProgress(r) /\ ~InProgress(r)')
  PROVE  KeysInv'
BY DEF KeysInv, DatabaseFollowsMemory, Rotating, InProgress, Written, Persisting

\* Every step keeps the relation of the database to the memory.
LEMMA KeysStep == ASSUME TypeOK, KeysInv, [Next]_vars PROVE KeysInv'
<1> USE RotationAssumption DEF TypeOK, store, rotation, handler, agents, history
<1>1. ASSUME NEW r \in Rotations, SwapKeys(r) PROVE KeysInv'
  <2> SUFFICES ASSUME ~disturbed' PROVE KeysInv'
    BY DEF KeysInv
  <2>1. \A q \in Rotations : ~InProgress(q)
    BY <1>1 DEF SwapKeys
  <2>2. rotPc'[r] = "previous" /\ \A q \in Rotations : q # r => ~InProgress(q)'
    BY <1>1, <2>1, RotGotoFrame DEF SwapKeys, InProgress
  <2>3. InProgress(r)'
    BY <2>2 DEF InProgress, Persisting
  <2>4. Written(r)'
    BY <1>1, <2>2 DEF SwapKeys, Written, KeyState
  <2> QED BY <1>1, <2>2, <2>3, <2>4 DEF SwapKeys, KeysInv, DatabaseFollowsMemory, Rotating
<1>2. ASSUME NEW r \in Rotations, PersistKeys(r) PROVE KeysInv'
  <2> SUFFICES ASSUME ~disturbed' PROVE KeysInv'
    BY DEF KeysInv
  <2>1. InProgress(r) /\ ~disturbed /\ Written(r)
    BY <1>2 DEF PersistKeys, ConfigSet, InProgress, Persisting, KeysInv
  <2>2. \A q \in Rotations : q # r => ~InProgress(q)'
    BY <1>2, <2>1, RotGotoFrame DEF PersistKeys, ConfigSet, KeysInv, InProgress
  <2>3. keys' = promised'
    BY <1>2, <2>1 DEF PersistKeys, ConfigSet, KeysInv
  <2>4. CASE ConfigSet(r, "previous", old[r], "current")
    <3>1. rotPc'[r] = "current" /\ db'.previous = keys'.previous
      BY <2>1, <2>4, RotGotoFrame DEF ConfigSet, Written, KeyState
    <3> QED BY <2>1, <2>2, <2>3, <2>4, <3>1
            DEF ConfigSet, KeysInv, DatabaseFollowsMemory, Rotating, InProgress, Persisting, Written
  <2>5. CASE ConfigSet(r, "current", r, "deadline")
    <3>1. /\ rotPc'[r] = "deadline"
          /\ db'.previous = keys'.previous /\ db'.current = keys'.current
      BY <2>1, <2>5, RotGotoFrame DEF ConfigSet, Written, KeyState
    <3> QED BY <2>1, <2>2, <2>3, <2>5, <3>1
            DEF ConfigSet, KeysInv, DatabaseFollowsMemory, Rotating, InProgress, Persisting, Written
  <2>6. CASE ConfigSet(r, "deadline", r, "rsa")
    <3>1. /\ rotPc'[r] = "rsa"
          /\ db'.previous = keys'.previous /\ db'.current = keys'.current
          /\ db'.deadline = keys'.deadline
      BY <2>1, <2>6, RotGotoFrame DEF ConfigSet, Written, KeyState
    <3> QED BY <2>1, <2>2, <2>3, <2>6, <3>1
            DEF ConfigSet, KeysInv, DatabaseFollowsMemory, Rotating, InProgress, Persisting, Written
  <2>7. CASE ConfigSet(r, "rsa", r, "list")
    <3>1. rotPc'[r] = "list" /\ ~InProgress(r)'
      BY <2>7, RotGotoFrame DEF ConfigSet, InProgress, Persisting
    <3>2. keys' = keys /\ db' = [db EXCEPT !["rsa"] = r]
      BY <2>7 DEF ConfigSet
    <3>3. /\ keys.current = db.current /\ keys.previous = db.previous
          /\ keys.deadline = db.deadline /\ keys.rsa = r
      BY <2>1, <2>7 DEF ConfigSet, Written
    <3>4. /\ db' \in KeyState /\ db'.rsa = r /\ db'.current = db.current
          /\ db'.previous = db.previous /\ db'.deadline = db.deadline
      BY <3>2 DEF KeyState, Secrets
    <3>5. db' = keys'
      BY <3>2, <3>3, <3>4, SameKeys
    <3> QED BY <2>2, <2>3, <3>1, <3>5 DEF KeysInv, DatabaseFollowsMemory
  <2> QED BY <1>2, <2>4, <2>5, <2>6, <2>7 DEF PersistKeys
<1>3. ASSUME NEW r \in Rotations, GetConnectedHostnames(r) PROVE KeysInv'
  BY <1>3, KeysFrame, RotGotoFrame DEF GetConnectedHostnames, InProgress, Persisting
<1>4. ASSUME NEW r \in Rotations, EndRotation(r) PROVE KeysInv'
  BY <1>4, KeysFrame, RotGotoFrame DEF EndRotation, InProgress, Persisting
<1>5. ASSUME Restart PROVE KeysInv'
  <2> SUFFICES ASSUME ~disturbed' PROVE KeysInv'
    BY DEF KeysInv
  <2>1. ~disturbed /\ \A r \in Rotations : ~InProgress(r)
    BY <1>5 DEF Restart
  <2>2. db = keys /\ keys = promised
    BY <2>1 DEF KeysInv, DatabaseFollowsMemory, Rotating
  <2>3. \A r \in Rotations : ~InProgress(r)'
    BY <1>5 DEF Restart, InProgress, Persisting
  <2> QED BY <1>5, <2>2, <2>3
          DEF Restart, InitServerState, KeysInv, DatabaseFollowsMemory
<1>6. ASSUME UNCHANGED <<keys, db, old, rotPc, promised, disturbed>> PROVE KeysInv'
  BY <1>6, KeysFrame
<1>7. ASSUME NEW r \in Rotations, NEW h \in Hosts, SendRekey(r, h) \/ GraceElapses(r)
      PROVE  KeysInv'
  BY <1>6, <1>7 DEF SendRekey, GraceElapses
<1>8. ASSUME NEW c \in Conns,
             Connect(c) \/ AgentHandler(c) \/ LoseConnection(c) \/ HandleRekey(c)
      PROVE  KeysInv'
  BY <1>6, <1>8 DEF Connect, AgentHandler, RegisterConnection, ReadSecret, RekeyAgent,
                    UnregisterConnection, LoseConnection, HandleRekey
<1>9. ASSUME NEW h \in Hosts, Enroll(h) \/ Enrolled(h) PROVE KeysInv'
  BY <1>6, <1>9 DEF Enroll, Enrolled
<1>10. ASSUME NEW r \in Rotations, GraceElapses(r) PROVE KeysInv'
  BY <1>6, <1>10 DEF GraceElapses
<1>11. CASE UNCHANGED vars
  BY <1>6, <1>11 DEF vars
<1> QED BY <1>1, <1>2, <1>3, <1>4, <1>5, <1>7, <1>8, <1>9, <1>10, <1>11 DEF Next, Rotate

LEMMA KeysInvariant == Spec => []KeysInv
<1>1. TypeOK /\ KeysInv /\ [Next]_vars => KeysInv'
  BY KeysStep
<1> QED BY InitKeys, TypeCorrect, <1>1, PTL DEF Spec

\* A rotation that neither overlaps an earlier one nor is cut nor has a write
\* fail leaves the database equal to the memory, whatever went wrong before it:
\* a later restart changes no key.
THEOREM RestartIsTransparent == Spec => []UndisturbedDatabaseFollowsMemory
<1>1. KeysInv => UndisturbedDatabaseFollowsMemory
  BY DEF KeysInv, UndisturbedDatabaseFollowsMemory
<1> QED BY KeysInvariant, <1>1, PTL

\* Under the same condition the server accepts every JWT in circulation that
\* the last rotation promised to accept, through any number of restarts.
THEOREM PromisesSurviveRestart == Spec => []UndisturbedTokensAccepted
<1>1. KeysInv => UndisturbedTokensAccepted
  BY DEF KeysInv, UndisturbedTokensAccepted, PromisedTokensAccepted
<1> QED BY KeysInvariant, <1>1, PTL

------------------------------------------------------------------------
(* Orderly rotations.                                                      *)

\* No step of an orderly behaviour overlaps a rotation, fails a write or restarts
\* the server during one: the three ways in which `disturbed` is set.
LEMMA OrderlyIsUndisturbed ==
  ASSUME TypeOK, ~disturbed, [Next]_vars, [OrderlyStep]_vars
  PROVE  ~disturbed'
<1> USE DEF TypeOK, store, rotation, handler, agents, history, vars
<1>1. ASSUME NEW r \in Rotations, SwapKeys(r) PROVE ~disturbed'
  <2>1. ~Rotating
    BY <1>1 DEF OrderlyStep, SwapKeys, RotGoto, Persisting
  <2>2. QED
    BY <1>1, <2>1 DEF SwapKeys, Rotating
<1>2. ASSUME NEW r \in Rotations, PersistKeys(r) PROVE ~disturbed'
  <2>1. Rotating
    BY <1>2 DEF PersistKeys, ConfigSet, Rotating, InProgress, Persisting
  <2>2. faults' = faults
    BY <2>1 DEF OrderlyStep
  <2>3. QED
    BY <1>2, <2>2 DEF PersistKeys, ConfigSet
<1>3. ASSUME Restart PROVE ~disturbed'
  <2>1. faults' # faults
    BY <1>3 DEF Restart
  <2>2. ~Rotating
    BY <2>1 DEF OrderlyStep
  <2>3. QED
    BY <1>3, <2>2 DEF Restart, Rotating
<1>4. ASSUME NEW r \in Rotations, NEW h \in Hosts, SendRekey(r, h) PROVE ~disturbed'
  BY <1>4 DEF SendRekey
<1>5. ASSUME NEW r \in Rotations, GetConnectedHostnames(r) \/ EndRotation(r) \/ GraceElapses(r)
      PROVE  ~disturbed'
  BY <1>5 DEF GetConnectedHostnames, EndRotation, GraceElapses
<1>6. ASSUME NEW c \in Conns,
             Connect(c) \/ AgentHandler(c) \/ LoseConnection(c) \/ HandleRekey(c)
      PROVE  ~disturbed'
  BY <1>6 DEF Connect, AgentHandler, RegisterConnection, ReadSecret, RekeyAgent,
              UnregisterConnection, LoseConnection, HandleRekey
<1>7. ASSUME NEW h \in Hosts, Enroll(h) \/ Enrolled(h) PROVE ~disturbed'
  BY <1>7 DEF Enroll, Enrolled
<1>8. QED
  BY <1>1, <1>2, <1>3, <1>4, <1>5, <1>6, <1>7 DEF Next, Rotate

\* As long as rotations do not overlap, no write fails and restarts keep out of
\* them, the database equals the memory whenever no rotation is writing, and
\* every JWT in circulation that the last rotation promised to accept is
\* accepted: overlap, failed write and crash in between are all that locks an
\* agent out.
THEOREM OrderlyRotationsKeepPromises ==
  Spec /\ Orderly => [](DatabaseFollowsMemory /\ PromisedTokensAccepted)
<1>1. Init => ~disturbed
  BY DEF Init
<1>2. TypeOK /\ ~disturbed /\ [Next]_vars /\ [OrderlyStep]_vars => ~disturbed'
  BY OrderlyIsUndisturbed
<1>3. ~disturbed /\ KeysInv => DatabaseFollowsMemory /\ PromisedTokensAccepted
  BY DEF KeysInv, PromisedTokensAccepted
<1>4. QED
  BY <1>1, <1>2, <1>3, TypeCorrect, KeysInvariant, PTL DEF Spec, Orderly

-----------------------------------------------------------------------------
(* Quiet rotations.                                                        *)

\* What Send does to a queue.
LEMMA SendReaches ==
  ASSUME TypeOK, NEW h \in Hosts, NEW s \in Secrets, Send(h, s), NEW c \in Conns
  PROVE  IF c = registered[h] /\ c \in open
         THEN inbox'[c] # <<>> /\ inbox'[c][Len(inbox'[c])] = s
         ELSE inbox'[c] = inbox[c]
<1>1. inbox[c] \in Seq(Secrets)
  BY DEF TypeOK
<1>2. inbox'[c] = IF c = registered[h] /\ c \in open THEN Append(inbox[c], s) ELSE inbox[c]
  BY DEF Send
<1>3. Append(inbox[c], s) # <<>> /\ Append(inbox[c], s)[Len(Append(inbox[c], s))] = s
  BY <1>1
<1>4. QED
  BY <1>2, <1>3

\* Rotations change nothing but what connections carry.
LEMMA ConnectionsOfRotation ==
  ASSUME TypeOK, ConnectionsAreSingle,
         UNCHANGED <<registered, pc, open, agent>>,
         \/ inbox' = inbox
         \/ \E h \in Hosts, s \in Secrets : Send(h, s)
  PROVE  ConnectionsAreSingle'
<1>1. CASE inbox' = inbox
  BY <1>1 DEF ConnectionsAreSingle
<1>2. ASSUME NEW h \in Hosts, NEW s \in Secrets, Send(h, s)
      PROVE  ConnectionsAreSingle'
  <2>1. \A c \in Conns : inbox'[c] # <<>> => inbox[c] # <<>> \/ (c = registered[h] /\ c \in open)
    BY <1>2, SendReaches
  <2>2. QED
    BY <2>1 DEF ConnectionsAreSingle
<1>3. QED
  BY <1>1, <1>2

\* An agent has one connection, which carries messages once it is registered.
LEMMA ConnectionsStep ==
  ASSUME TypeOK, ConnectionsAreSingle, [Next]_vars
  PROVE  ConnectionsAreSingle'
<1> USE RotationAssumption DEF TypeOK, store, rotation, handler, agents, history, Goto
<1>1. ASSUME NEW r \in Rotations,
             SwapKeys(r) \/ PersistKeys(r) \/ GetConnectedHostnames(r) \/ EndRotation(r)
               \/ GraceElapses(r)
      PROVE  ConnectionsAreSingle'
  BY <1>1, ConnectionsOfRotation
     DEF SwapKeys, PersistKeys, ConfigSet, GetConnectedHostnames, EndRotation,
         GraceElapses
<1>2. ASSUME NEW r \in Rotations, NEW h \in Hosts, SendRekey(r, h)
      PROVE  ConnectionsAreSingle'
  BY <1>2, SentOrMissed, ConnectionsOfRotation DEF SendRekey, Secrets
<1>3. ASSUME NEW c \in Conns, Connect(c) PROVE ConnectionsAreSingle'
  <2>1. CASE /\ pc[c] = "idle" /\ agent[HostOf[c]] = "ready"
             /\ \A d \in open : HostOf[d] # HostOf[c]
             /\ \E label \in {"accepted", "acceptedOld"} : Goto(c, label)
             /\ open' = open \cup {c} /\ agent' = agent
             /\ UNCHANGED <<registered, inbox>>
    BY <2>1 DEF ConnectionsAreSingle
  <2>2. CASE /\ pc[c] = "idle" /\ \A d \in open : HostOf[d] # HostOf[c]
             /\ Goto(c, "gone") /\ agent' = [agent EXCEPT ![HostOf[c]] = "rejected"]
             /\ UNCHANGED <<open, registered, inbox>>
    BY <2>2 DEF ConnectionsAreSingle
  <2>3. QED
    BY <1>3, <2>1, <2>2 DEF Connect
<1>4. ASSUME NEW c \in Conns, RegisterConnection(c) PROVE ConnectionsAreSingle'
  BY <1>4 DEF RegisterConnection, ConnectionsAreSingle
<1>5. ASSUME NEW c \in Conns, ReadSecret(c) PROVE ConnectionsAreSingle'
  BY <1>5 DEF ReadSecret, ConnectionsAreSingle
<1>6. ASSUME NEW c \in Conns, RekeyAgent(c) PROVE ConnectionsAreSingle'
  <2>1. /\ UNCHANGED <<registered, open, agent>>
        /\ inbox' = inbox \/ Send(HostOf[c], fresh[c])
        /\ fresh[c] \in Secrets /\ HostOf[c] \in Hosts
    BY <1>6, SentOrMissed DEF RekeyAgent
  <2>2. \A d \in Conns : inbox'[d] # <<>> =>
          inbox[d] # <<>> \/ (d = registered[HostOf[c]] /\ d \in open)
    BY <2>1, SendReaches
  <2>3. pc[c] = "send" /\ pc' = [pc EXCEPT ![c] = "serving"]
    BY <1>6 DEF RekeyAgent
  <2>4. QED
    BY <2>1, <2>2, <2>3 DEF ConnectionsAreSingle
<1>7. ASSUME NEW c \in Conns, UnregisterConnection(c) PROVE ConnectionsAreSingle'
  BY <1>7 DEF UnregisterConnection, ConnectionsAreSingle
<1>8. ASSUME NEW c \in Conns, LoseConnection(c) PROVE ConnectionsAreSingle'
  BY <1>8 DEF LoseConnection, ConnectionsAreSingle
<1>9. ASSUME NEW c \in Conns, HandleRekey(c) PROVE ConnectionsAreSingle'
  BY <1>9 DEF HandleRekey, ConnectionsAreSingle
<1>10. ASSUME NEW h \in Hosts, Enroll(h) PROVE ConnectionsAreSingle'
  BY <1>10 DEF Enroll, ConnectionsAreSingle
<1>11. ASSUME NEW h \in Hosts, Enrolled(h) PROVE ConnectionsAreSingle'
  BY <1>11 DEF Enrolled, ConnectionsAreSingle
<1>12. ASSUME Restart PROVE ConnectionsAreSingle'
  BY <1>12 DEF Restart, ConnectionsAreSingle
<1>13. CASE UNCHANGED vars
  BY <1>13 DEF vars, ConnectionsAreSingle
<1>14. QED
  BY <1>1, <1>2, <1>3, <1>4, <1>5, <1>6, <1>7, <1>8, <1>9, <1>10, <1>11, <1>12,
     <1>13 DEF Next, Rotate, AgentHandler

\* After a quiet swap, whatever is signed or compared is the current secret.
LEMMA SecretsStep ==
  ASSUME TypeOK, ConnectionsAreSingle, SecretsAreCurrent, [Next]_vars,
         (\E r \in Rotations : SwapKeys(r)) => QuietSwap
  PROVE  SecretsAreCurrent'
<1> USE RotationAssumption DEF TypeOK, store, rotation, handler, agents, history, Goto
<1>1. ASSUME NEW r \in Rotations, SwapKeys(r) PROVE SecretsAreCurrent'
  <2>1. QuietSwap
    BY <1>1
  <2>2. QED
    BY <1>1, <2>1 DEF SwapKeys, RotGoto, QuietSwap, SecretsAreCurrent
<1>2. ASSUME NEW r \in Rotations,
             PersistKeys(r) \/ GetConnectedHostnames(r) \/ EndRotation(r)
      PROVE  SecretsAreCurrent'
  <2>1. /\ rotPc[r] \notin {"idle", "done"}
        /\ \A q \in Rotations : q # r => rotPc'[q] = rotPc[q]
        /\ UNCHANGED <<keys, open, pc, token, fresh>>
    BY <1>2, RotGotoFrame
       DEF PersistKeys, ConfigSet, GetConnectedHostnames, EndRotation, RotGoto
  <2>2. QED
    BY <2>1 DEF SecretsAreCurrent
<1>3. ASSUME NEW r \in Rotations, GraceElapses(r) PROVE SecretsAreCurrent'
  BY <1>3 DEF GraceElapses, SecretsAreCurrent
<1>4. ASSUME NEW r \in Rotations, NEW h \in Hosts, SendRekey(r, h)
      PROVE  SecretsAreCurrent'
  BY <1>4 DEF SendRekey, SecretsAreCurrent
<1>5. ASSUME NEW c \in Conns, Connect(c) PROVE SecretsAreCurrent'
  <2>1. UNCHANGED <<keys, rotPc, fresh, token>>
    BY <1>5 DEF Connect
  <2>2. \/ open' = open /\ Goto(c, "gone")
        \/ open' = open \cup {c} /\ Goto(c, "acceptedOld")
        \/ /\ open' = open \cup {c} /\ Goto(c, "accepted")
           /\ token[HostOf[c]] = keys.current
    BY <1>5 DEF Connect
  <2>3. QED
    BY <2>1, <2>2 DEF SecretsAreCurrent
<1>6. ASSUME NEW c \in Conns, RegisterConnection(c) PROVE SecretsAreCurrent'
  BY <1>6 DEF RegisterConnection, SecretsAreCurrent
<1>7. ASSUME NEW c \in Conns, ReadSecret(c) PROVE SecretsAreCurrent'
  BY <1>7 DEF ReadSecret, SecretsAreCurrent
<1>8. ASSUME NEW c \in Conns, RekeyAgent(c) PROVE SecretsAreCurrent'
  BY <1>8 DEF RekeyAgent, SecretsAreCurrent
<1>9. ASSUME NEW c \in Conns, UnregisterConnection(c) PROVE SecretsAreCurrent'
  BY <1>9 DEF UnregisterConnection, SecretsAreCurrent
<1>10. ASSUME NEW c \in Conns, LoseConnection(c) PROVE SecretsAreCurrent'
  BY <1>10 DEF LoseConnection, SecretsAreCurrent
<1>11. ASSUME NEW c \in Conns, HandleRekey(c) PROVE SecretsAreCurrent'
  <2>1. c \in open /\ pc[c] \in {"rekey", "send", "serving"}
    BY <1>11 DEF HandleRekey, ConnectionsAreSingle
  <2>2. \A d \in open : d # c => HostOf[d] # HostOf[c]
    BY <2>1 DEF ConnectionsAreSingle
  <2>3. \A d \in open : pc[d] = "accepted" => token'[HostOf[d]] = token[HostOf[d]]
    <3>1. token' = [token EXCEPT ![HostOf[c]] = Head(inbox[c])] \/ token' = token
      BY <1>11 DEF HandleRekey
    <3>2. QED
      BY <2>1, <2>2, <3>1
  <2>4. UNCHANGED <<keys, rotPc, open, pc, fresh>>
    BY <1>11 DEF HandleRekey
  <2>5. QED
    BY <2>3, <2>4 DEF SecretsAreCurrent
<1>12. ASSUME NEW h \in Hosts, Enroll(h) PROVE SecretsAreCurrent'
  BY <1>12 DEF Enroll, SecretsAreCurrent
<1>13. ASSUME NEW h \in Hosts, Enrolled(h) PROVE SecretsAreCurrent'
  BY <1>13 DEF Enrolled, ConnectionsAreSingle, SecretsAreCurrent
<1>14. ASSUME Restart PROVE SecretsAreCurrent'
  BY <1>14 DEF Restart, SecretsAreCurrent
<1>15. CASE UNCHANGED vars
  BY <1>15 DEF vars, SecretsAreCurrent
<1>16. QED
  BY <1>1, <1>2, <1>3, <1>4, <1>5, <1>6, <1>7, <1>8, <1>9, <1>10, <1>11, <1>12,
     <1>13, <1>14, <1>15 DEF Next, Rotate, AgentHandler

\* A step that lists no connection anew, takes no JWT and skips no host.
LEMMA ReachedFrame ==
  ASSUME ReachedByRotation, UNCHANGED keys,
         \A c \in Conns : Listed(c)' /\ c \notin missed' =>
           Listed(c) /\ c \notin missed /\ LatestToken(c)' = LatestToken(c),
         \A r \in Rotations, h \in Hosts : Ahead(r, h) => Ahead(r, h)',
         HostOf \in [Conns -> Hosts]
  PROVE  ReachedByRotation'
BY DEF ReachedByRotation

\* A rekey with the current secret reaches whoever is registered, or leaves in
\* `missed` the connection it was meant for: the one that this step lists, or that
\* the rotation has no longer ahead.
LEMMA ReachedBySend ==
  ASSUME TypeOK, ReachedByRotation, NEW h \in Hosts, NEW o,
         SendRekeyToAgent(h, keys.current, o),
         UNCHANGED <<keys, token, registered, open>>,
         \A c \in Conns : Listed(c)' => Listed(c) \/ (c = o /\ HostOf[c] = h),
         \A r \in Rotations, g \in Hosts :
           Ahead(r, g) => Ahead(r, g)' \/ (g = h /\ o = registered[h])
  PROVE  ReachedByRotation'
<1> USE RotationAssumption
<1> SUFFICES ASSUME NEW c \in Conns, Listed(c)', c \notin missed'
             PROVE  \/ LatestToken(c)' = keys.current
                    \/ \E r \in Rotations : keys.current = r /\ Ahead(r, HostOf[c])'
  BY DEF ReachedByRotation
<1>1. c \in open /\ registered[HostOf[c]] = c /\ HostOf[c] \in Hosts
  BY DEF Listed
<1>2. keys.current \in Secrets
  BY DEF TypeOK, KeyState
<1>3. CASE Send(h, keys.current) /\ missed' = missed \ {registered[h]}
  <2>1. CASE c = registered[h]
    BY <1>1, <1>2, <1>3, <2>1, SendReaches DEF LatestToken
  <2>2. CASE c # registered[h]
    <3>1. Listed(c) /\ c \notin missed /\ HostOf[c] # h
      BY <1>1, <1>3, <2>2
    <3>2. LatestToken(c)' = LatestToken(c)
      BY <1>2, <1>3, <2>2, SendReaches DEF LatestToken
    <3>3. QED
      BY <1>1, <3>1, <3>2 DEF ReachedByRotation
  <2>3. QED
    BY <2>1, <2>2
<1>4. CASE inbox' = inbox /\ missed' = missed \cup ({o} \cap open)
  <2>1. c # o /\ c \notin missed
    BY <1>1, <1>4
  <2>2. Listed(c) /\ LatestToken(c)' = LatestToken(c)
    BY <1>4, <2>1 DEF LatestToken
  <2>3. \A r \in Rotations : Ahead(r, HostOf[c]) => Ahead(r, HostOf[c])'
    BY <1>1, <2>1
  <2>4. QED
    BY <2>1, <2>2, <2>3 DEF ReachedByRotation
<1>5. QED
  BY <1>3, <1>4 DEF SendRekeyToAgent

\* Taking the first message off a queue leaves the last one where it was.
LEMMA LastOfTail ==
  ASSUME NEW S, NEW q \in Seq(S), q # <<>>
  PROVE  IF Tail(q) = <<>> THEN Len(q) = 1
         ELSE Tail(q)[Len(Tail(q))] = q[Len(q)]
<1>1. Len(q) \in Nat /\ Len(q) > 0
  OBVIOUS
<1>2. Tail(q) \in Seq(S) /\ Len(Tail(q)) = Len(q) - 1
  OBVIOUS
<1>3. Len(Tail(q)) > 0 => Tail(q)[Len(Tail(q))] = q[Len(Tail(q)) + 1]
  BY <1>1, <1>2
<1>4. CASE Tail(q) = <<>>
  BY <1>1, <1>2, <1>4
<1>5. CASE Tail(q) # <<>>
  BY <1>1, <1>2, <1>3, <1>5
<1>6. QED
  BY <1>4, <1>5

\* The list of hosts is taken when every connection that has to hear of the
\* rotation is in it, and each of them gets the message or is listed no more.
LEMMA ReachedStep ==
  ASSUME TypeOK, ReachInv, [Next]_vars,
         (\E r \in Rotations : SwapKeys(r)) => QuietSwap
  PROVE  ReachedByRotation'
<1> USE RotationAssumption
    DEF TypeOK, ReachInv, store, rotation, handler, agents, history, Goto
<1>1. ASSUME NEW r \in Rotations, SwapKeys(r) PROVE ReachedByRotation'
  <2>1. keys'.current = r /\ rotPc'[r] = "previous"
    BY <1>1, RotGotoFrame DEF SwapKeys
  <2>2. \A h : Ahead(r, h)'
    BY <2>1 DEF Ahead, InProgress, Persisting
  <2>3. QED
    BY <2>1, <2>2 DEF ReachedByRotation
<1>2. ASSUME NEW r \in Rotations, PersistKeys(r) PROVE ReachedByRotation'
  <2>1. /\ InProgress(r)
        /\ rotPc'[r] \in Persisting \cup {"list"}
        /\ \A q \in Rotations : q # r => rotPc'[q] = rotPc[q]
        /\ UNCHANGED <<keys, todo, open, pc, registered, token, inbox, missed>>
    BY <1>2, RotGotoFrame DEF PersistKeys, ConfigSet, InProgress, Persisting
  <2>2. QED
    BY <2>1, ReachedFrame DEF Listed, LatestToken, Ahead, InProgress
<1>3. ASSUME NEW r \in Rotations, GetConnectedHostnames(r) PROVE ReachedByRotation'
  <2>1. keys.current = r
    BY <1>3 DEF GetConnectedHostnames, SecretsAreCurrent
  <2>2. /\ rotPc'[r] = "rekey" /\ todo'[r] = {h \in Hosts : registered[h] # None}
        /\ UNCHANGED <<keys, open, pc, registered>>
    BY <1>3, RotGotoFrame DEF GetConnectedHostnames
  <2>3. \A c \in Conns : Listed(c)' => Ahead(r, HostOf[c])'
    BY <2>2 DEF Listed, Ahead
  <2>4. QED
    BY <2>1, <2>2, <2>3 DEF ReachedByRotation
<1>4. ASSUME NEW r \in Rotations, NEW h \in Hosts, SendRekey(r, h)
      PROVE  ReachedByRotation'
  <2>1. keys.current = r
    BY <1>4 DEF SendRekey, SecretsAreCurrent
  <2>2. /\ SendRekeyToAgent(h, r, registered[h])
        /\ UNCHANGED <<keys, rotPc, token, registered, open, pc>>
        /\ todo' = [todo EXCEPT ![r] = @ \ {h}]
    BY <1>4 DEF SendRekey
  <2>3. \A q \in Rotations, g \in Hosts : Ahead(q, g) => Ahead(q, g)' \/ g = h
    BY <2>2 DEF Ahead, InProgress
  <2>4. QED
    BY <2>1, <2>2, <2>3, ReachedBySend DEF Listed
<1>5. ASSUME NEW r \in Rotations, EndRotation(r) PROVE ReachedByRotation'
  <2>1. /\ \A h : ~Ahead(r, h)
        /\ \A q \in Rotations : q # r => rotPc'[q] = rotPc[q]
        /\ UNCHANGED <<keys, todo, open, pc, registered, token, inbox, missed>>
    BY <1>5, RotGotoFrame DEF EndRotation, Ahead, InProgress, Persisting
  <2>2. QED
    BY <2>1, ReachedFrame DEF Listed, LatestToken, Ahead, InProgress
<1>6. ASSUME NEW r \in Rotations, GraceElapses(r) PROVE ReachedByRotation'
  BY <1>6, ReachedFrame DEF GraceElapses, Listed, LatestToken, Ahead, InProgress
<1>7. ASSUME NEW c \in Conns, Connect(c) PROVE ReachedByRotation'
  <2>1. /\ UNCHANGED <<keys, rotPc, todo, registered, token, inbox, missed>>
        /\ \E label \in {"accepted", "acceptedOld", "gone"} : Goto(c, label)
        /\ \A d \in Conns : d # c => (d \in open' <=> d \in open)
    BY <1>7 DEF Connect
  <2>2. QED
    BY <2>1, ReachedFrame DEF Listed, LatestToken, Ahead, InProgress
<1>8. ASSUME NEW c \in Conns, RegisterConnection(c) PROVE ReachedByRotation'
  <2>1. /\ UNCHANGED <<keys, rotPc, todo, open, token, inbox, missed>>
        /\ registered' = [registered EXCEPT ![HostOf[c]] = c]
        /\ pc' = [pc EXCEPT ![c] = IF pc[c] = "acceptedOld" THEN "rekey" ELSE "serving"]
        /\ pc[c] \in {"accepted", "acceptedOld"}
    BY <1>8 DEF RegisterConnection
  <2>2. inbox[c] = <<>>
    BY <2>1 DEF ConnectionsAreSingle
  <2>3. Listed(c)' => LatestToken(c)' = keys.current
    BY <2>1, <2>2 DEF Listed, LatestToken, SecretsAreCurrent
  <2>4. \A d \in Conns : d # c /\ Listed(d)' =>
          Listed(d) /\ LatestToken(d)' = LatestToken(d)
    BY <2>1 DEF Listed, LatestToken
  <2>5. \A r \in Rotations, h \in Hosts : Ahead(r, h) => Ahead(r, h)'
    BY <2>1 DEF Ahead, InProgress
  <2>6. QED
    BY <2>1, <2>3, <2>4, <2>5 DEF ReachedByRotation
<1>9. ASSUME NEW c \in Conns, ReadSecret(c) PROVE ReachedByRotation'
  BY <1>9, ReachedFrame DEF ReadSecret, Listed, LatestToken, Ahead, InProgress
<1>10. ASSUME NEW c \in Conns, RekeyAgent(c) PROVE ReachedByRotation'
  <2>1. /\ SendRekeyToAgent(HostOf[c], keys.current, c) /\ HostOf[c] \in Hosts
        /\ UNCHANGED <<keys, rotPc, todo, token, registered, open>>
        /\ pc' = [pc EXCEPT ![c] = "serving"]
    BY <1>10 DEF RekeyAgent, SecretsAreCurrent
  <2>2. \A d \in Conns : Listed(d)' => Listed(d) \/ d = c
    BY <2>1 DEF Listed
  <2>3. \A r \in Rotations, h \in Hosts : Ahead(r, h) => Ahead(r, h)'
    BY <2>1 DEF Ahead, InProgress
  <2>4. QED
    BY <2>1, <2>2, <2>3, ReachedBySend
<1>11. ASSUME NEW c \in Conns, UnregisterConnection(c) PROVE ReachedByRotation'
  BY <1>11, ReachedFrame
     DEF UnregisterConnection, Listed, LatestToken, Ahead, InProgress
<1>12. ASSUME NEW c \in Conns, LoseConnection(c) PROVE ReachedByRotation'
  BY <1>12, ReachedFrame DEF LoseConnection, Listed, LatestToken, Ahead, InProgress
<1>13. ASSUME NEW c \in Conns, HandleRekey(c) PROVE ReachedByRotation'
  <2>1. c \in open /\ \A d \in open : d # c => HostOf[d] # HostOf[c]
    BY <1>13 DEF HandleRekey, ConnectionsAreSingle
  <2>2. /\ inbox[c] \in Seq(Secrets) /\ inbox[c] # <<>>
        /\ inbox' = [inbox EXCEPT ![c] = Tail(inbox[c])]
        /\ UNCHANGED <<keys, rotPc, todo, registered, pc, open>>
    BY <1>13 DEF HandleRekey
  <2>3. IF Tail(inbox[c]) = <<>> THEN Len(inbox[c]) = 1
        ELSE Tail(inbox[c])[Len(Tail(inbox[c]))] = inbox[c][Len(inbox[c])]
    BY <2>2, LastOfTail
  <2>4. \/ token' = [token EXCEPT ![HostOf[c]] = Head(inbox[c])] /\ missed' = missed
        \/ /\ token' = token
           /\ missed' = IF Tail(inbox[c]) = <<>> THEN missed \cup {c} ELSE missed
    BY <1>13 DEF HandleRekey
  <2>5. c \notin missed' => LatestToken(c)' = LatestToken(c)
    <3>1. CASE Tail(inbox[c]) = <<>>
      <4>1. c \notin missed' => token'[HostOf[c]] = inbox[c][1]
        BY <2>2, <2>4, <3>1
      <4>2. QED
        BY <2>2, <2>3, <3>1, <4>1 DEF LatestToken
    <3>2. CASE Tail(inbox[c]) # <<>>
      BY <2>2, <2>3, <3>2 DEF LatestToken
    <3>3. QED
      BY <3>1, <3>2
  <2>6. \A d \in open : d # c => LatestToken(d)' = LatestToken(d)
    BY <2>1, <2>2, <2>4 DEF LatestToken
  <2>7. missed \subseteq missed'
    BY <2>4
  <2>8. QED
    BY <2>2, <2>5, <2>6, <2>7, ReachedFrame DEF Listed, Ahead, InProgress
<1>14. ASSUME NEW h \in Hosts, Enroll(h) PROVE ReachedByRotation'
  BY <1>14, ReachedFrame DEF Enroll, Listed, LatestToken, Ahead, InProgress
<1>15. ASSUME NEW h \in Hosts, Enrolled(h) PROVE ReachedByRotation'
  <2>1. \A d \in open : HostOf[d] # h
    BY <1>15 DEF Enrolled, ConnectionsAreSingle
  <2>2. \A d \in open : LatestToken(d)' = LatestToken(d)
    BY <1>15, <2>1 DEF Enrolled, LatestToken
  <2>3. QED
    BY <1>15, <2>2, ReachedFrame DEF Enrolled, Listed, Ahead, InProgress
<1>16. ASSUME Restart PROVE ReachedByRotation'
  BY <1>16 DEF Restart, ReachedByRotation, Listed
<1>17. CASE UNCHANGED vars
  BY <1>17, ReachedFrame DEF vars, Listed, LatestToken, Ahead, InProgress
<1>18. QED
  BY <1>1, <1>2, <1>3, <1>4, <1>5, <1>6, <1>7, <1>8, <1>9, <1>10, <1>11, <1>12,
     <1>13, <1>14, <1>15, <1>16, <1>17 DEF Next, Rotate, AgentHandler

\* ARCHITECTURE.md, "Pour chaque agent connecte", holds of every rotation whose
\* swap meets none of the three races of QuietSwap, whatever connections, losses,
\* enrolments, restarts, failed writes and failed rekeys follow: once it has
\* returned, each agent that is connected and registered has a JWT of its secret, or
\* one on its way, or is one whose own last rekey was not sent or was dropped.
THEOREM QuietRotationsReachEveryAgent == Spec /\ Quiet => []RotationReachesEveryAgent
<1>1. Init => ReachInv
  BY RotationAssumption
     DEF Init, ReachInv, ConnectionsAreSingle, SecretsAreCurrent, ReachedByRotation,
         Listed
<1>2. TypeOK /\ ReachInv /\ [Next]_vars
        /\ [(\E r \in Rotations : SwapKeys(r)) => QuietSwap]_vars => ReachInv'
  <2> SUFFICES ASSUME TypeOK, ReachInv, [Next]_vars,
                      [(\E r \in Rotations : SwapKeys(r)) => QuietSwap]_vars
               PROVE  ReachInv'
    OBVIOUS
  <2>1. (\E r \in Rotations : SwapKeys(r)) => QuietSwap
    BY RotationAssumption DEF SwapKeys, RotGoto, vars, rotation, TypeOK
  <2>2. QED
    BY <2>1, ConnectionsStep, SecretsStep, ReachedStep DEF ReachInv
<1>3. TypeOK /\ ReachInv => RotationReachesEveryAgent
  <2> SUFFICES ASSUME TypeOK, ReachInv, NEW r \in Rotations, NEW c \in open \ missed,
                      rotPc[r] = "done",
                      keys.current = r, pc[c] = "serving", registered[HostOf[c]] = c,
                      inbox[c] = <<>>
               PROVE  token[HostOf[c]] = r
    BY DEF RotationReachesEveryAgent
  <2>1. c \in Conns /\ Listed(c)
    BY DEF Listed, TypeOK
  <2>2. ~Ahead(r, HostOf[c])
    BY DEF Ahead, InProgress, Persisting
  <2>3. QED
    BY <2>1, <2>2 DEF ReachInv, ReachedByRotation, LatestToken
<1>4. QED
  BY <1>1, <1>2, <1>3, TypeCorrect, PTL DEF Spec, Quiet
=============================================================================
