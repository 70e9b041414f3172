----------------------------- MODULE AgentProofs -----------------------------
(***************************************************************************)
(* Theorems about AgentDispatcher, for every number of messages, slots,    *)
(* retries and connections.                                                *)
(***************************************************************************)
EXTENDS AgentProperties, FiniteSetTheorems, FunctionTheorems, TLAPS

\* The steps of a job past the read loop.
JobStep(e) ==
  \/ e \in Execs /\ (StartCommand(e) \/ Deadline(e) \/ Kill(e) \/ Wait(e) \/ Reply(e)
                       \/ UnregisterTask(e) \/ ReleaseSlot(e))
  \/ e \in Transfers /\ (Transfer(e) \/ ReplyTransfer(e))

LEMMA NextActions ==
  ASSUME [Next]_vars
  PROVE  \/ RunStep \/ Lose \/ Terminate
         \/ \E e \in Execs : ReadExec(e) \/ ReadBusy(e)
         \/ \E e \in Transfers : ReadTransfer(e)
         \/ \E t \in TaskIds : ReadCancel(t)
         \/ \E e \in Jobs : JobStep(e)
         \/ UNCHANGED vars
BY DEF Next, Read, ExecStep, TransferStep, JobStep, Jobs

-----------------------------------------------------------------------------
(* Slots.  The type of sem rests on the count: a slot is given back only   *)
(* by a goroutine that holds one.                                          *)

Counted == TypeOK /\ SlotsAreHeld

\* A step that moves no goroutine in or out of Holding keeps the count.
LEMMA HoldersFrame ==
  ASSUME UNCHANGED sem, SlotsAreHeld,
         \A e \in Execs : /\ pc'[e] \in Holding <=> pc[e] \in Holding
                          /\ pc[e] \in Holding => connOf'[e] = connOf[e]
  PROVE  SlotsAreHeld'
<1>1. \A c \in Conns : Holders(c)' = Holders(c)
  BY DEF Holders
<1> QED BY <1>1 DEF SlotsAreHeld

LEMMA HoldersFinite == \A c \in Conns : IsFiniteSet(Holders(c))
BY FS_Subset, AgentAssumption DEF Holders

\* Init has no goroutine.
LEMMA CountedInit == Init => Counted
<1> SUFFICES ASSUME Init PROVE Counted
  OBVIOUS
<1>1. TypeOK
  <2>1. /\ 0 \in 0..MaxConns /\ 0 \in 0..MaxRetries-1
        /\ 0 \in 0..MaxConcurrent
    BY AgentAssumption
  <2> QED BY <2>1 DEF Init, TypeOK, Jobs
<1>2. \A c \in Conns : Holders(c) = {}
  BY DEF Init, Holders, Holding, Registered, Jobs
<1>3. SlotsAreHeld
  <2>1. \A c \in Conns : sem[c] = 0 /\ Cardinality(Holders(c)) = 0
    BY <1>2, FS_EmptySet DEF Init
  <2> QED BY <2>1, AgentAssumption DEF SlotsAreHeld
<1> QED BY <1>1, <1>3 DEF Counted

\* Run itself touches neither goroutines nor slots.
LEMMA CountedRunStep == ASSUME Counted, RunStep \/ Lose PROVE Counted'
<1> USE DEF Counted, TypeOK, loop, maps, work
<1>1. CASE CallCancel
  <2>1. UNCHANGED <<sem, pc, connOf>>
    BY <1>1 DEF CallCancel
  <2>2. SlotsAreHeld'
    BY <2>1, HoldersFrame
  <2>3. TypeOK'
    BY <1>1 DEF CallCancel
  <2> QED BY <2>2, <2>3
<1>2. CASE ~CallCancel
  <2>1. UNCHANGED <<maps, work>>
    BY <1>2 DEF RunStep, Dial, DialFails, Unauthorized, ReEnrolled, ReEnrollRefused,
                ReEnrollFails, WaitOver, ReadError, Lose, BackOff
  <2>2. SlotsAreHeld'
    BY <2>1, HoldersFrame
  <2>3. TypeOK'
    <3>1. CASE Dial
      BY <2>1, <3>1, AgentAssumption DEF Dial, Conns
    <3>2. CASE BackOff /\ UNCHANGED <<conn, sock, tries, jwtFile, stopping>>
      BY <2>1, <3>2 DEF BackOff
    <3>3. CASE ReEnrollFails
      BY <2>1, <3>3, AgentAssumption DEF ReEnrollFails
    <3>4. CASE Unauthorized \/ ReEnrolled \/ ReEnrollRefused \/ WaitOver
      <4>1. 0 \in 0..MaxRetries-1
        BY AgentAssumption
      <4>2. UNCHANGED <<conn, sock, stopping>> /\ run' # "serving"
        BY <3>4 DEF Unauthorized, ReEnrolled, ReEnrollRefused, WaitOver
      <4>3. /\ run' \in {"dial", "reenroll", "stopped"} /\ jwtFile' \in BOOLEAN
            /\ tries' \in {tries, 0}
        BY <3>4 DEF Unauthorized, ReEnrolled, ReEnrollRefused, WaitOver
      <4> QED BY <2>1, <4>1, <4>2, <4>3
    <3>5. CASE Lose
      BY <2>1, <3>5 DEF Lose
    <3>6. CASE ReadError
      BY <2>1, <3>2, <3>6 DEF ReadError
    <3> QED
      BY <1>2, <3>1, <3>2, <3>3, <3>4, <3>5, <3>6 DEF RunStep, DialFails
  <2> QED BY <2>2, <2>3
<1> QED BY <1>1, <1>2

\* The read loop takes at most one slot, of the current connection.
LEMMA CountedReadExec ==
  ASSUME Counted, NEW e \in Execs, ReadExec(e) PROVE Counted'
<1> USE DEF Counted, Receive, Goto, Jobs
<1>0. PICK c \in Conns : c = conn
  BY DEF TypeOK, ReadExec, Reading
<1>1. /\ e \notin Holders(c)
      /\ Holders(c)' = Holders(c) \cup {e}
      /\ \A d \in Conns \ {c} : Holders(d)' = Holders(d)
  <2>1. /\ pc[e] \notin Holding /\ pc'[e] \in Holding /\ connOf'[e] = c
        /\ \A d \in Execs \ {e} : pc'[d] = pc[d] /\ connOf'[d] = connOf[d]
    BY <1>0 DEF TypeOK, ReadExec, Holding, Registered
  <2> QED BY <2>1 DEF Holders
<1>2. Cardinality(Holders(c)') = Cardinality(Holders(c)) + 1
  BY <1>1, HoldersFinite, FS_AddElement
<1>3. /\ sem[c] \in 0..MaxConcurrent /\ sem[c] < MaxConcurrent
      /\ sem' = [sem EXCEPT ![c] = @ + 1]
  BY <1>0 DEF TypeOK, ReadExec
<1>4. SlotsAreHeld'
  <2>1. sem'[c] = Cardinality(Holders(c)') /\ sem'[c] <= MaxConcurrent
    BY <1>2, <1>3, AgentAssumption DEF SlotsAreHeld, TypeOK
  <2>2. \A d \in Conns \ {c} :
          sem'[d] = Cardinality(Holders(d)') /\ sem'[d] <= MaxConcurrent
    BY <1>1, <1>3 DEF SlotsAreHeld, TypeOK
  <2> QED BY <2>1, <2>2 DEF SlotsAreHeld
<1>5. TypeOK'
  <2>1. sem' \in [Conns -> 0..MaxConcurrent]
    BY <1>3, AgentAssumption DEF TypeOK
  <2>2. \A d \in Execs : pc'[d] \notin {"idle", "done"} => connOf'[d] \in Conns
    BY <1>0 DEF TypeOK, ReadExec
  <2> QED BY <1>0, <2>1, <2>2, AgentAssumption DEF TypeOK, ReadExec, loop
<1> QED BY <1>4, <1>5

\* The other messages take none.
LEMMA CountedRead ==
  ASSUME Counted,
         \/ \E e \in Execs : ReadBusy(e)
         \/ \E e \in Transfers : ReadTransfer(e)
         \/ \E t \in TaskIds : ReadCancel(t)
         \/ Terminate
  PROVE  Counted'
<1> USE DEF Counted, Receive, Goto, Jobs, loop, maps
<1>1. SlotsAreHeld'
  <2>1. UNCHANGED sem
    BY DEF ReadBusy, ReadTransfer, ReadCancel, Terminate
  <2>2. UNCHANGED connOf
    BY DEF ReadBusy, ReadTransfer, ReadCancel, Terminate, work
  <2>3. \A e \in Execs : pc'[e] \in Holding <=> pc[e] \in Holding
    <3>1. ASSUME NEW d \in Execs, ReadBusy(d)
          PROVE  \A e \in Execs : pc'[e] \in Holding <=> pc[e] \in Holding
      BY <3>1 DEF TypeOK, ReadBusy, Holding, Registered
    <3>2. ASSUME NEW d \in Transfers, ReadTransfer(d)
          PROVE  \A e \in Execs : pc'[e] \in Holding <=> pc[e] \in Holding
      BY <3>2, AgentAssumption DEF TypeOK, ReadTransfer
    <3> QED BY <3>1, <3>2 DEF ReadCancel, Terminate, work
  <2> QED BY <2>1, <2>2, <2>3, HoldersFrame
<1>2. TypeOK'
  <2>1. ASSUME NEW e \in Execs, ReadBusy(e) PROVE TypeOK'
    BY <2>1 DEF TypeOK, ReadBusy, Outcomes, Refusals
  <2>2. ASSUME NEW e \in Transfers, ReadTransfer(e) PROVE TypeOK'
    BY <2>2, AgentAssumption DEF TypeOK, ReadTransfer
  <2>3. ASSUME NEW t \in TaskIds, ReadCancel(t) PROVE TypeOK'
    BY <2>3 DEF TypeOK, ReadCancel, work
  <2>4. CASE Terminate
    BY <2>4 DEF TypeOK, Terminate
  <2> QED BY <2>1, <2>2, <2>3, <2>4
<1> QED BY <1>1, <1>2

\* A goroutine gives back its own slot, once.
LEMMA CountedReleaseSlot ==
  ASSUME Counted, NEW e \in Execs, ReleaseSlot(e) PROVE Counted'
<1> USE DEF Counted, Goto, Over, Jobs
<1>0. PICK c \in Conns : c = connOf[e]
  BY DEF TypeOK, ReleaseSlot
<1>1. /\ e \in Holders(c)
      /\ Holders(c)' = Holders(c) \ {e}
      /\ \A d \in Conns \ {c} : Holders(d)' = Holders(d)
  <2>1. /\ pc[e] \in Holding /\ pc'[e] \notin Holding
        /\ \A d \in Execs \ {e} : pc'[d] = pc[d] /\ connOf'[d] = connOf[d]
    BY DEF TypeOK, ReleaseSlot, Holding, Registered
  <2> QED BY <1>0, <2>1 DEF Holders
<1>2. /\ Cardinality(Holders(c)) \in Nat
      /\ Cardinality(Holders(c)') = Cardinality(Holders(c)) - 1
      /\ Cardinality(Holders(c)') \in Nat
  BY <1>1, HoldersFinite, FS_RemoveElement, FS_CardinalityType
<1>3. /\ sem[c] \in 0..MaxConcurrent /\ sem[c] > 0
      /\ sem' = [sem EXCEPT ![c] = @ - 1]
  BY <1>0, <1>1, <1>2, AgentAssumption DEF TypeOK, ReleaseSlot, SlotsAreHeld
<1>4. SlotsAreHeld'
  <2>1. sem'[c] = Cardinality(Holders(c)') /\ sem'[c] <= MaxConcurrent
    BY <1>2, <1>3, AgentAssumption DEF SlotsAreHeld, TypeOK
  <2>2. \A d \in Conns \ {c} :
          sem'[d] = Cardinality(Holders(d)') /\ sem'[d] <= MaxConcurrent
    BY <1>1, <1>3 DEF SlotsAreHeld, TypeOK
  <2> QED BY <2>1, <2>2 DEF SlotsAreHeld
<1>5. TypeOK'
  BY <1>3, AgentAssumption DEF TypeOK, ReleaseSlot, loop
<1> QED BY <1>4, <1>5

\* The other steps of a goroutine keep its slot.
LEMMA CountedJobStep ==
  ASSUME Counted, NEW e \in Jobs, JobStep(e), ~ (e \in Execs /\ ReleaseSlot(e))
  PROVE  Counted'
<1> USE DEF Counted, JobStep, Goto, Over, Send, Jobs, loop, maps, End, EndCommand
<1>1. SlotsAreHeld'
  <2>1. UNCHANGED sem
    BY DEF StartCommand, Transfer, Deadline, Kill, Wait, Reply, ReplyTransfer, UnregisterTask
  <2>2. \A d \in Execs : /\ pc'[d] \in Holding <=> pc[d] \in Holding
                         /\ pc[d] \in Holding => connOf'[d] = connOf[d]
    BY AgentAssumption
       DEF TypeOK, StartCommand, Transfer, Deadline, Kill, Wait, Reply, ReplyTransfer,
           UnregisterTask, Holding, Registered
  <2> QED BY <2>1, <2>2, HoldersFrame
<1>2. TypeOK'
  <2>1. CASE e \in Transfers
    BY <2>1, AgentAssumption DEF TypeOK, Transfer, ReplyTransfer, Outcomes, Endings, Refusals
  <2>2. CASE e \in Execs
    <3>1. CASE StartCommand(e)
      BY <2>2, <3>1 DEF TypeOK, StartCommand, Outcomes, Refusals
    <3>2. CASE Wait(e)
      BY <2>2, <3>2 DEF TypeOK, Wait, WaitError, Outcomes, Endings
    <3>3. CASE Deadline(e) \/ Kill(e) \/ Reply(e) \/ UnregisterTask(e)
      BY <2>2, <3>3, AgentAssumption DEF TypeOK, Deadline, Kill, Reply, UnregisterTask
    <3> QED BY <2>2, <3>1, <3>2, <3>3, AgentAssumption
  <2> QED BY <2>1, <2>2
<1> QED BY <1>1, <1>2

LEMMA CountedStep == ASSUME Counted, [Next]_vars PROVE Counted'
<1>1. CASE UNCHANGED vars
  BY <1>1, HoldersFrame DEF vars, loop, maps, work, Counted, TypeOK
<1>2. CASE \E e \in Jobs : JobStep(e)
  BY <1>2, CountedJobStep, CountedReleaseSlot
<1> QED
  BY <1>1, <1>2, NextActions, CountedRunStep, CountedReadExec, CountedRead

LEMMA CountedAlways == Spec => []Counted
BY CountedInit, CountedStep, PTL DEF Spec

\* Every variable keeps its type.
THEOREM TypeCorrect == Spec => []TypeOK
BY CountedAlways, PTL DEF Counted

\* The semaphore counts exactly the goroutines started from its connection.
THEOREM SlotsAreCounted == Spec => []SlotsAreHeld
BY CountedAlways, PTL DEF Counted

-----------------------------------------------------------------------------
(* Cancel functions.  The map is keyed by task id and a goroutine removes  *)
(* whatever is under its own.  CancelsOfId says what remains whatever the  *)
(* ids; with an id per task it is RegisteredIsCancellable.                 *)

\* agent_busy is told of a message that gets no goroutine.
BusyIsTurnedAway ==
  \A e \in Execs : pc[e] \in Holding \cup {"idle"} => outcome[e] # "busy"

Filed == TypeOK /\ CancelsOfId /\ BusyIsTurnedAway

LEMMA FiledInit == Init => Filed
<1>1. Init => TypeOK
  BY CountedInit DEF Counted
<1>2. Init => CancelsOfId /\ BusyIsTurnedAway
  BY DEF Init, CancelsOfId, BusyIsTurnedAway, Registered, Jobs
<1> QED BY <1>1, <1>2 DEF Filed

\* What a goroutine that shares its id did to the map is not undone.
LEMMA SharedStaysShared ==
  ASSUME NEW e \in Execs, SharesItsId(e),
         \A d \in Execs : \/ pc'[d] = pc[d] /\ outcome'[d] = outcome[d]
                          \/ pc'[d] # "idle" /\ outcome'[d] # "busy"
  PROVE  SharesItsId(e)'
BY DEF SharesItsId

\* A step that leaves the map alone and ends no registered task.
LEMMA FiledFrame ==
  ASSUME Filed, TypeOK', UNCHANGED tasks, BusyIsTurnedAway',
         \A e \in Execs : pc'[e] \in Registered <=> pc[e] \in Registered,
         \A e \in Execs : SharesItsId(e) => SharesItsId(e)'
  PROVE  Filed'
BY DEF Filed, TypeOK, CancelsOfId

\* The entry becomes that of e; the task that had it shares its id with e.
LEMMA FiledReadExec ==
  ASSUME Filed, TypeOK', NEW e \in Execs, ReadExec(e) PROVE Filed'
<1>1. /\ pc[e] = "idle" /\ pc' = [pc EXCEPT ![e] = "start"] /\ UNCHANGED outcome
      /\ tasks' = [tasks EXCEPT ![TaskOf[e]] = e] /\ TaskOf[e] \in TaskIds
  BY AgentAssumption DEF ReadExec, Receive, Goto
<1>2. BusyIsTurnedAway'
  BY <1>1 DEF Filed, TypeOK, BusyIsTurnedAway, Holding, Registered, Jobs
<1>3. \A d \in Execs : SharesItsId(d) => SharesItsId(d)'
  <2>1. \A d \in Execs : \/ pc'[d] = pc[d] /\ outcome'[d] = outcome[d]
                         \/ pc'[d] # "idle" /\ outcome'[d] # "busy"
    BY <1>1 DEF Filed, TypeOK, BusyIsTurnedAway, Jobs
  <2> QED BY <2>1, SharedStaysShared
<1>4. \A t \in TaskIds : tasks'[t] # None =>
        TaskOf[tasks'[t]] = t /\ pc'[tasks'[t]] \in Registered
  BY <1>1, AgentAssumption DEF Filed, TypeOK, CancelsOfId, Registered, Jobs
<1>5. ASSUME NEW d \in Execs, pc'[d] \in Registered
      PROVE  tasks'[TaskOf[d]] = d \/ SharesItsId(d)'
  <2>1. CASE d = e
    BY <1>1, <2>1, AgentAssumption DEF Filed, TypeOK
  <2>2. CASE d # e /\ TaskOf[d] = TaskOf[e]
    <3>1. pc'[e] # "idle" /\ outcome'[e] # "busy"
      BY <1>1 DEF Filed, TypeOK, BusyIsTurnedAway, Jobs
    <3> QED BY <2>2, <3>1 DEF SharesItsId
  <2>3. CASE TaskOf[d] # TaskOf[e]
    <3>1. tasks'[TaskOf[d]] = tasks[TaskOf[d]] /\ pc[d] \in Registered
      BY <1>1, <1>5, <2>3, AgentAssumption DEF Filed, TypeOK, Jobs
    <3> QED BY <3>1, <1>3 DEF Filed, CancelsOfId
  <2> QED BY <2>1, <2>2, <2>3
<1> QED BY <1>2, <1>4, <1>5 DEF Filed, CancelsOfId

\* e removes the entry of its id: its own, or that of a task it shares it with.
LEMMA FiledUnregister ==
  ASSUME Filed, TypeOK', NEW e \in Execs, UnregisterTask(e) PROVE Filed'
<1>1. /\ pc[e] = "unregister" /\ pc' = [pc EXCEPT ![e] = "release"]
      /\ UNCHANGED outcome /\ TaskOf[e] \in TaskIds
      /\ tasks' = [tasks EXCEPT ![TaskOf[e]] = None]
  BY AgentAssumption DEF UnregisterTask, Goto
<1>2. outcome[e] # "busy"
  BY <1>1 DEF Filed, BusyIsTurnedAway, Holding, Registered
<1>3. BusyIsTurnedAway'
  BY <1>1, <1>2 DEF Filed, TypeOK, BusyIsTurnedAway, Jobs
<1>4. \A d \in Execs : SharesItsId(d) => SharesItsId(d)'
  BY <1>1, <1>2, SharedStaysShared DEF Filed, TypeOK, Jobs
<1>5. \A t \in TaskIds : tasks'[t] # None =>
        TaskOf[tasks'[t]] = t /\ pc'[tasks'[t]] \in Registered
  BY <1>1, AgentAssumption DEF Filed, TypeOK, CancelsOfId, Jobs
<1>6. ASSUME NEW d \in Execs, pc'[d] \in Registered
      PROVE  tasks'[TaskOf[d]] = d \/ SharesItsId(d)'
  <2>1. d # e /\ pc[d] \in Registered
    BY <1>1, <1>6 DEF Filed, TypeOK, Registered, Jobs
  <2>2. CASE TaskOf[d] = TaskOf[e]
    BY <1>1, <1>2, <2>1, <2>2 DEF SharesItsId, Filed, TypeOK, Jobs
  <2>3. CASE TaskOf[d] # TaskOf[e]
    <3>1. tasks'[TaskOf[d]] = tasks[TaskOf[d]]
      BY <1>1, <2>3, AgentAssumption DEF Filed, TypeOK
    <3> QED BY <2>1, <3>1, <1>4 DEF Filed, CancelsOfId
  <2> QED BY <2>2, <2>3
<1> QED BY <1>3, <1>5, <1>6 DEF Filed, CancelsOfId

\* The other steps of a job end no registration; what they make is not busy.
LEMMA FiledJobStep ==
  ASSUME Filed, TypeOK', NEW e \in Jobs, JobStep(e),
         ~ (e \in Execs /\ UnregisterTask(e))
  PROVE  Filed'
<1> USE AgentAssumption DEF Jobs
<1>1. UNCHANGED tasks
  BY DEF JobStep, StartCommand, Transfer, Deadline, Kill, Wait, Reply, ReplyTransfer,
         ReleaseSlot, maps
<1>2. /\ pc[e] \in Holding /\ pc'[e] # "idle"
      /\ \A d \in Jobs \ {e} : pc'[d] = pc[d] /\ outcome'[d] = outcome[d]
  BY DEF Filed, TypeOK, JobStep, StartCommand, Transfer, Deadline, Kill, Wait, Reply,
         ReplyTransfer, ReleaseSlot, End, EndCommand, Send, Over, Goto, Registered, Holding
<1>3. outcome'[e] = outcome[e]
      \/ outcome'[e] \in {"refused", "broken", "result", "timeout", "cancelled"}
  BY DEF Filed, TypeOK, JobStep, StartCommand, Transfer, Deadline, Kill, Wait, Reply,
         ReplyTransfer, ReleaseSlot, End, EndCommand, Send, WaitError
<1>4. e \in Execs => (pc'[e] \in Registered <=> pc[e] \in Registered)
  BY DEF Filed, TypeOK, JobStep, StartCommand, Deadline, Kill, Wait, Reply,
         ReleaseSlot, End, EndCommand, Send, Over, Goto, Registered
<1>5. e \in Execs => outcome'[e] # "busy"
  BY <1>2, <1>3 DEF Filed, BusyIsTurnedAway
<1>6. \A d \in Execs : pc'[d] \in Registered <=> pc[d] \in Registered
  BY <1>2, <1>4
<1>7. BusyIsTurnedAway'
  BY <1>2, <1>5 DEF Filed, BusyIsTurnedAway
<1>8. \A d \in Execs : SharesItsId(d) => SharesItsId(d)'
  BY <1>2, <1>5, SharedStaysShared
<1> QED BY <1>1, <1>6, <1>7, <1>8, FiledFrame

LEMMA FiledStep == ASSUME Filed, TypeOK', [Next]_vars PROVE Filed'
<1> USE DEF maps, work, Jobs
<1>1. CASE RunStep \/ Lose \/ Terminate \/ UNCHANGED vars
  <2>1. UNCHANGED <<tasks, pc, outcome>>
    BY <1>1 DEF RunStep, Dial, DialFails, Unauthorized, ReEnrolled, ReEnrollRefused,
                ReEnrollFails, WaitOver, ReadError, CallCancel, Lose, Terminate, vars
  <2> QED BY <2>1, FiledFrame DEF Filed, BusyIsTurnedAway, SharesItsId
<1>2. CASE \E e \in Execs : ReadExec(e)
  BY <1>2, FiledReadExec
<1>3. CASE \E e \in Execs : ReadBusy(e)
  <2> PICK e \in Execs : ReadBusy(e)
    BY <1>3
  <2>1. /\ UNCHANGED tasks /\ pc[e] = "idle"
        /\ pc' = [pc EXCEPT ![e] = "done"] /\ outcome' = [outcome EXCEPT ![e] = "busy"]
    BY DEF ReadBusy, Receive, Goto
  <2>2. \A d \in Execs : pc'[d] \in Registered <=> pc[d] \in Registered
    BY <2>1 DEF Filed, TypeOK, Registered
  <2>3. BusyIsTurnedAway'
    BY <2>1 DEF Filed, TypeOK, BusyIsTurnedAway, Holding, Registered
  <2>4. \A d \in Execs : SharesItsId(d) => SharesItsId(d)'
    BY <2>1 DEF Filed, TypeOK, SharesItsId
  <2> QED BY <2>1, <2>2, <2>3, <2>4, FiledFrame
<1>4. CASE \/ \E e \in Transfers : ReadTransfer(e)
           \/ \E t \in TaskIds : ReadCancel(t)
  <2>1. UNCHANGED <<tasks, outcome>> /\ \A e \in Execs : pc'[e] = pc[e]
    BY <1>4, AgentAssumption DEF Filed, TypeOK, ReadTransfer, ReadCancel, Receive, Goto
  <2> QED BY <2>1, FiledFrame DEF Filed, BusyIsTurnedAway, SharesItsId
<1>5. CASE \E e \in Execs : UnregisterTask(e)
  BY <1>5, FiledUnregister
<1>6. CASE \E e \in Jobs : JobStep(e) /\ ~ (e \in Execs /\ UnregisterTask(e))
  BY <1>6, FiledJobStep
<1> QED BY <1>1, <1>2, <1>3, <1>4, <1>5, <1>6, NextActions DEF JobStep

LEMMA FiledAlways == Spec => []Filed
<1>1. Filed /\ TypeOK' /\ [Next]_vars => Filed'
  BY FiledStep
<1> QED BY <1>1, FiledInit, TypeCorrect, PTL DEF Spec

\* Whatever the ids: a cancel message reaches a live task of its id, and a live
\* task that no cancel reaches shares its id with another that was accepted.
THEOREM CancelsReachTheirId == Spec => []CancelsOfId
<1>1. Filed => CancelsOfId
  BY DEF Filed
<1> QED BY <1>1, FiledAlways, PTL

\* With an id per task, every task that has a goroutine can be cancelled by
\* its id, and no id designates a task that has ended.
THEOREM TasksAreCancellable == UniqueIds => (Spec => []RegisteredIsCancellable)
<1> SUFFICES ASSUME UniqueIds PROVE Spec => []RegisteredIsCancellable
  OBVIOUS
<1>1. CancelsOfId => RegisteredIsCancellable
  BY DEF CancelsOfId, SharesItsId, UniqueIds, RegisteredIsCancellable
<1> QED BY <1>1, CancelsReachTheirId, PTL

-----------------------------------------------------------------------------
(* The promise.  What the control point of a goroutine says of what was    *)
(* run and answered.                                                       *)

Unasked   == {"idle", "start"}
Underway  == {"running", "killed"}

HonestAt(e) ==
  /\ pc[e] \in Unasked => e \notin ran
  /\ pc[e] \in Underway => e \in ran
  /\ pc[e] \in Unasked \cup Underway \cup {"reply"} => answer[e] = "none"
  /\ pc[e] = "reply" =>
       /\ outcome[e] \in Outcomes
       /\ outcome[e] \in Endings => e \in ran
       /\ outcome[e] \in Refusals => e \notin ran

Honest == \A e \in Jobs : HonestAt(e)

\* A step that only moves goroutines past their answer, or within Underway.
Quiet ==
  /\ UNCHANGED <<ran, answer, outcome>>
  /\ \A e \in Jobs :
       \/ pc'[e] = pc[e]
       \/ pc[e] \in Underway /\ pc'[e] \in Underway
       \/ pc[e] # "idle" /\ pc'[e] \in {"release", "done"}

LEMMA QuietSteps ==
  ASSUME TypeOK,
         \/ RunStep \/ Lose \/ Terminate \/ UNCHANGED vars
         \/ \E t \in TaskIds : ReadCancel(t)
         \/ \E e \in Execs : Deadline(e) \/ Kill(e) \/ UnregisterTask(e) \/ ReleaseSlot(e)
  PROVE  Quiet
<1> USE DEF Quiet, work, Jobs, Underway, TypeOK
<1>1. CASE RunStep \/ Lose \/ Terminate \/ UNCHANGED vars
  BY <1>1 DEF RunStep, Dial, DialFails, Unauthorized, ReEnrolled, ReEnrollRefused,
              ReEnrollFails, WaitOver, ReadError, CallCancel, Lose, Terminate, vars
<1>2. CASE \E t \in TaskIds : ReadCancel(t)
  BY <1>2 DEF ReadCancel
<1>3. CASE \E e \in Execs : Deadline(e) \/ Kill(e) \/ UnregisterTask(e) \/ ReleaseSlot(e)
  BY <1>3 DEF Deadline, Kill, UnregisterTask, ReleaseSlot, Goto, Over
<1> QED BY <1>1, <1>2, <1>3

LEMMA QuietStep ==
  ASSUME Honest, Quiet PROVE Honest' /\ UNCHANGED Promise!vars
<1> USE DEF Quiet
<1>1. Honest'
  BY DEF Honest, HonestAt, Unasked, Underway
<1>2. {e \in Jobs : pc'[e] # "idle"} = {e \in Jobs : pc[e] # "idle"}
  BY DEF Underway
<1> QED BY <1>1, <1>2 DEF Promise!vars

\* A goroutine starts, or the message is refused: the task is accepted.
LEMMA AcceptStep ==
  ASSUME TypeOK, Honest, NEW e \in Jobs,
         \/ e \in Execs /\ (ReadExec(e) \/ ReadBusy(e))
         \/ e \in Transfers /\ ReadTransfer(e)
  PROVE  Honest' /\ (Promise!Ask(e) \/ Promise!Refuse(e))
<1> USE DEF Receive, Goto, Jobs
<1>1. /\ pc[e] = "idle"
      /\ UNCHANGED ran
      /\ \/ pc' = [pc EXCEPT ![e] = "start"] /\ UNCHANGED <<answer, outcome>>
         \/ pc' = [pc EXCEPT ![e] = "done"] /\ answer' = [answer EXCEPT ![e] = "busy"]
              /\ outcome' = [outcome EXCEPT ![e] = "busy"]
  BY DEF ReadExec, ReadBusy, ReadTransfer
<1>2. Honest'
  BY <1>1 DEF TypeOK, Honest, HonestAt, Unasked, Underway
<1>3. /\ e \notin {d \in Jobs : pc[d] # "idle"}
      /\ {d \in Jobs : pc'[d] # "idle"} = {d \in Jobs : pc[d] # "idle"} \cup {e}
  BY <1>1 DEF TypeOK
<1>4. CASE pc' = [pc EXCEPT ![e] = "start"] /\ UNCHANGED <<answer, outcome>>
  BY <1>1, <1>2, <1>3, <1>4 DEF Promise!Ask
<1>5. CASE answer' = [answer EXCEPT ![e] = "busy"]
  <2>1. answer[e] = "none" /\ e \notin ran
    BY <1>1 DEF Honest, HonestAt, Unasked
  <2>2. Promise!Give(e, "busy")
    BY <1>1, <1>5, <2>1 DEF Promise!Give, Endings, Refusals
  <2>3. "busy" \in Refusals
    BY DEF Refusals
  <2> QED BY <1>2, <1>3, <2>2, <2>3 DEF Promise!Refuse
<1> QED BY <1>1, <1>4, <1>5

\* The command or the transfer is started, or not.
LEMMA StartStep ==
  ASSUME TypeOK, Honest, NEW e \in Jobs,
         (e \in Execs /\ StartCommand(e)) \/ (e \in Transfers /\ Transfer(e))
  PROVE  Honest' /\ (Promise!Run(e) \/ UNCHANGED Promise!vars)
<1> USE DEF End, EndCommand, Goto, Jobs
<1>1. /\ pc[e] = "start"
      /\ UNCHANGED answer
      /\ \/ /\ ran' = ran \cup {e}
            /\ \/ pc' = [pc EXCEPT ![e] = "running"] /\ UNCHANGED outcome
               \/ /\ pc' = [pc EXCEPT ![e] = "reply"]
                  /\ \E kind \in {"result", "broken"} :
                       outcome' = [outcome EXCEPT ![e] = kind]
         \/ /\ UNCHANGED ran
            /\ pc' = [pc EXCEPT ![e] = "reply"]
            /\ \E kind \in {"refused", "broken"} :
                 outcome' = [outcome EXCEPT ![e] = kind]
  BY DEF StartCommand, Transfer
<1>2. Honest'
  BY <1>1 DEF TypeOK, Honest, HonestAt, Unasked, Underway, Outcomes, Endings, Refusals
<1>3. {d \in Jobs : pc'[d] # "idle"} = {d \in Jobs : pc[d] # "idle"}
  BY <1>1 DEF TypeOK
<1>4. answer[e] = "none" /\ e \notin ran
  BY <1>1 DEF Honest, HonestAt, Unasked
<1>5. CASE ran' = ran \cup {e}
  BY <1>1, <1>2, <1>3, <1>4, <1>5 DEF Promise!Run, Refusals
<1>6. CASE UNCHANGED ran
  BY <1>1, <1>2, <1>3, <1>6 DEF Promise!vars
<1> QED BY <1>1, <1>5, <1>6

\* Only a command that was started ends.
LEMMA WaitStep ==
  ASSUME TypeOK, Honest, NEW e \in Execs, Wait(e)
  PROVE  Honest' /\ UNCHANGED Promise!vars
<1>1. /\ pc[e] \in Underway /\ pc' = [pc EXCEPT ![e] = "reply"]
      /\ UNCHANGED <<ran, answer>>
      /\ \E kind \in Endings : outcome' = [outcome EXCEPT ![e] = kind]
  BY DEF Wait, End, EndCommand, Goto, WaitError, Underway, Endings
<1>2. Honest'
  BY <1>1 DEF TypeOK, Honest, HonestAt, Unasked, Underway, Outcomes, Endings, Refusals, Jobs
<1>3. {d \in Jobs : pc'[d] # "idle"} = {d \in Jobs : pc[d] # "idle"}
  BY <1>1 DEF TypeOK, Jobs, Underway
<1> QED BY <1>1, <1>2, <1>3 DEF Promise!vars

LEMMA ReplyStep ==
  ASSUME TypeOK, Honest, NEW e \in Jobs,
         (e \in Execs /\ Reply(e)) \/ (e \in Transfers /\ ReplyTransfer(e))
  PROVE  Honest' /\ Promise!Reply(e)
<1>1. /\ pc[e] = "reply"
      /\ \E label \in {"unregister", "done"} : pc' = [pc EXCEPT ![e] = label]
      /\ UNCHANGED <<ran, outcome>>
      /\ answer' = [answer EXCEPT ![e] = outcome[e]]
  BY DEF Reply, ReplyTransfer, Send, Goto, Over
<1>2. Honest'
  BY <1>1 DEF TypeOK, Honest, HonestAt, Unasked, Underway, Jobs
<1>3. /\ e \in {d \in Jobs : pc[d] # "idle"}
      /\ {d \in Jobs : pc'[d] # "idle"} = {d \in Jobs : pc[d] # "idle"}
  BY <1>1 DEF TypeOK
<1>4. outcome[e] \in Outcomes /\ Promise!Give(e, outcome[e])
  BY <1>1 DEF Honest, HonestAt, Promise!Give
<1> QED BY <1>2, <1>3, <1>4 DEF Promise!Reply

LEMMA HonestStep ==
  ASSUME TypeOK, Honest, [Next]_vars
  PROVE  Honest' /\ [Promise!Next]_(Promise!vars)
<1>1. CASE \/ RunStep \/ Lose \/ Terminate \/ UNCHANGED vars
           \/ \E t \in TaskIds : ReadCancel(t)
  BY <1>1, QuietSteps, QuietStep
<1>2. CASE \/ \E e \in Execs : ReadExec(e) \/ ReadBusy(e)
           \/ \E e \in Transfers : ReadTransfer(e)
  BY <1>2, AcceptStep DEF Jobs, Promise!Next
<1>3. CASE \E e \in Jobs : JobStep(e)
  <2> PICK e \in Jobs : JobStep(e)
    BY <1>3
  <2>1. CASE (e \in Execs /\ StartCommand(e)) \/ (e \in Transfers /\ Transfer(e))
    BY <2>1, StartStep DEF Promise!Next
  <2>2. CASE (e \in Execs /\ Reply(e)) \/ (e \in Transfers /\ ReplyTransfer(e))
    BY <2>2, ReplyStep DEF Promise!Next
  <2>3. CASE e \in Execs /\ Wait(e)
    BY <2>3, WaitStep
  <2>4. CASE e \in Execs /\ (Deadline(e) \/ Kill(e) \/ UnregisterTask(e) \/ ReleaseSlot(e))
    BY <2>4, QuietSteps, QuietStep
  <2> QED BY <2>1, <2>2, <2>3, <2>4 DEF JobStep
<1> QED BY <1>1, <1>2, <1>3, NextActions

\* The agent implements the promise: one answer per message at most, that of a
\* command only if it was started, a refusal only if it never is.
THEOREM AgentImplementsPromise == Spec => AgentKeepsPromise
<1>1. Init => Honest /\ Promise!Init
  BY DEF Init, Honest, HonestAt, Promise!Init, Unasked, Underway
<1>2. TypeOK /\ Honest /\ [Next]_vars => Honest' /\ [Promise!Next]_(Promise!vars)
  BY HonestStep
<1> QED BY <1>1, <1>2, TypeCorrect, PTL DEF Spec, AgentKeepsPromise, Promise!Spec

-----------------------------------------------------------------------------
(* Cancellation.  The inductive invariant: what is cancelled goes on and   *)
(* was asked for, or ctx is done; the cancel function held was asked for,  *)
(* or is of a command that has ended.                                      *)

CausedAt(e) ==
  /\ e \in cancelled => Unfinished(e) /\ (e \in asked \/ stopping)
  /\ found = e => e \in asked \/ ~Unfinished(e)
  /\ found = e \/ e \in asked => pc[e] # "idle"
  /\ e \in asked /\ Unfinished(e) => e \in cancelled \/ found = e
  /\ pc[e] = "reply" /\ outcome[e] = "cancelled" => e \in asked \/ stopping

Caused == \A e \in Execs : CausedAt(e)

\* What the steps of others leave alone.
LEMMA CausedFrame ==
  ASSUME NEW e \in Execs, CausedAt(e), stopping => stopping',
         e \in cancelled' <=> e \in cancelled,
         e \in asked' <=> e \in asked,
         found' = found, pc'[e] = pc[e], outcome'[e] = outcome[e]
  PROVE  CausedAt(e)'
BY DEF CausedAt, Unfinished

\* The read loop: a message, or a cancel looked up by its id and then called.
LEMMA CausedRead ==
  ASSUME TypeOK, CancelsOfId, UniqueIds, Caused, Read \/ CallCancel \/ Terminate
  PROVE  Caused'
<1> SUFFICES ASSUME NEW e \in Execs PROVE CausedAt(e)'
  BY DEF Caused
<1> USE DEF Goto, Receive, Reading, Jobs, loop, maps
<1>0. CausedAt(e)
  BY DEF Caused
<1>1. ASSUME NEW d \in Execs, ReadExec(d) PROVE CausedAt(e)'
  BY <1>0, <1>1, AgentAssumption DEF ReadExec, TypeOK, CausedAt, Unfinished
<1>2. ASSUME NEW d \in Execs, ReadBusy(d) PROVE CausedAt(e)'
  BY <1>0, <1>2 DEF ReadBusy, TypeOK, CausedAt, Unfinished
<1>3. ASSUME NEW d \in Transfers, ReadTransfer(d) PROVE CausedAt(e)'
  <2>1. d # e
    BY AgentAssumption
  <2> QED BY <1>0, <1>3, <2>1, CausedFrame DEF ReadTransfer, TypeOK
<1>4. ASSUME NEW t \in TaskIds, ReadCancel(t) PROVE CausedAt(e)'
  <2>1. /\ UNCHANGED <<cancelled, pc, outcome, stopping>>
        /\ found = None /\ found' = tasks[t]
        /\ e \in asked' <=> e \in asked \/ (TaskOf[e] = t /\ Unfinished(e))
    BY <1>4 DEF ReadCancel, work
  <2>2. TaskOf[e] = t /\ Unfinished(e) => tasks[t] = e
    BY DEF CancelsOfId, SharesItsId, UniqueIds, Registered, Unfinished
  <2>3. tasks[t] = e => pc[e] # "idle" /\ TaskOf[e] = t
    BY AgentAssumption DEF CancelsOfId, Registered
  <2> QED BY <1>0, <2>1, <2>2, <2>3, AgentAssumption DEF CausedAt, Unfinished
<1>5. CASE CallCancel
  BY <1>0, <1>5, AgentAssumption DEF CallCancel, CausedAt, Unfinished
<1>6. CASE Terminate
  BY <1>0, <1>6 DEF Terminate, CausedAt, Unfinished
<1> QED BY <1>1, <1>2, <1>3, <1>4, <1>5, <1>6 DEF Read

\* The goroutine of e: its command ends with the cancellation it has got.
LEMMA CausedJobStep ==
  ASSUME TypeOK, Caused, NEW d \in Jobs, JobStep(d) PROVE Caused'
<1> SUFFICES ASSUME NEW e \in Execs PROVE CausedAt(e)'
  BY DEF Caused
<1> USE DEF Goto, End, EndCommand, Send, Over, Jobs, loop, maps
<1>0. CausedAt(e)
  BY DEF Caused
<1>1. CASE d # e
  BY <1>0, <1>1, CausedFrame
     DEF TypeOK, JobStep, StartCommand, Deadline, Kill, Wait, Reply, UnregisterTask,
         ReleaseSlot, Transfer, ReplyTransfer
<1>2. CASE d = e
  <2> d \notin Transfers
    BY <1>2, AgentAssumption
  <2>1. CASE StartCommand(d)
    BY <1>0, <1>2, <2>1 DEF StartCommand, TypeOK, CausedAt, Unfinished
  <2>2. CASE Deadline(d) \/ Kill(d)
    BY <1>0, <1>2, <2>2 DEF Deadline, Kill, TypeOK, CausedAt, Unfinished
  <2>3. CASE Wait(d)
    BY <1>0, <1>2, <2>3 DEF Wait, WaitError, TypeOK, CausedAt, Unfinished
  <2>4. CASE Reply(d)
    BY <1>0, <1>2, <2>4 DEF Reply, TypeOK, CausedAt, Unfinished
  <2>5. CASE UnregisterTask(d) \/ ReleaseSlot(d)
    BY <1>0, <1>2, <2>5 DEF UnregisterTask, ReleaseSlot, TypeOK, CausedAt, Unfinished
  <2> QED BY <2>1, <2>2, <2>3, <2>4, <2>5 DEF JobStep
<1> QED BY <1>1, <1>2

LEMMA CausedStep ==
  ASSUME TypeOK, CancelsOfId, UniqueIds, Caused, [Next]_vars PROVE Caused'
<1>1. CASE (RunStep /\ ~CallCancel) \/ Lose \/ UNCHANGED vars
  <2>1. UNCHANGED <<maps, work, stopping>>
    BY <1>1 DEF RunStep, Dial, DialFails, Unauthorized, ReEnrolled, ReEnrollRefused,
                ReEnrollFails, WaitOver, ReadError, Lose, vars, loop
  <2> QED BY <2>1 DEF maps, work, Caused, CausedAt, Unfinished
<1>2. CASE CallCancel \/ Terminate \/ Read
  BY <1>2, CausedRead
<1>3. CASE \E e \in Jobs : JobStep(e)
  BY <1>3, CausedJobStep
<1> QED BY <1>1, <1>2, <1>3, NextActions DEF Read

\* With an id per task: a task is reported cancelled only if a cancel of its id
\* came in time, or at shutdown; and a cancel that came in time gets to the
\* command, whatever connections were lost and made in between.
THEOREM CancellationIsExact == UniqueIds => (Spec => []CancelIsExact)
<1> SUFFICES ASSUME UniqueIds PROVE Spec => []CancelIsExact
  OBVIOUS
<1>1. Init => Caused
  BY AgentAssumption DEF Init, Caused, CausedAt, Jobs
<1>2. TypeOK /\ CancelsOfId /\ Caused /\ [Next]_vars => Caused'
  BY CausedStep
<1>3. TypeOK /\ Caused => CancelIsExact
  BY DEF TypeOK, Caused, CausedAt, CancelIsExact
<1> QED BY <1>1, <1>2, <1>3, TypeCorrect, CancelsReachTheirId, PTL DEF Spec

-----------------------------------------------------------------------------
(* The end after close code 4001.                                          *)

\* Run reads from a socket until it learns of its end, and leaves for good when
\* it learns of a revocation.
RevokedLeaves == sock \in {"open", "revoked"} => run \in {"serving", "stopped"}

LEMMA RevokedLeavesStep ==
  ASSUME RevokedLeaves, [Next]_vars
  PROVE  RevokedLeaves' /\ (sock = "revoked" => UNCHANGED conn)
<1>1. CASE RunStep \/ Lose \/ Terminate
  BY <1>1 DEF RevokedLeaves, RunStep, Dial, DialFails, Unauthorized, ReEnrolled,
              ReEnrollRefused, ReEnrollFails, WaitOver, Reading, ReadError, CallCancel,
              Lose, Terminate, BackOff, Alive, loop
<1>2. CASE \/ \E e \in Execs : ReadExec(e) \/ ReadBusy(e)
           \/ \E e \in Transfers : ReadTransfer(e)
           \/ \E t \in TaskIds : ReadCancel(t)
  BY <1>2 DEF RevokedLeaves, ReadExec, ReadBusy, ReadTransfer, ReadCancel, loop
<1>3. CASE \E e \in Jobs : JobStep(e)
  BY <1>3 DEF RevokedLeaves, JobStep, StartCommand, Deadline, Kill, Wait, Reply,
              UnregisterTask, ReleaseSlot, Transfer, ReplyTransfer, loop
<1>4. CASE UNCHANGED vars
  BY <1>4 DEF RevokedLeaves, vars, loop
<1> QED BY <1>1, <1>2, <1>3, <1>4, NextActions

\* After close code 4001 the agent makes no other connection.
THEOREM RevocationIsFinal == Spec => RevokedIsFinal
<1>1. Init => RevokedLeaves
  BY DEF Init, RevokedLeaves
<1>2. RevokedLeaves /\ [Next]_vars
        => RevokedLeaves' /\ [sock = "revoked" => UNCHANGED conn]_vars
  BY RevokedLeavesStep
<1> QED BY <1>1, <1>2, PTL DEF Spec, RevokedIsFinal

-----------------------------------------------------------------------------
(* All connections together.                                               *)

\* A goroutine that holds a slot has it from a connection made so far.
Connected == \A e \in Execs : pc[e] \in Holding => connOf[e] <= conn

LEMMA ConnectedStep == ASSUME TypeOK, Connected, [Next]_vars PROVE Connected'
<1> USE DEF TypeOK, Connected, Jobs, Conns, loop
<1>1. conn' \in {conn, conn + 1}
  BY NextActions
     DEF RunStep, Dial, DialFails, Unauthorized, ReEnrolled, ReEnrollRefused,
         ReEnrollFails, WaitOver, ReadError, CallCancel, Lose, Terminate, ReadExec, ReadBusy,
         ReadTransfer, ReadCancel, JobStep, StartCommand, Transfer, Deadline, Kill,
         Wait, Reply, ReplyTransfer, UnregisterTask, ReleaseSlot, vars
<1>2. ASSUME NEW e \in Execs, pc'[e] \in Holding
      PROVE  \/ pc[e] \in Holding /\ connOf'[e] = connOf[e]
             \/ connOf'[e] = conn
  <2>1. CASE \E d \in Jobs : JobStep(d)
    BY <1>2, <2>1, AgentAssumption
       DEF JobStep, StartCommand, Transfer, Deadline, Kill, Wait, Reply, ReplyTransfer,
           UnregisterTask, ReleaseSlot, Goto, End, EndCommand, Send, Over, Holding,
           Registered
  <2>2. CASE \/ \E d \in Execs : ReadExec(d) \/ ReadBusy(d)
             \/ \E d \in Transfers : ReadTransfer(d)
             \/ \E t \in TaskIds : ReadCancel(t)
    <3>1. ASSUME NEW d \in Execs, ReadExec(d) \/ ReadBusy(d)
          PROVE  \/ pc[e] \in Holding /\ connOf'[e] = connOf[e]
                 \/ connOf'[e] = conn
      BY <1>2, <3>1 DEF ReadExec, ReadBusy, Goto, Holding, Registered
    <3>2. ASSUME NEW d \in Transfers, ReadTransfer(d)
          PROVE  pc[e] \in Holding /\ connOf'[e] = connOf[e]
      BY <1>2, <3>2, AgentAssumption DEF ReadTransfer, Goto
    <3> QED BY <1>2, <2>2, <3>1, <3>2 DEF ReadCancel, work
  <2>3. CASE RunStep \/ Lose \/ Terminate \/ UNCHANGED vars
    BY <1>2, <2>3
       DEF RunStep, Dial, DialFails, Unauthorized, ReEnrolled, ReEnrollRefused,
           ReEnrollFails, WaitOver, ReadError, CallCancel, Lose, Terminate, vars, work
  <2> QED BY <2>1, <2>2, <2>3, NextActions
<1> QED BY <1>1, <1>2, AgentAssumption

\* The goroutines of one connection can be numbered by its slots.
LEMMA SlotsNumber ==
  ASSUME Counted, NEW c \in Conns
  PROVE  \E f \in [Holders(c) -> 1..MaxConcurrent] :
           \A d, e \in Holders(c) : f[d] = f[e] => d = e
<1> DEFINE n == Cardinality(Holders(c))
<1>1. n \in Nat /\ ExistsBijection(1..n, Holders(c))
  BY HoldersFinite, FS_CardinalityType
<1>2. ExistsInjection(Holders(c), 1..n)
  BY <1>1, Fun_ExistsBijEquiv
<1>3. PICK f \in Injection(Holders(c), 1..n) : TRUE
  BY <1>2 DEF ExistsInjection
<1>4. f \in [Holders(c) -> 1..n] /\ \A d, e \in Holders(c) : f[d] = f[e] => d = e
  BY <1>3 DEF Injection, IsInjective
<1>5. n <= MaxConcurrent
  BY DEF Counted, SlotsAreHeld
<1>6. 1..n \subseteq 1..MaxConcurrent
  BY <1>1, <1>5, AgentAssumption
<1> HIDE DEF n
<1>7. f \in [Holders(c) -> 1..MaxConcurrent]
  BY <1>4, <1>6
<1> QED BY <1>4, <1>7

\* maxConcurrent bounds a connection, and the agent once for each connection.
THEOREM CommandsStayBounded == Spec => []CommandsAreBounded
<1>1. Init => Connected
  BY DEF Init, Connected, Holding, Registered, Jobs
<1>2. Counted /\ Connected => CommandsAreBounded
  <2> SUFFICES ASSUME Counted, Connected PROVE CommandsAreBounded
    OBVIOUS
  <2> DEFINE IsNumbering(c, f) ==
               /\ f \in [Holders(c) -> 1..MaxConcurrent]
               /\ \A d, e \in Holders(c) : f[d] = f[e] => d = e
             number(c) == CHOOSE f : IsNumbering(c, f)
             slot == [e \in Occupied |-> <<connOf[e], number(connOf[e])[e]>>]
             Slots == (1..conn) \X (1..MaxConcurrent)
  <2>1. \A c \in Conns : IsNumbering(c, number(c))
    BY SlotsNumber
  <2>2. \A e \in Occupied : /\ connOf[e] \in 1..conn /\ connOf[e] \in Conns
                            /\ e \in Holders(connOf[e])
    BY AgentAssumption
       DEF Counted, TypeOK, Connected, Occupied, Holders, Conns, Jobs, Holding, Registered
  <2> HIDE DEF number
  <2>3. slot \in [Occupied -> Slots]
    BY <2>1, <2>2
  <2>4. \A d, e \in Occupied : slot[d] = slot[e] => d = e
    BY <2>1, <2>2
  <2>5. slot \in Injection(Occupied, Slots)
    BY <2>3, <2>4, Fun_IsInj
  <2>6. /\ IsFiniteSet(1..conn) /\ Cardinality(1..conn) = conn
        /\ IsFiniteSet(1..MaxConcurrent) /\ Cardinality(1..MaxConcurrent) = MaxConcurrent
    BY FS_Interval, AgentAssumption DEF Counted, TypeOK
  <2>7. /\ IsFiniteSet(Slots)
        /\ Cardinality(Slots) = Cardinality(1..conn) * Cardinality(1..MaxConcurrent)
    BY <2>6, FS_Product
  <2>8. Cardinality(Slots) = conn * MaxConcurrent
    BY <2>6, <2>7
  <2> HIDE DEF slot, Slots
  <2> QED BY <2>5, <2>7, <2>8, FS_Injection DEF CommandsAreBounded
<1> QED
  BY <1>1, <1>2, ConnectedStep, TypeCorrect, CountedAlways, PTL DEF Spec

-----------------------------------------------------------------------------
(* SIGTERM.                                                                *)

\* Once ctx is cancelled Run dials no more and enrols no more, and each step it
\* takes brings it nearer to its return: dispatcher.go:239 is broken by the read
\* on an open socket, and by nothing else that Run does.
THEOREM TerminationAdvances == Spec => TerminateAdvances
<1>1. TypeOK /\ [Next]_vars =>
        [stopping => /\ UNCHANGED <<conn, jwtFile>>
                     /\ run' # run => StepsLeft' < StepsLeft]_vars
  <2> SUFFICES ASSUME TypeOK, [Next]_vars, stopping
               PROVE  /\ UNCHANGED <<conn, jwtFile>>
                      /\ run' # run => StepsLeft' < StepsLeft
    OBVIOUS
  <2>1. CASE RunStep
    <3>1. /\ UNCHANGED <<conn, jwtFile>>
          /\ \/ run = "dial" /\ run' = "backoff"
             \/ run = "reenroll" /\ run' \in {"pause", "stopped"}
             \/ run \in {"backoff", "pause"} /\ run' = "stopped"
             \/ run = "serving" /\ run' \in {"backoff", "stopped"}
             \/ run' = run
      BY <2>1 DEF RunStep, Dial, DialFails, Unauthorized, ReEnrolled, ReEnrollRefused,
                  ReEnrollFails, WaitOver, Reading, ReadError, CallCancel, BackOff, loop
    <3> QED BY <3>1 DEF StepsLeft
  <2>2. CASE ~RunStep
    BY <2>2, NextActions
       DEF Lose, Terminate, ReadExec, ReadBusy, ReadTransfer, ReadCancel, JobStep,
           StartCommand, Transfer, Deadline, Kill, Wait, Reply, ReplyTransfer,
           UnregisterTask, ReleaseSlot, loop, vars
  <2> QED BY <2>1, <2>2
<1> QED BY <1>1, TypeCorrect, PTL DEF Spec, TerminateAdvances
=============================================================================
