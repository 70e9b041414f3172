------------------------------ MODULE HookProofs ------------------------------
(***************************************************************************)
(* Theorems about HookDispatcher, for every configuration, every number of *)
(* events and actions, every size of the queue and every history of the    *)
(* file.                                                                   *)
(***************************************************************************)
EXTENDS HookDispatcher, WellFoundedInduction, TLAPS

(***************************************************************************)
(* Reloads.  While a content is loaded but not yet in force, either it is  *)
(* the last one, or another signal waits, or none was sent for it.         *)
(***************************************************************************)
LoadedIsCurrent == signalled /\ ~sighup /\ reload = "set" => loaded = file

ReloadInv == LoadedIsCurrent /\ SighupTakesEffect

LEMMA ReloadInit == Init => ReloadInv
BY DEF Init, ReloadInv, LoadedIsCurrent, SighupTakesEffect

\* Nothing but edits, signals and the SIGHUP goroutine touches the reload.
LEMMA ReloadFrame == ASSUME [Next]_vars
                     PROVE  EditFile \/ Sighup \/ LoadConfig \/ SetConfig \/ UNCHANGED reloading
BY DEF Next, vars, Emit, Dispatch, Consume, Take, StopConsumer, ReadConfig, Launch, LaunchFrom,
       EndJob, EndJobAt, ActionStep, Attempt, BackoffOver, CreateActionLog, EndAction,
       ShellStuck, ShellReleased, Reload, Shutdown

LEMMA ReloadStep == ASSUME ReloadInv, [Next]_vars PROVE ReloadInv'
<1> USE DEF ReloadInv, LoadedIsCurrent, SighupTakesEffect, file
<1>1. CASE EditFile
  BY <1>1 DEF EditFile
<1>2. CASE Sighup
  BY <1>2 DEF Sighup
<1>3. CASE LoadConfig
  BY <1>3 DEF LoadConfig
<1>4. CASE SetConfig
  BY <1>4 DEF SetConfig
<1>5. CASE UNCHANGED reloading
  BY <1>5 DEF reloading
<1> QED BY <1>1, <1>2, <1>3, <1>4, <1>5, ReloadFrame

\* A SIGHUP that arrives during a reload is not lost: the last content signalled
\* is in force once nothing is pending.
THEOREM SighupIsNotLost == Spec => []SighupTakesEffect
<1>1. ReloadInv => SighupTakesEffect
  BY DEF ReloadInv
<1> QED BY <1>1, ReloadInit, ReloadStep, PTL DEF Spec

-----------------------------------------------------------------------------
(* The queue: each event has one place, which the two theorems on actions  *)
(* rest on.                                                                *)

QueuedOnce ==
  /\ \A e \in Events :
       evPc[e] = "queued" <=> \E i \in DOMAIN queue : queue[i] = e
  /\ \A i, j \in DOMAIN queue : queue[i] = queue[j] => i = j
  /\ \A e \in Events :
       evPc[e] = "taken" <=> consumer \in {"read", "launch"} /\ job = e

Placed ==
  /\ evPc \in [Events -> {"idle", "calling", "queued", "taken", "launched", "dropped"}]
  /\ queue \in Seq(Events)
  /\ Len(queue) <= QueueSize
  /\ consumer \in {"select", "read", "launch", "stopped"}
  /\ consumer \in {"read", "launch"} => job \in Events

QueueInv == Placed /\ QueuedOnce

LEMMA QueueInit == Init => QueueInv
<1> SUFFICES ASSUME Init PROVE QueueInv
  OBVIOUS
<1>1. queue \in Seq(Events) /\ Len(queue) = 0 /\ DOMAIN queue = {}
  BY DEF Init
<1> QED BY <1>1, HookAssumption DEF Init, QueueInv, Placed, QueuedOnce

LEMMA DispatchKeeps == ASSUME QueueInv, NEW e \in Events, Dispatch(e) PROVE QueueInv'
<1> USE DEF QueueInv, Placed, QueuedOnce
<1>1. CASE Len(queue) < QueueSize /\ queue' = Append(queue, e)
  <2>1. /\ evPc[e] = "calling" /\ evPc' = [evPc EXCEPT ![e] = "queued"]
        /\ UNCHANGED <<consumer, job>>
    BY <1>1 DEF Dispatch, consuming
  <2>2. /\ Len(queue') = Len(queue) + 1 /\ queue' \in Seq(Events)
        /\ queue'[Len(queue) + 1] = e
        /\ \A i \in 1..Len(queue) : queue'[i] = queue[i]
    BY <1>1
  <2>3. \A i \in DOMAIN queue : queue[i] # e
    BY <2>1
  <2>4. Placed'
    BY <1>1, <2>1, <2>2, HookAssumption
  <2>5. DOMAIN queue = 1..Len(queue) /\ DOMAIN queue' = 1..Len(queue)+1
    BY <2>2
  <2>6. \A d \in Events : evPc'[d] = "queued" <=> \E i \in DOMAIN queue' : queue'[i] = d
    BY <2>1, <2>2, <2>5
  <2>7. \A i, j \in DOMAIN queue' : queue'[i] = queue'[j] => i = j
    BY <2>2, <2>3, <2>5
  <2>8. \A d \in Events :
          evPc'[d] = "taken" <=> consumer' \in {"read", "launch"} /\ job' = d
    BY <2>1
  <2> QED BY <2>4, <2>6, <2>7, <2>8
<1>2. CASE evPc' = [evPc EXCEPT ![e] = "dropped"] /\ UNCHANGED queue
  BY <1>2 DEF Dispatch, consuming
<1> QED BY <1>1, <1>2 DEF Dispatch

LEMMA TakeKeeps == ASSUME QueueInv, Take PROVE QueueInv'
<1> USE DEF QueueInv, Placed, QueuedOnce
<1>1. /\ queue # <<>> /\ queue' = Tail(queue) /\ job' = queue[1] /\ job' \in Events
      /\ consumer = "select" /\ consumer' = "read"
      /\ evPc' = [evPc EXCEPT ![queue[1]] = "taken"]
  BY DEF Take
<1>2. /\ Len(queue) \in Nat \ {0} /\ Len(queue') = Len(queue) - 1
      /\ queue' \in Seq(Events)
      /\ \A i \in 1..Len(queue)-1 : queue'[i] = queue[i+1]
  BY <1>1
<1>3. DOMAIN queue = 1..Len(queue) /\ DOMAIN queue' = 1..Len(queue)-1
  BY <1>2
<1>4. Placed'
  BY <1>1, <1>2, HookAssumption
<1>5. \A d \in Events : evPc'[d] = "queued" <=> \E i \in DOMAIN queue' : queue'[i] = d
  <2> TAKE d \in Events
  <2>1. CASE d = queue[1]
    BY <1>1, <1>2, <1>3, <2>1
  <2>2. CASE d # queue[1]
    <3>1. (\E i \in DOMAIN queue : queue[i] = d) <=> (\E i \in DOMAIN queue' : queue'[i] = d)
      <4>1. ASSUME NEW i \in DOMAIN queue, queue[i] = d
            PROVE  i-1 \in DOMAIN queue' /\ queue'[i-1] = d
        BY <1>2, <1>3, <2>2, <4>1
      <4>2. ASSUME NEW i \in DOMAIN queue', queue'[i] = d
            PROVE  i+1 \in DOMAIN queue /\ queue[i+1] = d
        BY <1>2, <1>3, <4>2
      <4> QED BY <4>1, <4>2
    <3> QED BY <1>1, <2>2, <3>1
  <2> QED BY <2>1, <2>2
<1>6. \A i, j \in DOMAIN queue' : queue'[i] = queue'[j] => i = j
  <2> TAKE i, j \in DOMAIN queue'
  <2>1. /\ i+1 \in DOMAIN queue /\ j+1 \in DOMAIN queue
        /\ queue'[i] = queue[i+1] /\ queue'[j] = queue[j+1]
    BY <1>2, <1>3
  <2>2. ASSUME queue'[i] = queue'[j] PROVE i+1 = j+1
    <3>1. queue[i+1] = queue[j+1]
      BY <2>1, <2>2
    <3>2. \A k, l \in DOMAIN queue : queue[k] = queue[l] => k = l
      OBVIOUS
    <3> HIDE DEF QueueInv, Placed, QueuedOnce
    <3> QED BY <2>1, <3>1, <3>2
  <2> QED BY <1>2, <1>3, <2>2
<1>7. \A d \in Events :
        evPc'[d] = "taken" <=> consumer' \in {"read", "launch"} /\ job' = d
  BY <1>1
<1> QED BY <1>4, <1>5, <1>6, <1>7

LEMMA QueueStep == ASSUME QueueInv, [Next]_vars PROVE QueueInv'
<1> USE DEF QueueInv, Placed, QueuedOnce, events, consuming
<1>1. ASSUME NEW e \in Events, Emit(e) PROVE QueueInv'
  BY <1>1 DEF Emit
<1>2. CASE StopConsumer
  BY <1>2 DEF StopConsumer
<1>3. CASE ReadConfig
  BY <1>3 DEF ReadConfig
<1>4. CASE Launch
  BY <1>4 DEF Launch, LaunchFrom
<1>5. CASE EndJob
  BY <1>5 DEF EndJob, EndJobAt
<1>6. CASE \/ EditFile \/ Sighup \/ LoadConfig \/ SetConfig \/ Shutdown \/ UNCHANGED vars
           \/ \E r \in Runs : Attempt(r) \/ BackoffOver(r) \/ CreateActionLog(r)
                                \/ ShellStuck(r) \/ ShellReleased(r)
  <2>1. UNCHANGED <<evPc, queue, consumer, job>>
    BY <1>6 DEF EditFile, Sighup, LoadConfig, SetConfig, Shutdown, vars, Attempt, BackoffOver,
                CreateActionLog, EndAction, ShellStuck, ShellReleased
  <2> QED BY <2>1
<1> QED
  BY <1>1, <1>2, <1>3, <1>4, <1>5, <1>6, DispatchKeeps, TakeKeeps
     DEF Next, Consume, ActionStep, Reload

LEMMA EventsAreQueuedOnce == Spec => []QueuedOnce
<1>1. QueueInv => QueuedOnce
  BY DEF QueueInv
<1> QED BY <1>1, QueueInit, QueueStep, PTL DEF Spec

-----------------------------------------------------------------------------
(* Types                                                                   *)

\* ActionsFor takes the least index that matches.
LEMMA SmallestExists == ASSUME NEW S \in SUBSET Nat, S # {}
                        PROVE  \E x \in S : \A y \in S : x <= y
<1> DEFINE R == {ss \in Nat \X Nat : ss[1] < ss[2]}
<1>1. IsWellFoundedOn(R, Nat)
  BY NatLessThanWellFounded DEF OpToRel
<1>2. \E x \in S : \A y \in S : <<y, x>> \notin R
  <2> HIDE DEF R
  <2> QED BY <1>1, WFMin
<1>3. PICK x \in S : \A y \in S : <<y, x>> \notin R
  BY <1>2
<1>4. \A y \in S : ~(y < x)
  BY <1>3
<1> QED BY <1>4

LEMMA ActionsForTypes ==
  ASSUME NEW c \in Versions, NEW kind \in Kinds
  PROVE  ActionsFor(c, kind) \in Seq(ActionDefs) /\ Len(ActionsFor(c, kind)) <= MaxActions
<1>1. CASE c = NoConfig
  BY <1>1, HookAssumption DEF ActionsFor
<1>2. CASE c # NoConfig
  <2> DEFINE HookDefs == [event: Kinds, actions: Seq(ActionDefs)]
             defs == Hooks[c]
             matching == {i \in DOMAIN defs : defs[i].event = kind}
  <2>1. /\ c \in Configs /\ defs \in Seq(HookDefs)
        /\ \A i \in DOMAIN defs : Len(defs[i].actions) <= MaxActions
    BY <1>2, HookAssumption DEF Versions
  <2>2. DOMAIN defs \subseteq Nat
    BY <2>1
  <2>3. matching # {} => Min(matching) \in matching
    <3>1. ASSUME matching # {} PROVE \E x \in matching : \A y \in matching : x <= y
      BY <2>2, <3>1, SmallestExists
    <3> HIDE DEF matching
    <3> QED BY <3>1 DEF Min
  <2>4. matching # {} => defs[Min(matching)].actions \in Seq(ActionDefs)
    <3>0. \A def \in HookDefs : def.actions \in Seq(ActionDefs)
      OBVIOUS
    <3> HIDE DEF HookDefs, defs
    <3>1. \A i \in DOMAIN defs : defs[i].actions \in Seq(ActionDefs)
      BY <2>1, <3>0
    <3> QED BY <2>3, <3>1
  <2>5. ActionsFor(c, kind) = IF matching = {} THEN <<>> ELSE defs[Min(matching)].actions
    BY <1>2 DEF ActionsFor
  <2>6. matching # {} => Len(defs[Min(matching)].actions) <= MaxActions
    BY <2>1, <2>3
  <2>7. <<>> \in Seq(ActionDefs) /\ Len(<<>>) <= MaxActions
    BY HookAssumption
  <2> HIDE DEF matching, defs
  <2> QED BY <2>4, <2>5, <2>6, <2>7
<1> QED BY <1>1, <1>2

LEMMA TypeStep == ASSUME TypeOK, [Next]_vars PROVE TypeOK'
<1> USE HookAssumption DEF TypeOK, events, consuming, reloading, running, Runs
<1>e. \A i \in DOMAIN Edits : Edits[i] \in Versions \cup {Invalid}
  BY DEF Versions
<1>0. CASE UNCHANGED vars
  BY <1>0 DEF vars
<1>1. ASSUME NEW e \in Events, Emit(e) PROVE TypeOK'
  BY <1>1 DEF Emit
<1>2. ASSUME NEW e \in Events, Dispatch(e) PROVE TypeOK'
  <2>1. CASE Len(queue) < QueueSize /\ queue' = Append(queue, e)
    <3>1. queue' \in Seq(Events) /\ Len(queue') = Len(queue) + 1 /\ Len(queue) \in Nat
      BY <2>1
    <3>2. Len(queue') <= QueueSize
      BY <2>1, <3>1
    <3>3. {config} \in SUBSET Versions
      OBVIOUS
    <3>4. evPc' = [evPc EXCEPT ![e] = "queued"] /\ inForce' = [inForce EXCEPT ![e] = {config}]
      BY <1>2, <2>1 DEF Dispatch
    <3> QED BY <1>2, <3>1, <3>2, <3>3, <3>4 DEF Dispatch
  <2>2. CASE evPc' = [evPc EXCEPT ![e] = "dropped"] /\ UNCHANGED <<queue, inForce>>
    BY <1>2, <2>2 DEF Dispatch
  <2> QED BY <1>2, <2>1, <2>2 DEF Dispatch
<1>3. CASE Take
  <2>1. Head(queue) \in Events /\ Tail(queue) \in Seq(Events) /\ Len(Tail(queue)) <= QueueSize
    BY <1>3 DEF Take
  <2> QED BY <1>3, <2>1 DEF Take
<1>4. CASE StopConsumer
  BY <1>4 DEF StopConsumer
<1>5. CASE ReadConfig
  BY <1>5 DEF ReadConfig
<1>6. CASE Launch
  <2> DEFINE todo == ActionsFor(cfg, KindOf[job])
  <2>1. job \in Events /\ KindOf[job] \in Kinds
    BY <1>6 DEF Launch, LaunchFrom
  <2>2. todo \in Seq(ActionDefs) /\ Len(todo) <= MaxActions
    BY <2>1, ActionsForTypes
  <2>3. next \in 1..Len(todo) /\ next \in 1..MaxActions /\ next + 1 \in 1..MaxActions+1
    BY <1>6, <2>2 DEF Launch, LaunchFrom
  <2>4. todo[next] \in ActionDefs
    BY <2>2, <2>3
  <2> HIDE DEF todo
  <2>5. /\ action' = [action EXCEPT ![<<job, next>>] = todo[next]]
        /\ actPc' = [actPc EXCEPT ![<<job, next>>] =
                       IF todo[next].type = "unknown" THEN "done" ELSE "attempt"]
        /\ next' = next + 1
        /\ UNCHANGED <<events, consumer, job, cfg, reloading, stopping, tries, row, inForce>>
    BY <1>6 DEF Launch, LaunchFrom, todo
  <2> QED BY <2>1, <2>3, <2>4, <2>5
<1>7. CASE EndJob
  BY <1>7 DEF EndJob, EndJobAt, Versions
<1>8. ASSUME NEW r \in Runs, Attempt(r) PROVE TypeOK'
  <2>1. PICK result \in {"ok", "4xx", "error"} :
          tries' = [tries EXCEPT ![r] = Append(@, result)] /\ GoOn(r, AfterAttempt(r, result))
    BY <1>8 DEF Attempt
  <2>2. AfterAttempt(r, result) \in {"backoff", "log"}
    BY DEF AfterAttempt
  <2>3. actPc' \in [Runs -> {"none", "attempt", "stuck", "backoff", "log", "done"}]
    BY <2>1, <2>2 DEF GoOn
  <2>4. tries' \in [Runs -> Seq({"ok", "4xx", "error"})]
    BY <2>1
  <2> QED BY <1>8, <2>3, <2>4 DEF Attempt
<1>9. ASSUME NEW r \in Runs, BackoffOver(r) \/ ShellStuck(r) PROVE TypeOK'
  BY <1>9 DEF BackoffOver, ShellStuck, GoOn
<1>10. ASSUME NEW r \in Runs, ShellReleased(r) PROVE TypeOK'
  BY <1>10 DEF ShellReleased, GoOn
<1>11. ASSUME NEW r \in Runs, CreateActionLog(r) PROVE TypeOK'
  BY <1>11 DEF CreateActionLog, EndAction, Write, GoOn
<1>12. CASE EditFile
  <2>1. Len(Edits) \in Nat /\ DOMAIN Edits = 1..Len(Edits)
    OBVIOUS
  <2>2. edit' \in DOMAIN Edits
    BY <1>12, <2>1 DEF EditFile
  <2> QED BY <1>12, <2>2 DEF EditFile
<1>13. CASE Sighup \/ Shutdown
  BY <1>13 DEF Sighup, Shutdown
<1>14. CASE LoadConfig
  BY <1>14, <1>e DEF LoadConfig, file
<1>15. CASE SetConfig
  <2>1. config' \in Versions
    BY <1>15 DEF SetConfig
  <2> QED BY <1>15, <2>1 DEF SetConfig, Versions
<1> QED
  BY <1>0, <1>1, <1>2, <1>3, <1>4, <1>5, <1>6, <1>7, <1>8, <1>9, <1>10, <1>11, <1>12, <1>13,
     <1>14, <1>15 DEF Next, Consume, ActionStep, Reload

\* Every variable keeps its type; the queue never holds more events than its
\* capacity, and the consumer launches no more actions than a HookDef has.
THEOREM TypeCorrect == Spec => []TypeOK
<1>1. Init => TypeOK
  <2> SUFFICES ASSUME Init PROVE TypeOK
    OBVIOUS
  <2>1. 1 \in DOMAIN Edits /\ Edits[1] \in Configs \cup {NoConfig, Invalid}
    BY HookAssumption
  <2>2. config \in Versions
    BY <2>1 DEF Init, file, Versions
  <2>3. queue \in Seq(Events) /\ Len(queue) <= QueueSize
    BY HookAssumption DEF Init
  <2>4. next \in 1..MaxActions+1 /\ edit \in DOMAIN Edits
    BY <2>1, HookAssumption DEF Init
  <2>5. /\ tries \in [Runs -> Seq({"ok", "4xx", "error"})]
        /\ action \in [Runs -> ActionDefs \cup {NoAction}]
        /\ inForce \in [Events -> SUBSET Versions]
    BY DEF Init
  <2> QED BY <2>2, <2>3, <2>4, <2>5 DEF Init, TypeOK, Versions
<1> QED BY <1>1, TypeStep, PTL DEF Spec

-----------------------------------------------------------------------------
(* The configuration the actions of an event come from                     *)

\* An event has no action before the consumer launches them, and until it reads
\* the configuration the one in force is a candidate; then the consumer keeps
\* one candidate and has launched the first actions of its HookDef.
OriginInv ==
  /\ \A e \in Events :
       /\ evPc[e] \notin {"taken", "launched"} => Launched(e) = {}
       /\ evPc[e] = "queued" \/ (evPc[e] = "taken" /\ consumer = "read") =>
            config \in inForce[e] /\ Launched(e) = {}
       /\ evPc[e] = "launched" =>
            \E c \in Versions :
              Follows(e, c) /\ Launched(e) = DOMAIN ActionsFor(c, KindOf[e])
  /\ consumer = "launch" =>
       /\ cfg \in inForce[job]
       /\ next <= Len(ActionsFor(cfg, KindOf[job])) + 1
       /\ Launched(job) = 1..next-1
       /\ Follows(job, cfg)

\* The goroutine of an action neither starts nor changes an action.
LEMMA ActionFrame ==
  ASSUME TypeOK, NEW r \in Runs,
         ActionStep(r) \/ ShellStuck(r) \/ ShellReleased(r)
  PROVE  /\ UNCHANGED <<events, consuming, config, action, inForce>>
         /\ \A s \in Runs : actPc'[s] = "none" <=> actPc[s] = "none"
<1>1. CASE Attempt(r)
  <2>1. PICK result \in {"ok", "4xx", "error"} : GoOn(r, AfterAttempt(r, result))
    BY <1>1 DEF Attempt
  <2>2. AfterAttempt(r, result) # "none"
    BY DEF AfterAttempt
  <2> QED BY <1>1, <2>1, <2>2 DEF Attempt, GoOn, TypeOK, reloading
<1>2. CASE BackoffOver(r) \/ ShellStuck(r) \/ ShellReleased(r) \/ CreateActionLog(r)
  BY <1>2 DEF BackoffOver, ShellStuck, ShellReleased, CreateActionLog, EndAction, GoOn, TypeOK, reloading
<1> QED BY <1>1, <1>2 DEF ActionStep

LEMMA OriginStep == ASSUME TypeOK, QueuedOnce, OriginInv, [Next]_vars PROVE OriginInv'
<1> USE DEF events, consuming, running, reloading
<1>t. /\ evPc \in [Events -> {"idle", "calling", "queued", "taken", "launched", "dropped"}]
      /\ inForce \in [Events -> SUBSET Versions] /\ cfg \in Versions
      /\ consumer \in {"read", "launch"} => job \in Events
  BY DEF TypeOK
\* The launched actions of an event depend on its runs only.
<1>s. ASSUME UNCHANGED action, \A s \in Runs : actPc'[s] = "none" <=> actPc[s] = "none"
      PROVE  \A e \in Events : Launched(e)' = Launched(e) /\ \A c \in Versions : Follows(e, c)' <=> Follows(e, c)
  BY <1>s DEF Launched, Follows, Runs
<1>u. ASSUME UNCHANGED <<actPc, action>>
      PROVE  \A e \in Events : Launched(e)' = Launched(e) /\ \A c \in Versions : Follows(e, c)' <=> Follows(e, c)
  BY <1>u, <1>s
<1>0. ASSUME UNCHANGED <<events, consuming, config, inForce>>,
             \A e \in Events : Launched(e)' = Launched(e)
                               /\ \A c \in Versions : Follows(e, c)' <=> Follows(e, c)
      PROVE  OriginInv'
  BY <1>0, <1>t DEF OriginInv
<1>1. CASE UNCHANGED <<events, consuming, config, inForce, actPc, action>>
  BY <1>1, <1>0, <1>u
<1>2. ASSUME NEW r \in Runs, ActionStep(r) \/ ShellStuck(r) \/ ShellReleased(r) PROVE OriginInv'
  BY <1>2, <1>0, <1>s, ActionFrame
<1>3. ASSUME NEW e \in Events, Emit(e) PROVE OriginInv'
  BY <1>3, <1>u, <1>t DEF Emit, OriginInv
<1>4. ASSUME NEW e \in Events, Dispatch(e) PROVE OriginInv'
  BY <1>4, <1>u, <1>t DEF Dispatch, OriginInv, QueuedOnce
<1>5. CASE Take
  <2>1. /\ job' \in Events /\ evPc[job'] = "queued" /\ evPc' = [evPc EXCEPT ![job'] = "taken"]
        /\ consumer' = "read" /\ UNCHANGED <<cfg, config, inForce, actPc, action>>
    <3>1. Head(queue) = queue[1] /\ 1 \in DOMAIN queue /\ Head(queue) \in Events
      BY <1>5 DEF Take, TypeOK
    <3> QED BY <1>5, <3>1 DEF Take, QueuedOnce
  <2>2. \A e \in Events : evPc[e] # "taken"
    BY <1>5 DEF Take, QueuedOnce
  <2> QED BY <2>1, <2>2, <1>u, <1>t DEF OriginInv
<1>6. CASE StopConsumer
  BY <1>6, <1>u, <1>t DEF StopConsumer, OriginInv, QueuedOnce
<1>7. CASE ReadConfig
  <2>1. /\ consumer = "read" /\ consumer' = "launch" /\ cfg' = config /\ next' = 1
        /\ UNCHANGED <<evPc, job, config, inForce, actPc, action>>
    BY <1>7 DEF ReadConfig
  <2>2. job \in Events /\ evPc[job] = "taken"
    BY <2>1, <1>t DEF QueuedOnce
  <2>3. config \in inForce[job] /\ Launched(job) = {} /\ config \in Versions
    BY <2>1, <2>2 DEF OriginInv, TypeOK
  <2>4. Follows(job, cfg') /\ 1 <= Len(ActionsFor(cfg', KindOf[job])) + 1
    <3>1. Follows(job, cfg')
      BY <2>3 DEF Follows
    <3>2. KindOf[job] \in Kinds
      BY <2>2, HookAssumption
    <3>3. Len(ActionsFor(config, KindOf[job])) \in Nat
      BY <2>3, <3>2, ActionsForTypes
    <3> QED BY <2>1, <3>1, <3>3
  <2>5. Follows(job, cfg)' /\ Launched(job)' = {} /\ 1..next'-1 = {}
    BY <2>1, <2>3, <2>4 DEF Follows, Launched
  <2> QED BY <2>1, <2>2, <2>3, <2>4, <2>5, <1>u DEF OriginInv
<1>8. CASE Launch
  <2> DEFINE todo == ActionsFor(cfg, KindOf[job])
             r == <<job, next>>
  <2>1. /\ consumer = "launch" /\ next <= Len(todo)
        /\ action' = [action EXCEPT ![r] = todo[next]]
        /\ actPc' = [actPc EXCEPT ![r] = IF todo[next].type = "unknown" THEN "done" ELSE "attempt"]
        /\ next' = next + 1
        /\ UNCHANGED <<evPc, queue, consumer, job, cfg, config, inForce>>
    BY <1>8 DEF Launch, LaunchFrom
  <2>2. job \in Events /\ evPc[job] = "taken" /\ KindOf[job] \in Kinds
    BY <2>1, <1>t, HookAssumption DEF QueuedOnce
  <2>3. todo \in Seq(ActionDefs) /\ Len(todo) <= MaxActions /\ Len(todo) \in Nat
    BY <2>2, <1>t, ActionsForTypes
  <2>4. next \in 1..MaxActions /\ r \in Runs
    BY <2>1, <2>2, <2>3, HookAssumption DEF TypeOK, Runs
  <2>5. /\ action'[r] = todo[next] /\ actPc'[r] # "none"
        /\ \A s \in Runs \ {r} : action'[s] = action[s] /\ actPc'[s] = actPc[s]
    BY <2>1, <2>4 DEF TypeOK
  <2>6. \A e \in Events \ {job} : Launched(e)' = Launched(e)
                               /\ \A c \in Versions : Follows(e, c)' <=> Follows(e, c)
    BY <2>5 DEF Launched, Follows, Runs
  <2>7. Launched(job)' = Launched(job) \cup {next}
    <3>1. \A i \in 1..MaxActions : i # next => <<job, i>> \in Runs \ {r}
      BY <2>2 DEF Runs
    <3> HIDE DEF r
    <3>2. \A i \in 1..MaxActions : i # next => actPc'[<<job, i>>] = actPc[<<job, i>>]
      BY <2>5, <3>1
    <3>3. actPc'[<<job, next>>] # "none"
      BY <2>5 DEF r
    <3> QED BY <2>1, <2>4, <3>2, <3>3 DEF Launched
  <2>8. Launched(job)' = 1..next'-1
    BY <2>1, <2>4, <2>7 DEF OriginInv
  <2>9. Follows(job, cfg)'
    <3>1. ASSUME NEW i \in Launched(job)'
          PROVE  i <= Len(todo) /\ action'[<<job, i>>] = todo[i]
      <4>1. CASE i = next
        BY <4>1, <2>1, <2>5
      <4>2. CASE i # next
        <5>1. i \in Launched(job) /\ i \in 1..MaxActions
          BY <3>1, <4>2, <2>7 DEF Launched
        <5>2. <<job, i>> \in Runs \ {r}
          BY <5>1, <4>2, <2>2 DEF Runs
        <5>3. action'[<<job, i>>] = action[<<job, i>>]
          BY <2>5, <5>2
        <5> QED BY <5>1, <5>3, <2>1 DEF OriginInv, Follows
      <4> QED BY <4>1, <4>2
    <3> QED BY <3>1, <2>1 DEF Follows
  <2>10. next' <= Len(todo) + 1
    BY <2>1, <2>3, <2>4
  <2>11. \A e \in Events : evPc[e] = "taken" => e = job
    BY DEF QueuedOnce
  <2>12. consumer' = "launch" => /\ cfg' \in inForce'[job']
                                 /\ next' <= Len(ActionsFor(cfg', KindOf[job'])) + 1
                                 /\ Launched(job)' = 1..next'-1
                                 /\ Follows(job, cfg)'
    BY <2>1, <2>8, <2>9, <2>10 DEF OriginInv
  <2> HIDE DEF todo, r
  <2> QED BY <2>1, <2>2, <2>6, <2>11, <2>12 DEF OriginInv
<1>9. CASE EndJob
  <2>1. /\ consumer = "launch" /\ next > Len(ActionsFor(cfg, KindOf[job]))
        /\ evPc' = [evPc EXCEPT ![job] = "launched"] /\ inForce' = [inForce EXCEPT ![job] = {}]
        /\ consumer' = "select" /\ UNCHANGED <<config, actPc, action>>
    BY <1>9 DEF EndJob, EndJobAt
  <2>2. job \in Events /\ KindOf[job] \in Kinds /\ evPc[job] = "taken"
    BY <2>1, <1>t, HookAssumption DEF QueuedOnce
  <2>3. /\ ActionsFor(cfg, KindOf[job]) \in Seq(ActionDefs)
        /\ Len(ActionsFor(cfg, KindOf[job])) \in Nat
    BY <2>2, <1>t, ActionsForTypes
  <2>4. Follows(job, cfg) /\ Launched(job) = DOMAIN ActionsFor(cfg, KindOf[job])
    BY <2>1, <2>3 DEF OriginInv, TypeOK
  <2>5. \A e \in Events : evPc'[e] = "launched" =>
          \E c \in Versions : Follows(e, c)' /\ Launched(e)' = DOMAIN ActionsFor(c, KindOf[e])
    BY <2>1, <2>2, <2>4, <1>t, <1>u DEF OriginInv
  <2>6. \A e \in Events : evPc'[e] \notin {"taken", "launched"} => Launched(e)' = {}
    BY <2>1, <2>2, <1>t, <1>u DEF OriginInv
  <2>7. \A e \in Events : evPc'[e] = "queued" => config' \in inForce'[e] /\ Launched(e)' = {}
    BY <2>1, <2>2, <1>t, <1>u DEF OriginInv
  <2> QED BY <2>1, <2>5, <2>6, <2>7 DEF OriginInv
<1>10. CASE SetConfig
  <2>1. \A e \in Events :
          /\ inForce[e] \subseteq inForce'[e]
          /\ evPc[e] = "queued" \/ (evPc[e] = "taken" /\ consumer = "read") => config' \in inForce'[e]
    BY <1>10, <1>t DEF SetConfig
  <2> QED BY <1>10, <2>1, <1>t, <1>u DEF SetConfig, OriginInv
<1>11. CASE EditFile \/ Sighup \/ LoadConfig \/ Shutdown \/ UNCHANGED vars
  BY <1>11, <1>1 DEF EditFile, Sighup, LoadConfig, Shutdown, vars
<1> QED
  BY <1>2, <1>3, <1>4, <1>5, <1>6, <1>7, <1>8, <1>9, <1>10, <1>11 DEF Next, Consume, Reload

\* The actions launched for an event are those of one HookDef of one
\* configuration in force between Dispatch and the launch, whatever reloads
\* come in between, for every configuration and every number of actions.
THEOREM ActionsAreOfOneConfig == Spec => []HookOfItsTime
<1>1. Init => OriginInv
  BY DEF Init, OriginInv, Launched, Runs
<1>2. TypeOK /\ QueuedOnce /\ OriginInv /\ [Next]_vars => OriginInv'
  BY OriginStep
<1>3. TypeOK /\ QueuedOnce /\ OriginInv => HookOfItsTime
  <2> SUFFICES ASSUME TypeOK, QueuedOnce, OriginInv, NEW e \in Events, evPc[e] = "taken"
               PROVE  \E c \in inForce[e] : Follows(e, c)
    BY DEF OriginInv, HookOfItsTime
  <2>1. consumer \in {"read", "launch"} /\ job = e
    BY DEF QueuedOnce
  <2>2. CASE consumer = "read"
    BY <2>2 DEF OriginInv, Follows
  <2>3. CASE consumer = "launch"
    BY <2>1, <2>3 DEF OriginInv
  <2> QED BY <2>1, <2>2, <2>3
<1> QED BY <1>1, <1>2, <1>3, TypeCorrect, EventsAreQueuedOnce, PTL DEF Spec

-----------------------------------------------------------------------------
(* The attempts of an action                                               *)

AllErrors(seq) == \A i \in 1..Len(seq) : seq[i] = "error"

\* An action that may try again has failed so far and has attempts left; one
\* that is about to be logged says why there is no other.
TriesAt(r) ==
  /\ actPc[r] # "done" => row[r] = "none"
  /\ actPc[r] \in {"none", "done"} => tries[r] = <<>>
  /\ actPc[r] \in {"attempt", "backoff", "stuck"} =>
       AllErrors(tries[r]) /\ Len(tries[r]) < Attempts(action[r])
  /\ actPc[r] = "stuck" => action[r].type = "shell"
  /\ actPc[r] = "backoff" => Len(tries[r]) > 0
  /\ actPc[r] = "log" =>
       /\ Len(tries[r]) \in 1..Attempts(action[r])
       /\ \A i \in 1..Len(tries[r])-1 : tries[r][i] = "error"
       /\ ~stopping /\ tries[r][Len(tries[r])] = "error"
            => Len(tries[r]) = Attempts(action[r])

TriesInv == \A r \in Runs : TriesAt(r)

LEMMA AttemptsPositive ==
  ASSUME NEW def \in ActionDefs \cup {NoAction}
  PROVE  Attempts(def) \in Nat \ {0} /\ (def.type # "http" => Attempts(def) = 1)
BY DEF Attempts, ActionDefs, NoAction

\* One more result, and what it makes of the action.
LEMMA TryStep ==
  ASSUME TypeOK, NEW r \in Runs, TriesAt(r), actPc[r] \in {"attempt", "stuck"},
         NEW result \in {"ok", "4xx", "error"},
         tries' = [tries EXCEPT ![r] = Append(@, result)],
         GoOn(r, AfterAttempt(r, result)), UNCHANGED <<action, row, stopping>>
  PROVE  TriesAt(r)'
<1>0. action[r] \in ActionDefs \cup {NoAction} /\ tries[r] \in Seq({"ok", "4xx", "error"})
  BY DEF TypeOK
<1> DEFINE n == Len(tries[r])
<1>1. n \in Nat /\ Attempts(action[r]) \in Nat \ {0} /\ n < Attempts(action[r])
  BY <1>0, AttemptsPositive DEF TriesAt
<1>2. /\ tries'[r] = Append(tries[r], result) /\ Len(tries'[r]) = n + 1
      /\ \A i \in 1..n : tries'[r][i] = "error"
      /\ tries'[r][n+1] = result
  BY <1>0 DEF TypeOK, TriesAt, AllErrors
<1>3. actPc'[r] = AfterAttempt(r, result) /\ Attempts(action'[r]) = Attempts(action[r])
  BY DEF GoOn, TypeOK
<1>4. CASE actPc'[r] = "backoff"
  <2>1. result = "error" /\ n + 1 < Attempts(action[r])
    BY <1>3, <1>4 DEF AfterAttempt
  <2>2. AllErrors(tries'[r])
    BY <1>1, <1>2, <2>1 DEF AllErrors
  <2> QED BY <1>1, <1>2, <1>3, <1>4, <2>1, <2>2 DEF TriesAt, AllErrors
<1>5. CASE actPc'[r] = "log"
  <2>1. result = "error" => n + 1 = Attempts(action[r])
    BY <1>1, <1>3, <1>5 DEF AfterAttempt
  <2> QED BY <1>1, <1>2, <1>3, <1>5, <2>1 DEF TriesAt
<1> QED BY <1>3, <1>4, <1>5 DEF AfterAttempt

\* A step of the goroutine of one action.
LEMMA ActionTries ==
  ASSUME TypeOK, NEW r \in Runs, TriesAt(r), ActionStep(r) \/ ShellStuck(r) \/ ShellReleased(r)
  PROVE  /\ TriesAt(r)'
         /\ stopping' = stopping
         /\ \A s \in Runs \ {r} : UNCHANGED <<actPc[s], action[s], tries[s], row[s]>>
<1>0. /\ action[r] \in ActionDefs \cup {NoAction} /\ tries[r] \in Seq({"ok", "4xx", "error"})
      /\ Attempts(action[r]) \in Nat \ {0}
  BY AttemptsPositive DEF TypeOK
<1>1. CASE Attempt(r)
  <2>1. TriesAt(r)'
    BY <1>1, TryStep DEF Attempt
  <2> QED BY <1>1, <2>1 DEF Attempt, GoOn, TypeOK
<1>2. CASE ShellReleased(r)
  <2>0. PICK result \in {"ok", "error"} : tries' = [tries EXCEPT ![r] = Append(@, result)]
    BY <1>2 DEF ShellReleased
  <2>1. AfterAttempt(r, result) = "log"
    BY <1>0, <1>2, AttemptsPositive DEF ShellReleased, TriesAt, AfterAttempt
  <2>2. TriesAt(r)'
    BY <1>2, <2>0, <2>1, TryStep DEF ShellReleased
  <2> QED BY <1>2, <2>0, <2>2 DEF ShellReleased, GoOn, TypeOK
<1>3. CASE ShellStuck(r)
  BY <1>3 DEF ShellStuck, GoOn, TypeOK, TriesAt, AllErrors, Attempts
<1>4. CASE BackoffOver(r)
  BY <1>0, <1>4 DEF BackoffOver, GoOn, TypeOK, TriesAt, AllErrors, Attempts
<1>5. CASE CreateActionLog(r)
  BY <1>5 DEF CreateActionLog, EndAction, Write, GoOn, TypeOK, TriesAt
<1> QED BY <1>1, <1>2, <1>3, <1>4, <1>5 DEF ActionStep

LEMMA TriesStep == ASSUME TypeOK, OriginInv, TriesInv, [Next]_vars PROVE TriesInv'
<1>0. ASSUME UNCHANGED running, stopping => stopping' PROVE TriesInv'
  BY <1>0 DEF running, TriesInv, TriesAt, AllErrors, Attempts
<1>1. ASSUME NEW r \in Runs, ActionStep(r) \/ ShellStuck(r) \/ ShellReleased(r) PROVE TriesInv'
  <2>1. /\ TriesAt(r)'
        /\ \A s \in Runs \ {r} : UNCHANGED <<actPc[s], action[s], tries[s], row[s], stopping>>
    BY <1>1, ActionTries DEF TriesInv
  <2>2. \A s \in Runs \ {r} : TriesAt(s)'
    BY <2>1 DEF TriesInv, TriesAt, AllErrors, Attempts
  <2> QED BY <2>1, <2>2 DEF TriesInv
<1>2. CASE Launch
  <2>1. /\ <<job, next>> \in Runs /\ actPc[<<job, next>>] = "none"
        /\ ActionsFor(cfg, KindOf[job])[next] \in ActionDefs
    <3>1. /\ job \in Events /\ KindOf[job] \in Kinds /\ cfg \in Versions /\ next \in 1..MaxActions+1
          /\ consumer = "launch" /\ next <= Len(ActionsFor(cfg, KindOf[job]))
      BY <1>2, HookAssumption DEF Launch, LaunchFrom, TypeOK
    <3>2. /\ ActionsFor(cfg, KindOf[job]) \in Seq(ActionDefs)
          /\ Len(ActionsFor(cfg, KindOf[job])) <= MaxActions
      BY <3>1, ActionsForTypes
    <3>3. next \in 1..MaxActions /\ next \notin Launched(job)
      BY <3>1, <3>2, HookAssumption DEF OriginInv
    <3> QED BY <3>1, <3>2, <3>3 DEF Launched, Runs
  <2>2. PICK r \in Runs : r = <<job, next>>
    BY <2>1
  <2>3. /\ tries'[r] = <<>> /\ actPc'[r] \in {"done", "attempt"} /\ row'[r] = "none"
        /\ action'[r] \in ActionDefs /\ stopping' = stopping
        /\ \A s \in Runs \ {r} : UNCHANGED <<actPc[s], action[s], tries[s], row[s]>>
    BY <1>2, <2>1, <2>2 DEF Launch, LaunchFrom, TypeOK, TriesInv, TriesAt
  <2>4. Attempts(action'[r]) \in Nat \ {0}
    BY <2>3, AttemptsPositive
  <2>5. TriesAt(r)'
    BY <2>3, <2>4 DEF TriesAt, AllErrors
  <2>6. \A s \in Runs \ {r} : TriesAt(s)'
    BY <2>3 DEF TriesInv, TriesAt, AllErrors, Attempts
  <2> QED BY <2>5, <2>6 DEF TriesInv
<1>3. CASE \/ \E e \in Events : Emit(e) \/ Dispatch(e)
           \/ Take \/ StopConsumer \/ ReadConfig \/ EndJob
           \/ EditFile \/ Sighup \/ Reload \/ Shutdown \/ UNCHANGED vars
  BY <1>3, <1>0 DEF Emit, Dispatch, Take, StopConsumer, ReadConfig, EndJob, EndJobAt, EditFile,
     Sighup, Reload, LoadConfig, SetConfig, Shutdown, vars, running
<1> QED BY <1>1, <1>2, <1>3 DEF Next, Consume

\* The row is written from the attempts, whose last one settled the action.
LEMMA RowStep ==
  ASSUME TypeOK, TriesInv, [Next]_vars, NEW r \in Runs, actPc[r] = "log", actPc'[r] = "done"
  PROVE  (row'[r] = "success" => Succeeded(r)) /\ (row'[r] = "failure" => ~Succeeded(r))
<1>1. row[r] = "none" /\ r \in DOMAIN row
  BY DEF TriesInv, TriesAt, TypeOK
<1>2. \/ row' = row
      \/ \E s \in Runs : row' = [row EXCEPT ![s] = IF Succeeded(s) THEN "success" ELSE "failure"]
  BY DEF Next, Consume, ActionStep, Emit, Dispatch, Take, StopConsumer, ReadConfig, Launch,
         LaunchFrom, EndJob, EndJobAt, Attempt, BackoffOver, CreateActionLog, Write, ShellStuck,
         ShellReleased, EditFile, Sighup, Reload, LoadConfig, SetConfig, Shutdown, vars, running
<1> QED BY <1>1, <1>2

\* An action is tried no more than 1 + max_retries times, never after a success
\* or a 4xx, no fewer unless the server stops, and its row tells how it ended.
THEOREM RowsTellAttempts == Spec => RowTellsAttempts
<1> DEFINE Told ==
      \A r \in Runs : actPc[r] = "log" /\ actPc'[r] = "done" =>
        /\ row'[r] = "success" => Succeeded(r)
        /\ row'[r] = "failure" => ~Succeeded(r)
        /\ \A i \in 1..Len(tries[r])-1 : tries[r][i] = "error"
        /\ Len(tries[r]) <= Attempts(action[r])
        /\ ~stopping /\ tries[r][Len(tries[r])] = "error"
             => Len(tries[r]) = Attempts(action[r])
<1>1. Init => OriginInv /\ TriesInv
  BY DEF Init, OriginInv, Launched, Runs, TriesInv, TriesAt, Attempts, NoAction
<1>2. TypeOK /\ QueuedOnce /\ OriginInv /\ TriesInv /\ [Next]_vars
        => OriginInv' /\ TriesInv'
  BY OriginStep, TriesStep
<1>3. TypeOK /\ TriesInv /\ [Next]_vars => [Told]_vars
  <2> SUFFICES ASSUME TypeOK, TriesInv, [Next]_vars, NEW r \in Runs,
                      actPc[r] = "log", actPc'[r] = "done"
               PROVE  /\ row'[r] = "success" => Succeeded(r)
                      /\ row'[r] = "failure" => ~Succeeded(r)
                      /\ \A i \in 1..Len(tries[r])-1 : tries[r][i] = "error"
                      /\ Len(tries[r]) <= Attempts(action[r])
                      /\ ~stopping /\ tries[r][Len(tries[r])] = "error"
                           => Len(tries[r]) = Attempts(action[r])
    OBVIOUS
  <2>1. Attempts(action[r]) \in Nat
    BY AttemptsPositive DEF TypeOK
  <2> QED BY <2>1, RowStep DEF TriesInv, TriesAt
<1> QED BY <1>1, <1>2, <1>3, TypeCorrect, EventsAreQueuedOnce, PTL DEF Spec, RowTellsAttempts
=============================================================================
