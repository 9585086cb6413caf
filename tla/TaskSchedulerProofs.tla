------------------------ MODULE TaskSchedulerProofs -------------------------
(***************************************************************************)
(* Proofs about TaskScheduler.                                             *)
(***************************************************************************)
EXTENDS TaskSchedulerInvariant, FiniteSetTheorems, SequenceTheorems, TLAPS

-----------------------------------------------------------------------------
(* Type correctness.                                                       *)

\* The forms in which goroutines are made.
LEMMA WorkerForms ==
  /\ 0 \in Attempts
  /\ Idle \in Worker /\ Idle.pc = "idle"
  /\ \A pc \in WorkerPC, t \in Tasks, a \in Attempts :
       /\ Holding(pc, t, a) \in Worker
       /\ Holding(pc, t, a).pc = pc /\ Holding(pc, t, a).task = t /\ Holding(pc, t, a).att = a
  /\ \A w \in Worker, pc \in WorkerPC :
       /\ [w EXCEPT !.pc = pc] \in Worker
       /\ [w EXCEPT !.pc = pc].pc = pc /\ [w EXCEPT !.pc = pc].task = w.task
<1>1. 0 \in Attempts
  BY TaskAssumption DEF Attempts
<1>2. Idle \in Worker /\ Idle.pc = "idle"
  BY <1>1 DEF Worker, WorkerPC, Idle
<1>3. ASSUME NEW pc \in WorkerPC, NEW t \in Tasks, NEW a \in Attempts
      PROVE  /\ Holding(pc, t, a) \in Worker
             /\ Holding(pc, t, a).pc = pc /\ Holding(pc, t, a).task = t /\ Holding(pc, t, a).att = a
  BY DEF Worker, Idle, Holding
<1>4. ASSUME NEW w \in Worker, NEW pc \in WorkerPC
      PROVE  /\ [w EXCEPT !.pc = pc] \in Worker
             /\ [w EXCEPT !.pc = pc].pc = pc /\ [w EXCEPT !.pc = pc].task = w.task
  BY DEF Worker
<1> QED
  BY <1>1, <1>2, <1>3, <1>4

\* How a goroutine goes on after an attempt ended.
LEMMA OutcomeForms ==
  ASSUME NEW w \in Worker, w.task \in Tasks
  PROVE  /\ \A why \in {"failed", "timeout", "success", "export"} :
              Leaving(w, why) \in Worker /\ Leaving(w, why).task = w.task /\ Leaving(w, why).pc = "remove"
         /\ Retry(w) \in Worker /\ Retry(w).task = w.task /\ Retry(w).pc \in {"start", "remove"}
         /\ Export(w) \in Worker /\ Export(w).task = w.task /\ Export(w).pc = "remove"
<1>1. w.att \in Attempts /\ (w.att < MaxFailedAttempts => w.att + 1 \in Attempts)
  BY TaskAssumption DEF Worker, Attempts
<1>2. \A a \in Attempts, pc \in {"start", "remove"} :
        /\ Holding(pc, w.task, a) \in Worker
        /\ Holding(pc, w.task, a).task = w.task /\ Holding(pc, w.task, a).pc = pc
  BY WorkerForms DEF WorkerPC
<1>3. ASSUME NEW why \in {"failed", "timeout", "success", "export"}
      PROVE  Leaving(w, why) \in Worker /\ Leaving(w, why).task = w.task /\ Leaving(w, why).pc = "remove"
  <2> DEFINE h == Holding("remove", w.task, w.att)
  <2>1. h \in Worker /\ h.task = w.task /\ h.pc = "remove"
    BY <1>1, <1>2
  <2>2. Leaving(w, why) = [h EXCEPT !.after = why]
    BY DEF Leaving
  <2> HIDE DEF h
  <2> QED
    BY <2>1, <2>2 DEF Worker
<1>4. Retry(w) \in Worker /\ Retry(w).task = w.task /\ Retry(w).pc \in {"start", "remove"}
  BY <1>1, <1>2, <1>3 DEF Retry
<1>5. Export(w) \in Worker /\ Export(w).task = w.task /\ Export(w).pc = "remove"
  BY <1>3 DEF Export
<1> QED
  BY <1>3, <1>4, <1>5

\* What each access to the container does to its types.
LEMMA ContainerOps ==
  ASSUME ContainerTypeOK
  PROVE  /\ UNCHANGED containerVars => ContainerTypeOK'
         /\ \A t \in Tasks :
              TakeStopMark(t) \/ PutStopMark(t) \/ Push(t) \/ LoadAndDelete(t) \/ PassDeadline(t)
                => ContainerTypeOK'
         /\ Pop => ContainerTypeOK' /\ Head(waitingTasks) \in Tasks
         /\ \A t \in Tasks, a \in Attempts : LoadOrStore(t, a) \/ Restore(t, a) => ContainerTypeOK'
         /\ AddCount(1) \/ AddCount(-1) => ContainerTypeOK'
<1> USE DEF ContainerTypeOK
<1>0. 0 \in Attempts
  BY TaskAssumption DEF Attempts
<1>1. UNCHANGED containerVars => ContainerTypeOK'
  BY DEF containerVars
<1>2. ASSUME NEW t \in Tasks, TakeStopMark(t) \/ PutStopMark(t) \/ Push(t)
      PROVE  ContainerTypeOK'
  BY <1>2 DEF TakeStopMark, PutStopMark, Push
<1>3. ASSUME NEW t \in Tasks, LoadAndDelete(t) \/ PassDeadline(t)
      PROVE  ContainerTypeOK'
  <2>1. Absent \in Entry /\ [runningTaskMap[t] EXCEPT !.late = TRUE] \in Entry
    BY <1>0 DEF Entry, Absent
  <2>2. CASE LoadAndDelete(t)
    BY <2>1, <2>2 DEF LoadAndDelete
  <2>3. CASE PassDeadline(t)
    BY <2>1, <2>3 DEF PassDeadline
  <2> QED
    BY <1>3, <2>2, <2>3
<1>4. Pop => ContainerTypeOK' /\ Head(waitingTasks) \in Tasks
  BY DEF Pop
<1>5. ASSUME NEW t \in Tasks, NEW a \in Attempts, LoadOrStore(t, a) \/ Restore(t, a)
      PROVE  ContainerTypeOK'
  <2>1. /\ Present(a) \in Entry
        /\ [runningTaskMap[t] EXCEPT !.in = TRUE, !.att = a] \in Entry
    BY DEF Entry, Present
  <2>2. CASE LoadOrStore(t, a)
    BY <2>1, <2>2 DEF LoadOrStore
  <2>3. CASE Restore(t, a)
    BY <2>1, <2>3 DEF Restore
  <2> QED
    BY <1>5, <2>2, <2>3
<1>6. AddCount(1) \/ AddCount(-1) => ContainerTypeOK'
  BY DEF AddCount
<1> QED
  BY <1>1, <1>2, <1>3, <1>4, <1>5, <1>6

\* What each access to the actuator does to its types.
LEMMA ActuatorOps ==
  ASSUME ActuatorTypeOK
  PROVE  /\ UNCHANGED actuatorVars => ActuatorTypeOK'
         /\ \A t \in Tasks : Clear(t) \/ Forget(t) => ActuatorTypeOK'
         /\ \A t \in Tasks, a \in Attempts : Launch(t, a) => ActuatorTypeOK'
         /\ Receive => ActuatorTypeOK' /\ Head(callbackChannel) \in Run
         /\ \A r \in runs : RunStep(r) => ActuatorTypeOK'
<1> USE DEF ActuatorTypeOK
<1>1. UNCHANGED actuatorVars => ActuatorTypeOK'
  BY DEF actuatorVars
<1>2. ASSUME NEW t \in Tasks, Clear(t) \/ Forget(t) PROVE ActuatorTypeOK'
  BY <1>2 DEF Clear, Forget, CacheStatus
<1>3. ASSUME NEW t \in Tasks, NEW a \in Attempts, Launch(t, a) PROVE ActuatorTypeOK'
  <2>1. [task |-> t, n |-> starts[t] + 1, att |-> a, pc |-> "run", ok |-> FALSE] \in Run
    BY DEF Run
  <2>2. runs' \in SUBSET Run
    BY <1>3, <2>1 DEF Launch
  <2>3. /\ runningTask' \in [Tasks -> CacheStatus]
        /\ starts' \in [Tasks -> Nat]
    BY <1>3 DEF Launch, CacheStatus
  <2> QED
    BY <1>3, <2>2, <2>3 DEF Launch
<1>4. Receive => ActuatorTypeOK' /\ Head(callbackChannel) \in Run
  BY DEF Receive
<1>5. ASSUME NEW r \in runs, RunStep(r) PROVE ActuatorTypeOK'
  <2>1. r \in Run /\ r.task \in Tasks
    BY DEF Run
  <2>2. ASSUME NEW ok \in BOOLEAN, RunReturn(r, ok) PROVE ActuatorTypeOK'
    <3>1. \A pc \in {"save", "publish"} : [r EXCEPT !.ok = ok, !.pc = pc] \in Run
      BY <2>1 DEF Run
    <3>2. [r EXCEPT !.ok = ok, !.pc = IF ok THEN "save" ELSE "publish"] \in Run
      BY <3>1
    <3>3. runs' \in SUBSET Run
      BY <2>2, <3>2 DEF RunReturn, Move
    <3>4. succeeded' \in SUBSET Tasks
      BY <2>1, <2>2 DEF RunReturn
    <3> QED
      BY <2>2, <3>3, <3>4 DEF RunReturn
  <2>3. CASE RunSave(r)
    BY <2>1, <2>3 DEF RunSave, Move, Run
  <2>4. CASE RunPublish(r)
    <3>1. [r EXCEPT !.pc = "callback"] \in Run
      BY <2>1 DEF Run
    <3>2. (IF r.ok THEN "success" ELSE "failed") \in CacheStatus
      BY DEF CacheStatus
    <3>3. runningTask' \in [Tasks -> CacheStatus]
      BY <2>1, <2>4, <3>2 DEF RunPublish
    <3>4. runs' \in SUBSET Run
      BY <2>4, <3>1 DEF RunPublish, Move
    <3> QED
      BY <2>4, <3>3, <3>4 DEF RunPublish
  <2>5. CASE RunCallback(r)
    BY <2>1, <2>5 DEF RunCallback
  <2> QED
    BY <1>5, <2>2, <2>3, <2>4, <2>5 DEF RunStep
<1> QED
  BY <1>1, <1>2, <1>3, <1>4, <1>5

\* A goroutine with work to do has a task.
LEMMA Busy ==
  ASSUME TypeInv, NEW g \in WorkerIds
  PROVE  workers[g] \in Worker /\ (workers[g].pc # "idle" => workers[g].task \in Tasks)
BY DEF TypeInv, TypeOK, SchedulerTypeOK, BusyOK

\* The type invariant after a step that changes one goroutine.
LEMMA OneWorkerType ==
  ASSUME TypeInv, ContainerTypeOK', ActuatorTypeOK',
         NEW g \in WorkerIds, NEW w \in Worker, w.pc # "idle" => w.task \in Tasks,
         Become(g, w), UNCHANGED <<client, sched>>,
         processedTask' \in SUBSET Tasks, persisted' \in SUBSET Tasks,
         finshedTask' \in [Tasks -> Seq({"success", "failed"})]
  PROVE  TypeInv'
BY DEF TypeInv, TypeOK, SchedulerTypeOK, BusyOK, Become

LEMMA OneWorkerTypeOnly ==
  ASSUME TypeInv, ContainerTypeOK', ActuatorTypeOK',
         NEW g \in WorkerIds, NEW w \in Worker, w.pc # "idle" => w.task \in Tasks,
         Become(g, w), UNCHANGED loopVars
  PROVE  TypeInv'
<1>1. UNCHANGED <<client, sched, processedTask, finshedTask, persisted>>
  BY DEF loopVars, resultVars
<1> QED
  BY <1>1, OneWorkerType DEF TypeInv, TypeOK, SchedulerTypeOK

\* The type invariant after a step of a client.
LEMMA ClientFrame ==
  ASSUME TypeInv, ContainerTypeOK', ActuatorTypeOK',
         UNCHANGED <<sched, workers, resultVars>>,
         NEW t \in Tasks, NEW c \in Client, client' = [client EXCEPT ![t] = c]
  PROVE  TypeInv'
<1>1. SchedulerTypeOK'
  BY DEF TypeInv, TypeOK, SchedulerTypeOK, resultVars
<1>2. BusyOK'
  BY DEF TypeInv, BusyOK
<1> QED
  BY <1>1, <1>2 DEF TypeInv, TypeOK

LEMMA ClientType ==
  ASSUME TypeInv, NEW t \in Tasks, ClientStep(t)
  PROVE  TypeInv'
<1>0. ContainerTypeOK /\ ActuatorTypeOK /\ client \in [Tasks -> Client] /\ client[t] \in Client
  BY DEF TypeInv, TypeOK, SchedulerTypeOK
<1>1. ASSUME NEW pc \in {"out", "push", "active", "dec", "stop"}, ClientAt(t, pc),
             ContainerTypeOK', ActuatorTypeOK', UNCHANGED <<sched, workers, resultVars>>
      PROVE  TypeInv'
  <2>1. [client[t] EXCEPT !.pc = pc] \in Client
    BY <1>0 DEF Client
  <2>2. client' = [client EXCEPT ![t] = [client[t] EXCEPT !.pc = pc]]
    BY <1>0, <1>1 DEF ClientAt
  <2> QED
    BY <1>1, <2>1, <2>2, ClientFrame
<1>2. CASE AddTaskMark(t)
  <2>1. ContainerTypeOK' /\ ActuatorTypeOK'
    BY <1>0, <1>2, ContainerOps, ActuatorOps DEF AddTaskMark
  <2>2. ClientAt(t, "active") \/ ClientAt(t, "push")
    BY <1>2 DEF AddTaskMark
  <2> QED
    BY <1>1, <1>2, <2>1, <2>2 DEF AddTaskMark
<1>3. CASE AddTaskPush(t)
  <2>1. ContainerTypeOK' /\ ActuatorTypeOK'
    BY <1>0, <1>3, ContainerOps, ActuatorOps DEF AddTaskPush
  <2> QED
    BY <1>1, <1>3, <2>1 DEF AddTaskPush
<1>4. CASE AddTaskTimeout(t)
  <2>1. ContainerTypeOK' /\ ActuatorTypeOK'
    BY <1>0, <1>4, ContainerOps, ActuatorOps DEF AddTaskTimeout
  <2> QED
    BY <1>1, <1>4, <2>1 DEF AddTaskTimeout
<1>5. ASSUME NEW told \in {"waiting", "running"}, StopTaskMap(t, told) PROVE TypeInv'
  <2>1. ContainerTypeOK' /\ ActuatorTypeOK'
    BY <1>0, <1>5, ContainerOps, ActuatorOps DEF StopTaskMap
  <2> DEFINE c == [pc |-> IF runningTaskMap[t].in THEN "dec" ELSE AfterToStop(told),
                   stops |-> client[t].stops + 1, told |-> told]
  <2>2. client' = [client EXCEPT ![t] = c]
    BY <1>5 DEF StopTaskMap
  <2>3. client[t].stops + 1 \in 0..MaxStops
    BY <1>0, <1>5, SchedulerAssumption DEF StopTaskMap, Client
  <2>4. c \in Client
    BY <2>3 DEF Client, AfterToStop
  <2> HIDE DEF c
  <2> QED
    BY <1>5, <2>1, <2>2, <2>4, ClientFrame DEF StopTaskMap
<1>6. CASE StopTaskDec(t)
  <2>1. ContainerTypeOK' /\ ActuatorTypeOK'
    BY <1>0, <1>6, ContainerOps, ActuatorOps DEF StopTaskDec
  <2>2. ClientAt(t, "stop") \/ ClientAt(t, "out")
    BY <1>6 DEF StopTaskDec, AfterToStop
  <2> QED
    BY <1>1, <1>6, <2>1, <2>2 DEF StopTaskDec
<1>7. CASE StopTaskActuator(t)
  <2>1. ContainerTypeOK' /\ ActuatorTypeOK'
    BY <1>0, <1>7, ContainerOps, ActuatorOps DEF StopTaskActuator
  <2> QED
    BY <1>1, <1>7, <2>1 DEF StopTaskActuator
<1> QED
  BY <1>2, <1>3, <1>4, <1>5, <1>6, <1>7 DEF ClientStep

\* The type invariant after a step of the scheduling loop.
LEMMA SchedFrame ==
  ASSUME TypeInv, ContainerTypeOK', ActuatorTypeOK', UNCHANGED <<client, resultVars>>,
         sched' \in Sched, sched'.pc = "mark" <=> sched'.task # NoTask,
         workers' \in [WorkerIds -> Worker],
         \A g \in WorkerIds : workers'[g].pc # "idle" => workers'[g].task \in Tasks
  PROVE  TypeInv'
<1>1. SchedulerTypeOK'
  BY DEF TypeInv, TypeOK, SchedulerTypeOK, resultVars
<1>2. BusyOK'
  BY DEF BusyOK
<1> QED
  BY <1>1, <1>2 DEF TypeInv, TypeOK

LEMMA SchedType ==
  ASSUME TypeInv, SchedStep
  PROVE  TypeInv'
<1>0. /\ ContainerTypeOK /\ ActuatorTypeOK
      /\ sched \in Sched /\ (sched.pc = "mark" <=> sched.task # NoTask)
      /\ workers \in [WorkerIds -> Worker]
      /\ \A g \in WorkerIds : workers[g].pc # "idle" => workers[g].task \in Tasks
  BY DEF TypeInv, TypeOK, SchedulerTypeOK, BusyOK
<1>1. CASE SchedCount
  <2> DEFINE limit == TaskLimit - runningTaskCount
             left  == IF limit > MaxWave THEN MaxWave ELSE limit
  <2>1. left \in Nat
    BY <1>0, <1>1, SchedulerAssumption DEF SchedCount, ContainerTypeOK
  <2>2. sched' = [sched EXCEPT !.pc = "pop", !.left = left] /\ sched.pc = "idle"
    BY <1>1 DEF SchedCount
  <2> HIDE DEF left
  <2>3. sched' \in Sched /\ sched'.pc = "pop" /\ sched'.task = NoTask
    BY <1>0, <2>1, <2>2 DEF Sched
  <2>4. ContainerTypeOK' /\ ActuatorTypeOK' /\ UNCHANGED <<client, workers, resultVars>>
    BY <1>0, <1>1, ContainerOps, ActuatorOps DEF SchedCount
  <2> QED
    BY <1>0, <2>3, <2>4, SchedFrame
<1>2. CASE SchedPop
  <2>1. ContainerTypeOK' /\ ActuatorTypeOK' /\ Head(waitingTasks) \in Tasks
    BY <1>0, <1>2, ContainerOps, ActuatorOps DEF SchedPop
  <2>2. sched' = [pc |-> "mark", left |-> sched.left - 1, task |-> Head(waitingTasks)] /\ sched.left > 0
    BY <1>2 DEF SchedPop
  <2>3. sched' \in Sched /\ sched'.pc = "mark" /\ sched'.task # NoTask
    BY <1>0, <2>1, <2>2, SchedulerAssumption DEF Sched
  <2>4. UNCHANGED <<client, workers, resultVars>>
    BY <1>2 DEF SchedPop
  <2> QED
    BY <1>0, <2>1, <2>3, <2>4, SchedFrame
<1>3. CASE SchedMark
  <2>1. sched.task \in Tasks
    BY <1>0, <1>3 DEF SchedMark, Sched
  <2>2. ContainerTypeOK' /\ ActuatorTypeOK' /\ UNCHANGED <<client, resultVars>>
    BY <1>0, <1>3, <2>1, ContainerOps, ActuatorOps DEF SchedMark
  <2>3. sched' \in Sched /\ sched'.pc = "pop" /\ sched'.task = NoTask
    BY <1>0, <1>3 DEF SchedMark, Sched
  <2>4. CASE sched.task \in stopedTaskMap
    <3>1. UNCHANGED workers
      BY <1>3, <2>4 DEF SchedMark
    <3> QED
      BY <1>0, <2>2, <2>3, <3>1, SchedFrame
  <2>5. CASE sched.task \notin stopedTaskMap
    <3>1. PICK i \in 1..MaxWave : Become(<<"sched", i>>, Holding("ready", sched.task, 0))
      BY <1>3, <2>5 DEF SchedMark
    <3> DEFINE h == Holding("ready", sched.task, 0)
    <3>2. h \in Worker /\ h.task = sched.task
      <4>1. "ready" \in WorkerPC
        BY DEF WorkerPC
      <4> QED
        BY <2>1, <4>1, WorkerForms
    <3>3. workers' = [workers EXCEPT ![<<"sched", i>>] = h]
      BY <3>1 DEF Become
    <3> HIDE DEF h
    <3>4. /\ workers' \in [WorkerIds -> Worker]
          /\ \A g \in WorkerIds : workers'[g].pc # "idle" => workers'[g].task \in Tasks
      BY <1>0, <2>1, <3>2, <3>3
    <3> QED
      BY <2>2, <2>3, <3>4, SchedFrame
  <2> QED
    BY <2>4, <2>5
<1>4. CASE SchedLaunch
  <2>1. "start" \in WorkerPC
    BY DEF WorkerPC
  <2>2. \A w \in Worker : [w EXCEPT !.pc = "start"] \in Worker /\ [w EXCEPT !.pc = "start"].task = w.task
    BY <2>1, WorkerForms
  <2>3. \A g \in Active(WaveIds) : g \in WorkerIds /\ workers[g].pc # "idle"
    BY DEF Active, WorkerIds
  <2>4. workers' = [g \in WorkerIds |->
          IF g \in Active(WaveIds) THEN [workers[g] EXCEPT !.pc = "start"] ELSE workers[g]]
    BY <1>4 DEF SchedLaunch
  <2>5. \A g \in WorkerIds :
          /\ (IF g \in Active(WaveIds) THEN [workers[g] EXCEPT !.pc = "start"]
                                       ELSE workers[g]) \in Worker
          /\ workers'[g].pc # "idle" => workers'[g].task \in Tasks
    BY <1>0, <2>2, <2>3, <2>4
  <2>6. workers' \in [WorkerIds -> Worker]
    BY <2>4, <2>5
  <2>7. sched' \in Sched /\ sched'.pc \in {"idle", "wait"} /\ sched'.task = NoTask
    <3>1. sched' = [sched EXCEPT !.left = 0, !.pc = "idle"] \/ sched' = [sched EXCEPT !.left = 0, !.pc = "wait"]
      BY <1>4 DEF SchedLaunch
    <3> QED
      BY <1>0, <1>4, <3>1 DEF SchedLaunch, Sched
  <2>8. ContainerTypeOK' /\ ActuatorTypeOK' /\ UNCHANGED <<client, resultVars>>
    BY <1>0, <1>4, ContainerOps, ActuatorOps DEF SchedLaunch
  <2> QED
    BY <2>5, <2>6, <2>7, <2>8, SchedFrame
<1>5. CASE SchedDone
  <2>1. ContainerTypeOK' /\ ActuatorTypeOK' /\ UNCHANGED <<client, workers, resultVars>>
    BY <1>0, <1>5, ContainerOps, ActuatorOps DEF SchedDone
  <2>2. sched' \in Sched /\ sched'.pc = "idle" /\ sched'.task = NoTask
    BY <1>0, <1>5 DEF SchedDone, Sched
  <2> QED
    BY <1>0, <2>1, <2>2, SchedFrame
<1> QED
  BY <1>1, <1>2, <1>3, <1>4, <1>5 DEF SchedStep

\* The type invariant after a step that changes any number of goroutines.
LEMMA WorkersType ==
  ASSUME TypeInv, ContainerTypeOK', ActuatorTypeOK', UNCHANGED loopVars,
         NEW f, workers' = [g \in WorkerIds |-> f[g]],
         \A g \in WorkerIds : f[g] \in Worker /\ (f[g].pc # "idle" => f[g].task \in Tasks)
  PROVE  TypeInv'
<1>1. UNCHANGED <<client, sched, processedTask, finshedTask, persisted>>
  BY DEF loopVars, resultVars
<1>2. workers' \in [WorkerIds -> Worker]
  OBVIOUS
<1>3. SchedulerTypeOK'
  BY <1>1, <1>2 DEF TypeInv, TypeOK, SchedulerTypeOK
<1>4. BusyOK'
  BY <1>1 DEF TypeInv, BusyOK
<1> QED
  BY <1>3, <1>4 DEF TypeInv, TypeOK

LEMMA PollType ==
  ASSUME TypeInv, PollStep
  PROVE  TypeInv'
<1>0. ContainerTypeOK /\ ActuatorTypeOK /\ SchedulerTypeOK
  BY DEF TypeInv, TypeOK
<1>1. CASE PollSnapshot
  <2> DEFINE f == [g \in WorkerIds |->
                     IF g \in PollIds /\ g[2] \in Running
                     THEN [Holding("query", g[2], runningTaskMap[g[2]].att)
                             EXCEPT !.late = runningTaskMap[g[2]].late]
                     ELSE workers[g]]
  <2>1. workers' = f /\ UNCHANGED <<containerVars, actuatorVars, loopVars>>
    BY <1>1 DEF PollSnapshot
  <2>2. ASSUME NEW g \in WorkerIds
        PROVE  f[g] \in Worker /\ (f[g].pc # "idle" => f[g].task \in Tasks)
    <3>1. CASE g \in PollIds /\ g[2] \in Running
      <4>1. g[2] \in Tasks
        BY <3>1 DEF Running
      <4>2. runningTaskMap[g[2]] \in Entry
        BY <1>0, <4>1 DEF ContainerTypeOK
      <4>3. runningTaskMap[g[2]].att \in Attempts /\ runningTaskMap[g[2]].late \in BOOLEAN
        BY <4>2 DEF Entry
      <4>4. "query" \in WorkerPC
        BY DEF WorkerPC
      <4> DEFINE h == Holding("query", g[2], runningTaskMap[g[2]].att)
      <4>5. h \in Worker /\ h.task = g[2]
        BY <4>1, <4>3, <4>4, WorkerForms
      <4>6. f[g] = [h EXCEPT !.late = runningTaskMap[g[2]].late]
        BY <3>1
      <4> HIDE DEF h, f
      <4> QED
        BY <4>1, <4>3, <4>5, <4>6 DEF Worker
    <3>2. CASE ~(g \in PollIds /\ g[2] \in Running)
      BY <3>2, Busy
    <3> QED
      BY <3>1, <3>2
  <2> HIDE DEF f
  <2>3. ContainerTypeOK' /\ ActuatorTypeOK'
    BY <1>0, <2>1, ContainerOps, ActuatorOps
  <2>4. workers' = [g \in WorkerIds |-> f[g]]
    BY <2>1 DEF f
  <2> QED
    BY <2>1, <2>2, <2>3, <2>4, WorkersType
<1>2. CASE PollLaunch
  <2>1. PICK expired \in SUBSET (IF TaskTimeoutOn THEN Tasks ELSE {}) :
          workers' = [g \in WorkerIds |->
                        IF g \in Active(PollIds)
                        THEN PollBody(workers[g], workers[g].task \in expired)
                        ELSE workers[g]]
    BY <1>2 DEF PollLaunch
  <2>2. UNCHANGED <<containerVars, actuatorVars, loopVars>>
    BY <1>2 DEF PollLaunch
  <2> DEFINE f == [g \in WorkerIds |->
                     IF g \in Active(PollIds)
                     THEN PollBody(workers[g], workers[g].task \in expired)
                     ELSE workers[g]]
  <2>3. ASSUME NEW g \in WorkerIds
        PROVE  f[g] \in Worker /\ (f[g].pc # "idle" => f[g].task \in Tasks)
    <3>1. CASE g \in Active(PollIds)
      <4>1. workers[g] \in Worker /\ workers[g].task \in Tasks
        BY <3>1, Busy DEF Active
      <4>2. f[g] = PollBody(workers[g], workers[g].task \in expired)
        BY <3>1
      <4> HIDE DEF f
      <4>3. f[g] \in {Idle, Retry(workers[g]), Export(workers[g]), Leaving(workers[g], "timeout")}
        BY <4>2 DEF PollBody
      <4> QED
        BY <4>1, <4>3, OutcomeForms, WorkerForms
    <3>2. CASE g \notin Active(PollIds)
      BY <3>2, Busy
    <3> QED
      BY <3>1, <3>2
  <2> HIDE DEF f
  <2>4. ContainerTypeOK' /\ ActuatorTypeOK'
    BY <1>0, <2>2, ContainerOps, ActuatorOps
  <2>5. workers' = [g \in WorkerIds |-> f[g]]
    BY <2>1 DEF f
  <2> QED
    BY <2>2, <2>3, <2>4, <2>5, WorkersType
<1>3. ASSUME NEW g \in PollIds, PollQuery(g) PROVE TypeInv'
  <2>1. g \in WorkerIds
    BY DEF WorkerIds
  <2>2. workers[g] \in Worker /\ workers[g].task \in Tasks
    BY <1>3, <2>1, Busy DEF PollQuery, At
  <2> DEFINE t  == workers[g].task
             w1 == [workers[g] EXCEPT !.st = AsyncStatus(t),
                      !.pc = IF runningTask[t] \in {"success", "failed"} THEN "forget" ELSE "ready"]
  <2>3. Become(g, w1) /\ UNCHANGED <<containerVars, actuatorVars, loopVars>>
    BY <1>3 DEF PollQuery
  <2>4. AsyncStatus(t) \in {"none", "running", "success", "failed"}
    BY <1>0, <2>2 DEF ActuatorTypeOK, AsyncStatus, CacheStatus
  <2>5. w1 \in Worker /\ w1.task \in Tasks
    BY <2>2, <2>4 DEF Worker, WorkerPC
  <2> HIDE DEF w1
  <2>6. ContainerTypeOK' /\ ActuatorTypeOK'
    BY <1>0, <2>3, ContainerOps, ActuatorOps
  <2> QED
    BY <2>1, <2>3, <2>5, <2>6, OneWorkerTypeOnly
<1>4. ASSUME NEW g \in PollIds, PollForget(g) PROVE TypeInv'
  <2>1. g \in WorkerIds
    BY DEF WorkerIds
  <2>2. workers[g] \in Worker /\ workers[g].task \in Tasks
    BY <1>4, <2>1, Busy DEF PollForget, At
  <2>3. "ready" \in WorkerPC
    BY DEF WorkerPC
  <2>4. [workers[g] EXCEPT !.pc = "ready"] \in Worker /\ [workers[g] EXCEPT !.pc = "ready"].task \in Tasks
    BY <2>2, <2>3, WorkerForms
  <2>5. ContainerTypeOK' /\ ActuatorTypeOK'
    BY <1>0, <1>4, <2>2, ContainerOps, ActuatorOps DEF PollForget
  <2> QED
    BY <1>4, <2>1, <2>4, <2>5, OneWorkerTypeOnly DEF PollForget, Goto
<1> QED
  BY <1>1, <1>2, <1>3, <1>4 DEF PollStep

LEMMA CallbackType ==
  ASSUME TypeInv, CallbackStep
  PROVE  TypeInv'
<1>0. ContainerTypeOK /\ ActuatorTypeOK /\ SchedulerTypeOK /\ BusyOK
  BY DEF TypeInv, TypeOK
<1>1. CASE CallbackDrop
  <2>1. ContainerTypeOK' /\ ActuatorTypeOK'
    BY <1>0, <1>1, ContainerOps, ActuatorOps DEF CallbackDrop
  <2>2. UNCHANGED <<client, sched, workers, processedTask, finshedTask, persisted>>
    BY <1>1 DEF CallbackDrop, schedulerVars, loopVars, resultVars
  <2> QED
    BY <1>0, <2>1, <2>2 DEF TypeInv, TypeOK, SchedulerTypeOK, BusyOK
<1>2. CASE CallbackHandle
  <2> DEFINE r == Head(callbackChannel)
             w == Holding("idle", r.task, r.att)
  <2>1. ContainerTypeOK' /\ ActuatorTypeOK' /\ r \in Run
    BY <1>0, <1>2, ContainerOps, ActuatorOps DEF CallbackHandle
  <2>2. r.task \in Tasks /\ r.att \in Attempts
    BY <2>1 DEF Run
  <2>3. w \in Worker /\ w.task = r.task
    <3>1. "idle" \in WorkerPC
      BY DEF WorkerPC
    <3> QED
      BY <2>2, <3>1, WorkerForms
  <2>4. PICK i \in 1..CallbackWorkers : Become(<<"callback", i>>, IF r.ok THEN Export(w) ELSE Retry(w))
    BY <1>2 DEF CallbackHandle
  <2>5. processedTask' \in SUBSET Tasks
    BY <1>0, <1>2, <2>2 DEF CallbackHandle, SchedulerTypeOK
  <2>6. UNCHANGED <<client, sched, finshedTask, persisted>>
    BY <1>2 DEF CallbackHandle
  <2>7. <<"callback", i>> \in WorkerIds
    BY DEF WorkerIds, CallbackIds
  <2> DEFINE v == IF r.ok THEN Export(w) ELSE Retry(w)
  <2>8. v \in Worker /\ v.task \in Tasks
    <3> HIDE DEF w
    <3> QED
      BY <2>2, <2>3, OutcomeForms
  <2>9. Become(<<"callback", i>>, v)
    BY <2>4
  <2> HIDE DEF r, w, v
  <2> QED
    BY <1>0, <2>1, <2>5, <2>6, <2>7, <2>8, <2>9, OneWorkerType DEF SchedulerTypeOK
<1>3. ASSUME NEW t \in Tasks, ProcessedExpire(t) PROVE TypeInv'
  <2>1. ContainerTypeOK' /\ ActuatorTypeOK'
    BY <1>0, <1>3, ContainerOps, ActuatorOps DEF ProcessedExpire
  <2> QED
    BY <1>0, <1>3, <2>1 DEF ProcessedExpire, TypeInv, TypeOK, SchedulerTypeOK, BusyOK
<1> QED
  BY <1>1, <1>2, <1>3 DEF CallbackStep

\* A step that only moves one goroutine on, or ends it.
LEMMA GotoType ==
  ASSUME TypeInv, ContainerTypeOK', ActuatorTypeOK', UNCHANGED loopVars,
         NEW g \in WorkerIds, workers[g].pc # "idle", NEW pc \in WorkerPC,
         Goto(g, pc) \/ Become(g, Idle)
  PROVE  TypeInv'
<1>1. workers[g] \in Worker /\ workers[g].task \in Tasks
  BY Busy
<1>2. CASE Goto(g, pc)
  <2>1. [workers[g] EXCEPT !.pc = pc] \in Worker /\ [workers[g] EXCEPT !.pc = pc].task \in Tasks
    BY <1>1, WorkerForms
  <2> QED
    BY <1>2, <2>1, OneWorkerTypeOnly DEF Goto
<1>3. CASE Become(g, Idle)
  BY <1>3, WorkerForms, OneWorkerTypeOnly
<1> QED
  BY <1>2, <1>3

LEMMA LeftForm ==
  ASSUME NEW w \in Worker, w.task \in Tasks
  PROVE  Left(w) \in Worker /\ Left(w).task = w.task /\ Left(w).pc \in {"spawn", "finish"}
<1>1. Left(w) \in {[w EXCEPT !.pc = "spawn"], [w EXCEPT !.pc = "finish"]}
  BY DEF Left
<1>2. "spawn" \in WorkerPC /\ "finish" \in WorkerPC
  BY DEF WorkerPC
<1>3. [w EXCEPT !.pc = "spawn"] \in Worker /\ [w EXCEPT !.pc = "spawn"].pc = "spawn"
        /\ [w EXCEPT !.pc = "spawn"].task = w.task
  BY <1>2, WorkerForms
<1>4. [w EXCEPT !.pc = "finish"] \in Worker /\ [w EXCEPT !.pc = "finish"].pc = "finish"
        /\ [w EXCEPT !.pc = "finish"].task = w.task
  BY <1>2, WorkerForms
<1> QED
  BY <1>1, <1>3, <1>4

LEMMA WorkerType ==
  ASSUME TypeInv, NEW g \in WorkerIds, WorkerStep(g)
  PROVE  TypeInv'
<1> DEFINE w == workers[g]
<1>0. ContainerTypeOK /\ ActuatorTypeOK /\ SchedulerTypeOK
  BY DEF TypeInv, TypeOK
<1>1. w.pc # "idle"
  BY DEF WorkerStep, StartCheck, StartLaunch, LimitCheck, ToRunning, ToRunningCount,
         ToRunningStore, LeaveRunning, LeaveRunningCount, Finish, StopActuator,
         SpawnExport, FetchOutput, ClearOutput, Persist, At
<1>2. w \in Worker /\ w.task \in Tasks /\ w.att \in Attempts
  BY <1>1, Busy DEF Worker
<1>3. {"launch", "limit", "store", "stop", "restore", "inc", "dec", "clear", "persist"} \subseteq WorkerPC
  BY DEF WorkerPC
<1>4. CASE StartCheck(g)
  <2>1. Goto(g, "launch") \/ Become(g, Leaving(w, "failed"))
    BY <1>4 DEF StartCheck, Goto
  <2>2. ContainerTypeOK' /\ ActuatorTypeOK' /\ UNCHANGED loopVars
    BY <1>0, <1>4, ContainerOps, ActuatorOps DEF StartCheck
  <2> QED
    BY <1>1, <1>2, <1>3, <2>1, <2>2, GotoType, OneWorkerTypeOnly, OutcomeForms
<1>5. CASE StartLaunch(g)
  <2>1. Goto(g, "limit") \/ Goto(g, "store")
    BY <1>5 DEF StartLaunch
  <2>2. ContainerTypeOK' /\ ActuatorTypeOK' /\ UNCHANGED loopVars
    BY <1>0, <1>2, <1>5, ContainerOps, ActuatorOps DEF StartLaunch
  <2> QED
    BY <1>1, <1>3, <2>1, <2>2, GotoType
<1>6. CASE LimitCheck(g)
  <2>1. Goto(g, "stop") \/ Goto(g, "store")
    BY <1>6 DEF LimitCheck
  <2>2. ContainerTypeOK' /\ ActuatorTypeOK' /\ UNCHANGED loopVars
    BY <1>0, <1>6, ContainerOps, ActuatorOps DEF LimitCheck
  <2> QED
    BY <1>1, <1>3, <2>1, <2>2, GotoType
<1>7. CASE ToRunning(g)
  <2>1. Goto(g, "restore") \/ Goto(g, "inc")
    BY <1>7 DEF ToRunning
  <2>2. ContainerTypeOK' /\ ActuatorTypeOK' /\ UNCHANGED loopVars
    BY <1>0, <1>2, <1>7, ContainerOps, ActuatorOps DEF ToRunning
  <2> QED
    BY <1>1, <1>3, <2>1, <2>2, GotoType
<1>8. CASE ToRunningCount(g) \/ ToRunningStore(g) \/ StopActuator(g)
  <2>1. Become(g, Idle)
    BY <1>8 DEF ToRunningCount, ToRunningStore, StopActuator
  <2>2. ContainerTypeOK' /\ ActuatorTypeOK' /\ UNCHANGED loopVars
    <3>1. CASE ToRunningCount(g)
      BY <1>0, <3>1, ContainerOps, ActuatorOps DEF ToRunningCount
    <3>2. CASE ToRunningStore(g)
      BY <1>0, <1>2, <3>2, ContainerOps, ActuatorOps DEF ToRunningStore
    <3>3. CASE StopActuator(g)
      BY <1>0, <1>2, <3>3, ContainerOps, ActuatorOps DEF StopActuator
    <3> QED
      BY <1>8, <3>1, <3>2, <3>3
  <2> QED
    BY <1>1, <1>3, <2>1, <2>2, GotoType
<1>9. CASE LeaveRunning(g)
  <2>1. Goto(g, "dec") \/ Become(g, Left(w))
    BY <1>9 DEF LeaveRunning, Goto
  <2>2. ContainerTypeOK' /\ ActuatorTypeOK' /\ UNCHANGED loopVars
    BY <1>0, <1>2, <1>9, ContainerOps, ActuatorOps DEF LeaveRunning
  <2> QED
    BY <1>1, <1>2, <1>3, <2>1, <2>2, GotoType, OneWorkerTypeOnly, LeftForm
<1>10. CASE LeaveRunningCount(g)
  <2>1. ContainerTypeOK' /\ ActuatorTypeOK' /\ UNCHANGED loopVars
    BY <1>0, <1>10, ContainerOps, ActuatorOps DEF LeaveRunningCount
  <2> QED
    BY <1>2, <1>10, <2>1, OneWorkerTypeOnly, LeftForm DEF LeaveRunningCount
<1>11. CASE Finish(g)
  <2>1. ContainerTypeOK' /\ ActuatorTypeOK'
    BY <1>0, <1>11, ContainerOps, ActuatorOps DEF Finish
  <2>2. UNCHANGED <<client, sched, processedTask, persisted>>
    BY <1>11 DEF Finish
  <2>3. finshedTask' \in [Tasks -> Seq({"success", "failed"})]
    BY <1>0, <1>2, <1>11 DEF Finish, SchedulerTypeOK
  <2> DEFINE v == IF w.after = "timeout" THEN [w EXCEPT !.pc = "stop"] ELSE Idle
  <2>4. Become(g, v)
    BY <1>11 DEF Finish
  <2>5. v \in Worker /\ (v.pc # "idle" => v.task \in Tasks)
    BY <1>2, <1>3, WorkerForms
  <2> HIDE DEF v
  <2> QED
    BY <1>0, <2>1, <2>2, <2>3, <2>4, <2>5, OneWorkerType DEF SchedulerTypeOK
<1>12. CASE SpawnExport(g)
  <2>1. PICK i \in 1..ExportWorkers :
          workers' = [workers EXCEPT ![g] = Idle, ![<<"export", i>>] = Holding("output", w.task, w.att)]
    BY <1>12 DEF SpawnExport
  <2>2. UNCHANGED <<containerVars, actuatorVars, loopVars>>
    BY <1>12 DEF SpawnExport
  <2> DEFINE h == Holding("output", w.task, w.att)
             f == [x \in WorkerIds |-> IF x = <<"export", i>> THEN h
                                       ELSE IF x = g THEN Idle ELSE workers[x]]
  <2>3. h \in Worker /\ h.task \in Tasks
    <3>1. "output" \in WorkerPC
      BY DEF WorkerPC
    <3> QED
      BY <1>2, <3>1, WorkerForms
  <2>4. \A x \in WorkerIds : f[x] \in Worker /\ (f[x].pc # "idle" => f[x].task \in Tasks)
    <3> HIDE DEF h
    <3> QED
      BY <2>3, Busy, WorkerForms
  <2>5. workers' = [x \in WorkerIds |-> f[x]]
    <3>1. workers \in [WorkerIds -> Worker]
      BY <1>0 DEF SchedulerTypeOK
    <3> HIDE DEF h
    <3> QED
      BY <2>1, <3>1 DEF h
  <2>6. ContainerTypeOK' /\ ActuatorTypeOK'
    BY <1>0, <2>2, ContainerOps, ActuatorOps
  <2> HIDE DEF f, h
  <2> QED
    BY <2>2, <2>4, <2>5, <2>6, WorkersType
<1>13. CASE FetchOutput(g)
  <2>1. Goto(g, "clear") \/ Become(g, Leaving(w, "failed"))
    BY <1>13 DEF FetchOutput, Goto
  <2>2. ContainerTypeOK' /\ ActuatorTypeOK' /\ UNCHANGED loopVars
    BY <1>0, <1>13, ContainerOps, ActuatorOps DEF FetchOutput
  <2> QED
    BY <1>1, <1>2, <1>3, <2>1, <2>2, GotoType, OneWorkerTypeOnly, OutcomeForms
<1>14. CASE ClearOutput(g)
  <2>1. Goto(g, "persist")
    BY <1>14 DEF ClearOutput
  <2>2. ContainerTypeOK' /\ ActuatorTypeOK' /\ UNCHANGED loopVars
    BY <1>0, <1>2, <1>14, ContainerOps, ActuatorOps DEF ClearOutput
  <2> QED
    BY <1>1, <1>3, <2>1, <2>2, GotoType
<1>15. CASE Persist(g)
  <2>1. ContainerTypeOK' /\ ActuatorTypeOK'
    BY <1>0, <1>15, ContainerOps, ActuatorOps DEF Persist
  <2>2. UNCHANGED <<client, sched, processedTask, finshedTask>>
    BY <1>15 DEF Persist
  <2>3. persisted' \in SUBSET Tasks
    BY <1>0, <1>2, <1>15 DEF Persist, SchedulerTypeOK
  <2>4. Become(g, Leaving(w, "success")) \/ Become(g, Leaving(w, "failed"))
    BY <1>15 DEF Persist
  <2> QED
    BY <1>0, <1>2, <2>1, <2>2, <2>3, <2>4, OneWorkerType, OutcomeForms DEF SchedulerTypeOK
<1> QED
  BY <1>4, <1>5, <1>6, <1>7, <1>8, <1>9, <1>10, <1>11, <1>12, <1>13, <1>14, <1>15 DEF WorkerStep

LEMMA TypeInit == Init => TypeInv
<1> SUFFICES ASSUME Init PROVE TypeInv
  OBVIOUS
<1>1. ContainerTypeOK
  <2>1. Absent \in Entry
    BY WorkerForms DEF Absent, Entry
  <2> QED
    BY <2>1 DEF Init, ContainerInit, ContainerTypeOK
<1>2. ActuatorTypeOK
  BY DEF Init, ActuatorInit, ActuatorTypeOK, CacheStatus
<1>3. SchedulerTypeOK
  BY WorkerForms, SchedulerAssumption DEF Init, SchedulerTypeOK, Client, Sched
<1>4. BusyOK
  BY WorkerForms DEF Init, BusyOK
<1> QED
  BY <1>1, <1>2, <1>3, <1>4 DEF TypeInv, TypeOK

LEMMA TypeStep == TypeInv /\ [Next]_vars => TypeInv'
<1> SUFFICES ASSUME TypeInv, [Next]_vars PROVE TypeInv'
  OBVIOUS
<1>0. ContainerTypeOK /\ ActuatorTypeOK /\ SchedulerTypeOK /\ BusyOK
  BY DEF TypeInv, TypeOK
<1>1. ASSUME NEW t \in Tasks, Deadline(t) PROVE TypeInv'
  <2>1. ContainerTypeOK' /\ ActuatorTypeOK'
    BY <1>0, <1>1, ContainerOps, ActuatorOps DEF Deadline
  <2>2. UNCHANGED <<client, sched, workers, processedTask, finshedTask, persisted>>
    BY <1>1 DEF Deadline, schedulerVars, loopVars, resultVars
  <2> QED
    BY <1>0, <2>1, <2>2 DEF TypeInv, TypeOK, SchedulerTypeOK, BusyOK
<1>2. CASE ActuatorStep
  <2>1. ContainerTypeOK' /\ ActuatorTypeOK'
    BY <1>0, <1>2, ContainerOps, ActuatorOps DEF ActuatorStep
  <2>2. UNCHANGED <<client, sched, workers, processedTask, finshedTask, persisted>>
    BY <1>2 DEF ActuatorStep, schedulerVars, loopVars, resultVars
  <2> QED
    BY <1>0, <2>1, <2>2 DEF TypeInv, TypeOK, SchedulerTypeOK, BusyOK
<1>3. CASE UNCHANGED vars
  <2>1. ContainerTypeOK' /\ ActuatorTypeOK'
    BY <1>0, <1>3, ContainerOps, ActuatorOps DEF vars
  <2>2. UNCHANGED <<client, sched, workers, processedTask, finshedTask, persisted>>
    BY <1>3 DEF vars, schedulerVars, loopVars, resultVars
  <2> QED
    BY <1>0, <2>1, <2>2 DEF TypeInv, TypeOK, SchedulerTypeOK, BusyOK
<1> QED
  BY <1>1, <1>2, <1>3, ClientType, SchedType, PollType, CallbackType, WorkerType DEF Next

\* In every configuration all variables keep their types; in particular no
\* copy of a task has a TaskAttemptsTime above Config.MaxFailedAttempts, and a
\* goroutine that has work to do has a task.
THEOREM TypeCorrect == Safety => []TypeOK
<1>1. TypeInv => TypeOK
  BY DEF TypeInv
<1> QED
  BY <1>1, TypeInit, TypeStep, PTL DEF Safety

-----------------------------------------------------------------------------
(* A reported success: in every configuration, with stops and callbacks.   *)

\* what was true of a goroutine stays true of it
LEMMA TruthGrows ==
  ASSUME NEW w \in Worker, NEW S, NEW P, NEW S2, NEW P2,
         S \subseteq S2, P \subseteq P2, Truthful(w, S, P)
  PROVE  Truthful(w, S2, P2)
BY DEF Truthful

\* the goroutines a truthful one can turn into
LEMMA TruthForms ==
  ASSUME NEW w \in Worker, NEW S, NEW P, Truthful(w, S, P), w.task \in Tasks
  PROVE  /\ Truthful(Idle, S, P)
         /\ \A pc \in WorkerPC, t \in Tasks, a \in Attempts :
              pc \notin {"spawn", "output", "clear", "persist"} \/ t \in S
                => Truthful(Holding(pc, t, a), S, P)
         /\ \A pc \in WorkerPC :
              pc \notin {"spawn", "output", "clear", "persist"} \/ w.task \in S
                => Truthful([w EXCEPT !.pc = pc], S, P)
         /\ \A why \in {"failed", "timeout"} : Truthful(Leaving(w, why), S, P)
         /\ w.task \in S => Truthful(Leaving(w, "export"), S, P)
         /\ w.task \in S /\ (HasPersistencer => w.task \in P) => Truthful(Leaving(w, "success"), S, P)
         /\ Truthful(Retry(w), S, P)
         /\ w.task \in S => Truthful(Export(w), S, P)
         /\ Truthful(Left(w), S, P)
<1>1. Truthful(Idle, S, P)
  BY DEF Truthful, Idle
<1>2. ASSUME NEW pc \in WorkerPC, NEW t \in Tasks, NEW a \in Attempts,
             pc \notin {"spawn", "output", "clear", "persist"} \/ t \in S
      PROVE  Truthful(Holding(pc, t, a), S, P)
  BY <1>2 DEF Truthful, Holding, Idle
<1>3. ASSUME NEW pc \in WorkerPC,
             pc \notin {"spawn", "output", "clear", "persist"} \/ w.task \in S
      PROVE  Truthful([w EXCEPT !.pc = pc], S, P)
  BY <1>3 DEF Truthful, Worker
<1>4. w.att \in Attempts
  BY DEF Worker
<1>5. ASSUME NEW why \in {"failed", "timeout", "success", "export"}
      PROVE  /\ Leaving(w, why).pc = "remove" /\ Leaving(w, why).task = w.task
             /\ Leaving(w, why).st = "none" /\ Leaving(w, why).after = why
  BY <1>4 DEF Leaving, Holding, Idle
<1>6. \A why \in {"failed", "timeout"} : Truthful(Leaving(w, why), S, P)
  BY <1>5 DEF Truthful
<1>7. w.task \in S => Truthful(Leaving(w, "export"), S, P)
  BY <1>5 DEF Truthful
<1>8. w.task \in S /\ (HasPersistencer => w.task \in P) => Truthful(Leaving(w, "success"), S, P)
  BY <1>5 DEF Truthful
<1>9. Truthful(Retry(w), S, P)
  <2>1. "start" \in WorkerPC
    BY DEF WorkerPC
  <2>2. CASE w.att < MaxFailedAttempts
    <3>1. w.att + 1 \in Attempts
      BY <1>4, <2>2, TaskAssumption DEF Attempts
    <3> QED
      BY <1>2, <2>1, <2>2, <3>1 DEF Retry
  <2>3. CASE ~(w.att < MaxFailedAttempts)
    BY <1>6, <2>3 DEF Retry
  <2> QED
    BY <2>2, <2>3
<1>10. w.task \in S => Truthful(Export(w), S, P)
  BY <1>7, <1>8 DEF Export
<1>11. Truthful(Left(w), S, P)
  <2>1. {"spawn", "finish"} \subseteq WorkerPC
    BY DEF WorkerPC
  <2>2. CASE w.after = "export"
    <3>1. Left(w) = [w EXCEPT !.pc = "spawn"]
      BY <2>2 DEF Left
    <3>2. w.task \in S
      BY <2>2 DEF Truthful
    <3> QED
      BY <1>3, <2>1, <3>1, <3>2
  <2>3. CASE w.after # "export"
    <3>1. Left(w) = [w EXCEPT !.pc = "finish"]
      BY <2>3 DEF Left
    <3> QED
      BY <1>3, <2>1, <3>1
  <2> QED
    BY <2>2, <2>3
<1> QED
  BY <1>1, <1>2, <1>3, <1>6, <1>7, <1>8, <1>9, <1>10, <1>11

\* what each access to the actuator leaves true of it
LEMMA ActuatorTruthStep ==
  ASSUME ActuatorTypeOK, ActuatorTruth
  PROVE  /\ UNCHANGED actuatorVars => ActuatorTruth' /\ succeeded' = succeeded
         /\ \A t \in Tasks : Clear(t) \/ Forget(t) => ActuatorTruth' /\ succeeded' = succeeded
         /\ \A t \in Tasks, a \in Attempts : Launch(t, a) => ActuatorTruth' /\ succeeded' = succeeded
         /\ Receive => /\ ActuatorTruth' /\ succeeded' = succeeded
                       /\ Head(callbackChannel).ok => Head(callbackChannel).task \in succeeded
         /\ \A r \in runs : RunStep(r) => ActuatorTruth' /\ succeeded \subseteq succeeded'
<1> USE DEF ActuatorTypeOK
<1>1. UNCHANGED actuatorVars => ActuatorTruth' /\ succeeded' = succeeded
  BY DEF actuatorVars, ActuatorTruth
<1>2. ASSUME NEW t \in Tasks, Clear(t) \/ Forget(t) PROVE ActuatorTruth' /\ succeeded' = succeeded
  <2>1. /\ runningTask' = [runningTask EXCEPT ![t] = "none"]
        /\ UNCHANGED <<callbackChannel, runs, succeeded>>
    BY <1>2 DEF Clear, Forget
  <2> QED
    BY <2>1 DEF ActuatorTruth
<1>3. ASSUME NEW t \in Tasks, NEW a \in Attempts, Launch(t, a)
      PROVE  ActuatorTruth' /\ succeeded' = succeeded
  <2> DEFINE r == [task |-> t, n |-> starts[t] + 1, att |-> a, pc |-> "run", ok |-> FALSE]
  <2>1. /\ runningTask' = [runningTask EXCEPT ![t] = "running"]
        /\ runs' = runs \cup {r} /\ r.ok = FALSE
        /\ UNCHANGED <<callbackChannel, succeeded>>
    BY <1>3 DEF Launch
  <2> HIDE DEF r
  <2> QED
    BY <2>1 DEF ActuatorTruth
<1>4. ASSUME Receive
      PROVE  /\ ActuatorTruth' /\ succeeded' = succeeded
             /\ Head(callbackChannel).ok => Head(callbackChannel).task \in succeeded
  <2>1. /\ callbackChannel # <<>> /\ callbackChannel' = Tail(callbackChannel)
        /\ UNCHANGED <<runningTask, runs, succeeded>>
    BY <1>4 DEF Receive
  <2>2. /\ Len(callbackChannel') = Len(callbackChannel) - 1 /\ Len(callbackChannel) \in Nat \ {0}
        /\ \A i \in 1..Len(callbackChannel') : callbackChannel'[i] = callbackChannel[i + 1]
        /\ Head(callbackChannel) = callbackChannel[1]
    BY <2>1, HeadTailProperties
  <2>3. \A i \in 1..Len(callbackChannel') : i + 1 \in 1..Len(callbackChannel)
    BY <2>2
  <2>4. 1 \in 1..Len(callbackChannel)
    BY <2>2
  <2> QED
    BY <2>1, <2>2, <2>3, <2>4 DEF ActuatorTruth
<1>5. ASSUME NEW r \in runs, RunStep(r) PROVE ActuatorTruth' /\ succeeded \subseteq succeeded'
  <2>1. r \in Run /\ r.task \in Tasks
    BY DEF Run
  <2>2. ASSUME NEW ok \in BOOLEAN, RunReturn(r, ok)
        PROVE  ActuatorTruth' /\ succeeded \subseteq succeeded'
    <3>1. PICK pc \in {"save", "publish"} :
            runs' \subseteq runs \cup {[r EXCEPT !.ok = ok, !.pc = pc]}
      BY <2>2 DEF RunReturn, Move
    <3> DEFINE v == [r EXCEPT !.ok = ok, !.pc = pc]
    <3>2. v.ok = ok /\ v.task = r.task
      BY <2>1 DEF Run
    <3>3. runs' \subseteq runs \cup {v}
      BY <3>1
    <3> HIDE DEF v
    <3>4. succeeded \subseteq succeeded' /\ (ok => r.task \in succeeded')
          /\ UNCHANGED <<runningTask, callbackChannel>>
      BY <2>2 DEF RunReturn
    <3> QED
      BY <3>2, <3>3, <3>4 DEF ActuatorTruth
  <2>3. ASSUME RunSave(r) PROVE ActuatorTruth' /\ succeeded \subseteq succeeded'
    <3> DEFINE v == [r EXCEPT !.pc = "publish"]
    <3>1. v.ok = r.ok /\ v.task = r.task
      BY <2>1 DEF Run
    <3>2. runs' \subseteq runs \cup {v} /\ UNCHANGED <<runningTask, callbackChannel, succeeded>>
      BY <2>3 DEF RunSave, Move
    <3> HIDE DEF v
    <3> QED
      BY <3>1, <3>2 DEF ActuatorTruth
  <2>4. ASSUME RunPublish(r) PROVE ActuatorTruth' /\ succeeded \subseteq succeeded'
    <3> DEFINE v == [r EXCEPT !.pc = "callback"]
    <3>1. v.ok = r.ok /\ v.task = r.task
      BY <2>1 DEF Run
    <3>2. /\ runs' \subseteq runs \cup {v} /\ UNCHANGED <<callbackChannel, succeeded>>
          /\ runningTask' = [runningTask EXCEPT ![r.task] = IF r.ok THEN "success" ELSE "failed"]
      BY <2>4 DEF RunPublish, Move
    <3> HIDE DEF v
    <3>3. ASSUME NEW t \in Tasks, runningTask'[t] = "success" PROVE t \in succeeded
      BY <2>1, <3>2, <3>3 DEF ActuatorTruth
    <3> QED
      BY <3>1, <3>2, <3>3 DEF ActuatorTruth
  <2>5. ASSUME RunCallback(r) PROVE ActuatorTruth' /\ succeeded \subseteq succeeded'
    <3>1. /\ callbackChannel' = Append(callbackChannel, r)
          /\ runs' \subseteq runs /\ UNCHANGED <<runningTask, succeeded>>
      BY <2>5 DEF RunCallback
    <3>2. /\ Len(callbackChannel') = Len(callbackChannel) + 1 /\ Len(callbackChannel) \in Nat
          /\ \A i \in 1..Len(callbackChannel) : callbackChannel'[i] = callbackChannel[i]
          /\ callbackChannel'[Len(callbackChannel) + 1] = r
      BY <2>1, <3>1, AppendProperties
    <3>3. \A i \in 1..Len(callbackChannel') :
            i \in 1..Len(callbackChannel) \/ i = Len(callbackChannel) + 1
      BY <3>2
    <3> QED
      BY <3>1, <3>2, <3>3 DEF ActuatorTruth
  <2> QED
    BY <1>5, <2>2, <2>3, <2>4, <2>5 DEF RunStep
<1> QED
  BY <1>1, <1>2, <1>3, <1>4, <1>5

\* a step that reports nothing
LEMMA SourceFrame ==
  ASSUME TypeInv, SuccessSource, ActuatorTruth',
         succeeded \subseteq succeeded', persisted \subseteq persisted',
         \A g \in WorkerIds : \/ workers'[g] = workers[g]
                              \/ Truthful(workers'[g], succeeded', persisted'),
         UNCHANGED finshedTask
  PROVE  SuccessSource'
<1>1. WorkersTruth'
  <2> SUFFICES ASSUME NEW g \in WorkerIds
               PROVE  Truthful(workers'[g], succeeded', persisted')
    BY DEF WorkersTruth
  <2>1. workers[g] \in Worker /\ Truthful(workers[g], succeeded, persisted)
    BY Busy DEF SuccessSource, WorkersTruth
  <2>2. Truthful(workers[g], succeeded', persisted')
    BY <2>1, TruthGrows
  <2> QED
    BY <2>2
<1>2. SuccessHasRun'
  BY DEF SuccessSource, SuccessHasRun, Reported
<1> QED
  BY <1>1, <1>2 DEF SuccessSource

\* a step that changes one goroutine and neither history
LEMMA SourceOne ==
  ASSUME TypeInv, SuccessSource, ActuatorTruth', UNCHANGED <<succeeded, loopVars>>,
         NEW g \in WorkerIds, NEW w, Become(g, w), Truthful(w, succeeded, persisted)
  PROVE  SuccessSource'
<1>1. UNCHANGED <<finshedTask, persisted>>
  BY DEF loopVars, resultVars
<1>2. workers \in [WorkerIds -> Worker] /\ workers' = [workers EXCEPT ![g] = w]
  BY DEF TypeInv, TypeOK, SchedulerTypeOK, Become
<1>3. ASSUME NEW h \in WorkerIds
      PROVE  workers'[h] = workers[h] \/ Truthful(workers'[h], succeeded', persisted')
  BY <1>1, <1>2
<1> QED
  BY <1>1, <1>3, SourceFrame

LEMMA SourceWorker ==
  ASSUME TypeInv, SuccessSource, NEW g \in WorkerIds, WorkerStep(g)
  PROVE  SuccessSource'
<1> DEFINE w == workers[g]
<1>0. ActuatorTypeOK /\ ActuatorTruth /\ SchedulerTypeOK
  BY DEF TypeInv, TypeOK, SuccessSource
<1>1. w.pc # "idle"
  BY DEF WorkerStep, StartCheck, StartLaunch, LimitCheck, ToRunning, ToRunningCount,
         ToRunningStore, LeaveRunning, LeaveRunningCount, Finish, StopActuator,
         SpawnExport, FetchOutput, ClearOutput, Persist, At
<1>2. w \in Worker /\ w.task \in Tasks /\ w.att \in Attempts
  BY <1>1, Busy DEF Worker
<1>3. Truthful(w, succeeded, persisted)
  BY DEF SuccessSource, WorkersTruth
<1>4. {"launch", "limit", "store", "stop", "restore", "inc", "dec", "clear", "persist"} \subseteq WorkerPC
  BY DEF WorkerPC
<1>5. w.pc \in {"spawn", "output", "clear", "persist"} => w.task \in succeeded
  BY <1>3 DEF Truthful
<1>6. ASSUME NEW pc \in WorkerPC, Goto(g, pc),
             pc \notin {"spawn", "output", "clear", "persist"} \/ w.task \in succeeded
      PROVE  \E v : Become(g, v) /\ Truthful(v, succeeded, persisted)
  BY <1>2, <1>3, <1>6, TruthForms DEF Goto
<1>7. CASE StartCheck(g)
  <2>1. Goto(g, "launch") \/ Become(g, Leaving(w, "failed"))
    BY <1>7 DEF StartCheck, Goto
  <2>2. \E v : Become(g, v) /\ Truthful(v, succeeded, persisted)
    BY <1>2, <1>3, <1>4, <1>6, <2>1, TruthForms
  <2>3. ActuatorTruth' /\ UNCHANGED <<succeeded, loopVars>>
    BY <1>0, <1>7, ActuatorTruthStep DEF StartCheck
  <2> QED
    BY <2>2, <2>3, SourceOne
<1>8. CASE StartLaunch(g)
  <2>1. Goto(g, "limit") \/ Goto(g, "store")
    BY <1>8 DEF StartLaunch
  <2>2. \E v : Become(g, v) /\ Truthful(v, succeeded, persisted)
    BY <1>4, <1>6, <2>1
  <2>3. ActuatorTruth' /\ UNCHANGED <<succeeded, loopVars>>
    BY <1>0, <1>2, <1>8, ActuatorTruthStep DEF StartLaunch
  <2> QED
    BY <2>2, <2>3, SourceOne
<1>9. CASE LimitCheck(g) \/ ToRunning(g)
  <2>1. \E pc \in {"stop", "store", "restore", "inc"} : Goto(g, pc)
    BY <1>9 DEF LimitCheck, ToRunning
  <2>2. \E v : Become(g, v) /\ Truthful(v, succeeded, persisted)
    BY <1>4, <1>6, <2>1
  <2>3. ActuatorTruth' /\ UNCHANGED <<succeeded, loopVars>>
    BY <1>0, <1>9, ActuatorTruthStep DEF LimitCheck, ToRunning
  <2> QED
    BY <2>2, <2>3, SourceOne
<1>10. CASE ToRunningCount(g) \/ ToRunningStore(g) \/ StopActuator(g)
  <2>1. Become(g, Idle)
    BY <1>10 DEF ToRunningCount, ToRunningStore, StopActuator
  <2>2. Truthful(Idle, succeeded, persisted)
    BY <1>2, <1>3, TruthForms
  <2>3. ActuatorTruth' /\ UNCHANGED <<succeeded, loopVars>>
    BY <1>0, <1>2, <1>10, ActuatorTruthStep DEF ToRunningCount, ToRunningStore, StopActuator
  <2> QED
    BY <2>1, <2>2, <2>3, SourceOne
<1>11. CASE LeaveRunning(g) \/ LeaveRunningCount(g)
  <2>1. Goto(g, "dec") \/ Become(g, Left(w))
    BY <1>11 DEF LeaveRunning, LeaveRunningCount, Goto
  <2>2. \E v : Become(g, v) /\ Truthful(v, succeeded, persisted)
    BY <1>2, <1>3, <1>4, <1>6, <2>1, TruthForms
  <2>3. ActuatorTruth' /\ UNCHANGED <<succeeded, loopVars>>
    BY <1>0, <1>11, ActuatorTruthStep DEF LeaveRunning, LeaveRunningCount
  <2> QED
    BY <2>2, <2>3, SourceOne
<1>12. CASE Finish(g)
  <2> DEFINE o == IF w.after = "success" THEN "success" ELSE "failed"
             v == IF w.after = "timeout" THEN [w EXCEPT !.pc = "stop"] ELSE Idle
  <2>1. /\ finshedTask' = [finshedTask EXCEPT ![w.task] = Append(finshedTask[w.task], o)]
        /\ Become(g, v) /\ UNCHANGED <<actuatorVars, persisted>>
    BY <1>12 DEF Finish
  <2>2. ActuatorTruth' /\ succeeded' = succeeded /\ persisted' = persisted
    BY <1>0, <2>1, ActuatorTruthStep
  <2>3. Truthful(v, succeeded, persisted)
    BY <1>2, <1>3, <1>4, TruthForms
  <2>4. o = "success" => w.task \in succeeded /\ (HasPersistencer => w.task \in persisted)
    BY <1>3 DEF Truthful
  <2>5. o \in {"success", "failed"}
    OBVIOUS
  <2> HIDE DEF o, v
  <2>6. WorkersTruth'
    <3>1. workers \in [WorkerIds -> Worker] /\ workers' = [workers EXCEPT ![g] = v]
      BY <1>0, <2>1 DEF SchedulerTypeOK, Become
    <3> QED
      BY <2>2, <2>3, <3>1 DEF SuccessSource, WorkersTruth
  <2>7. ASSUME NEW t \in Tasks, Reported(t, "success")'
        PROVE  t \in succeeded /\ (HasPersistencer => t \in persisted)
    <3>1. finshedTask \in [Tasks -> Seq({"success", "failed"})]
      BY <1>0 DEF SchedulerTypeOK
    <3>2. CASE t # w.task
      <4>1. finshedTask'[t] = finshedTask[t]
        BY <2>1, <3>1, <3>2
      <4> QED
        BY <2>7, <4>1 DEF Reported, SuccessSource, SuccessHasRun
    <3>3. CASE t = w.task
      <4> DEFINE s == finshedTask[t]
      <4>1. s \in Seq({"success", "failed"}) /\ finshedTask'[t] = Append(s, o)
        BY <1>2, <2>1, <3>1, <3>3
      <4>2. PICK i \in 1..Len(Append(s, o)) : Append(s, o)[i] = "success"
        BY <2>7, <4>1 DEF Reported
      <4> HIDE DEF s
      <4>3. Len(Append(s, o)) = Len(s) + 1 /\ Len(s) \in Nat
            /\ (\A j \in 1..Len(s) : Append(s, o)[j] = s[j]) /\ Append(s, o)[Len(s) + 1] = o
        BY <2>5, <4>1, AppendProperties
      <4>4. i \in 1..Len(s) \/ i = Len(s) + 1
        BY <4>2, <4>3
      <4>5. (\E j \in 1..Len(s) : s[j] = "success") \/ o = "success"
        BY <4>2, <4>3, <4>4
      <4> QED
        BY <2>4, <3>3, <4>5 DEF s, Reported, SuccessSource, SuccessHasRun
    <3> QED
      BY <3>2, <3>3
  <2>8. SuccessHasRun'
    BY <2>2, <2>7 DEF SuccessHasRun
  <2> QED
    BY <2>2, <2>6, <2>8 DEF SuccessSource
<1>13. CASE SpawnExport(g)
  <2>1. PICK i \in 1..ExportWorkers :
          workers' = [workers EXCEPT ![g] = Idle, ![<<"export", i>>] = Holding("output", w.task, w.att)]
    BY <1>13 DEF SpawnExport
  <2>2. ActuatorTruth' /\ succeeded' = succeeded /\ UNCHANGED loopVars
    BY <1>0, <1>13, ActuatorTruthStep DEF SpawnExport
  <2>3. UNCHANGED <<finshedTask, persisted>>
    BY <2>2 DEF loopVars, resultVars
  <2> DEFINE h == Holding("output", w.task, w.att)
  <2>4. Truthful(h, succeeded, persisted) /\ Truthful(Idle, succeeded, persisted)
    <3>1. "output" \in WorkerPC /\ w.task \in succeeded
      BY <1>5, <1>13 DEF WorkerPC, SpawnExport, At
    <3> QED
      BY <1>2, <1>3, <3>1, TruthForms
  <2>5. workers \in [WorkerIds -> Worker] /\ workers' = [workers EXCEPT ![g] = Idle, ![<<"export", i>>] = h]
    BY <1>0, <2>1 DEF SchedulerTypeOK
  <2> HIDE DEF h
  <2>6. ASSUME NEW x \in WorkerIds
        PROVE  workers'[x] = workers[x] \/ Truthful(workers'[x], succeeded', persisted')
    BY <2>2, <2>3, <2>4, <2>5
  <2> QED
    BY <2>2, <2>3, <2>6, SourceFrame
<1>14. CASE FetchOutput(g)
  <2>1. Goto(g, "clear") \/ Become(g, Leaving(w, "failed"))
    BY <1>14 DEF FetchOutput, Goto
  <2>2. w.task \in succeeded
    BY <1>5, <1>14 DEF FetchOutput, At
  <2>3. \E v : Become(g, v) /\ Truthful(v, succeeded, persisted)
    BY <1>2, <1>3, <1>4, <1>6, <2>1, <2>2, TruthForms
  <2>4. ActuatorTruth' /\ UNCHANGED <<succeeded, loopVars>>
    BY <1>0, <1>14, ActuatorTruthStep DEF FetchOutput
  <2> QED
    BY <2>3, <2>4, SourceOne
<1>15. CASE ClearOutput(g)
  <2>1. Goto(g, "persist")
    BY <1>15 DEF ClearOutput
  <2>2. w.task \in succeeded
    BY <1>5, <1>15 DEF ClearOutput, At
  <2>3. \E v : Become(g, v) /\ Truthful(v, succeeded, persisted)
    BY <1>4, <1>6, <2>1, <2>2
  <2>4. ActuatorTruth' /\ UNCHANGED <<succeeded, loopVars>>
    BY <1>0, <1>2, <1>15, ActuatorTruthStep DEF ClearOutput
  <2> QED
    BY <2>3, <2>4, SourceOne
<1>16. CASE Persist(g)
  <2>1. w.task \in succeeded
    BY <1>5, <1>16 DEF Persist, At
  <2>2. ActuatorTruth' /\ succeeded' = succeeded /\ UNCHANGED finshedTask
    BY <1>0, <1>16, ActuatorTruthStep DEF Persist
  <2>3. PICK why \in {"success", "failed"} :
          /\ Become(g, Leaving(w, why))
          /\ persisted \subseteq persisted' /\ (why = "success" => w.task \in persisted')
    BY <1>16 DEF Persist
  <2>4. Truthful(w, succeeded, persisted')
    BY <1>2, <1>3, <2>3, TruthGrows
  <2>5. Truthful(Leaving(w, why), succeeded, persisted')
    BY <1>2, <2>1, <2>3, <2>4, TruthForms
  <2>6. workers \in [WorkerIds -> Worker] /\ workers' = [workers EXCEPT ![g] = Leaving(w, why)]
    BY <1>0, <2>3 DEF SchedulerTypeOK, Become
  <2>7. ASSUME NEW x \in WorkerIds
        PROVE  workers'[x] = workers[x] \/ Truthful(workers'[x], succeeded', persisted')
    BY <2>2, <2>5, <2>6
  <2> QED
    BY <2>2, <2>3, <2>7, SourceFrame
<1> QED
  BY <1>7, <1>8, <1>9, <1>10, <1>11, <1>12, <1>13, <1>14, <1>15, <1>16 DEF WorkerStep

LEMMA SourcePoll ==
  ASSUME TypeInv, SuccessSource, PollStep
  PROVE  SuccessSource'
<1>0. ActuatorTypeOK /\ ActuatorTruth /\ SchedulerTypeOK /\ ContainerTypeOK
  BY DEF TypeInv, TypeOK, SuccessSource
<1>1. CASE PollSnapshot
  <2>1. /\ ActuatorTruth' /\ succeeded' = succeeded
        /\ UNCHANGED <<finshedTask, persisted>>
    BY <1>0, <1>1, ActuatorTruthStep DEF PollSnapshot, loopVars, resultVars
  <2>2. ASSUME NEW g \in WorkerIds
        PROVE  workers'[g] = workers[g] \/ Truthful(workers'[g], succeeded', persisted')
    <3>1. CASE g \in PollIds /\ g[2] \in Running
      <4> DEFINE h == Holding("query", g[2], runningTaskMap[g[2]].att)
      <4>1. workers'[g] = [h EXCEPT !.late = runningTaskMap[g[2]].late]
        BY <1>1, <3>1 DEF PollSnapshot
      <4>2. h.pc = "query" /\ h.st = "none" /\ h.after = "none" /\ DOMAIN h = DOMAIN Idle
        BY DEF Holding, Idle
      <4>3. workers'[g].pc = "query" /\ workers'[g].st = "none" /\ workers'[g].after = "none"
        <5> HIDE DEF h
        <5> QED
          BY <4>1, <4>2 DEF Idle
      <4> QED
        BY <4>3 DEF Truthful
    <3>2. CASE ~(g \in PollIds /\ g[2] \in Running)
      BY <1>1, <3>2 DEF PollSnapshot
    <3> QED
      BY <3>1, <3>2
  <2> QED
    BY <2>1, <2>2, SourceFrame
<1>2. CASE PollLaunch
  <2>1. /\ ActuatorTruth' /\ succeeded' = succeeded
        /\ UNCHANGED <<finshedTask, persisted>>
    BY <1>0, <1>2, ActuatorTruthStep DEF PollLaunch, loopVars, resultVars
  <2>2. PICK expired \in SUBSET (IF TaskTimeoutOn THEN Tasks ELSE {}) :
          workers' = [g \in WorkerIds |->
                        IF g \in Active(PollIds)
                        THEN PollBody(workers[g], workers[g].task \in expired)
                        ELSE workers[g]]
    BY <1>2 DEF PollLaunch
  <2>3. ASSUME NEW g \in WorkerIds
        PROVE  workers'[g] = workers[g] \/ Truthful(workers'[g], succeeded', persisted')
    <3>1. CASE g \in Active(PollIds)
      <4> DEFINE w == workers[g]
      <4>1. w \in Worker /\ w.task \in Tasks /\ Truthful(w, succeeded, persisted)
        BY <3>1, Busy DEF Active, SuccessSource, WorkersTruth
      <4>2. workers'[g] = PollBody(w, w.task \in expired)
        BY <2>2, <3>1
      <4>3. \/ workers'[g] \in {Idle, Retry(w), Leaving(w, "timeout")}
            \/ w.st = "success" /\ workers'[g] = Export(w)
        BY <4>2 DEF PollBody
      <4>4. w.st = "success" => w.task \in succeeded
        BY <4>1 DEF Truthful
      <4> HIDE DEF w
      <4>5. Truthful(workers'[g], succeeded, persisted)
        BY <4>1, <4>3, <4>4, TruthForms
      <4> QED
        BY <2>1, <4>5
    <3>2. CASE g \notin Active(PollIds)
      BY <2>2, <3>2
    <3> QED
      BY <3>1, <3>2
  <2> QED
    BY <2>1, <2>3, SourceFrame
<1>3. ASSUME NEW g \in PollIds, PollQuery(g) PROVE SuccessSource'
  <2> DEFINE w == workers[g]
             t == w.task
             v == [w EXCEPT !.st = AsyncStatus(t),
                    !.pc = IF runningTask[t] \in {"success", "failed"} THEN "forget" ELSE "ready"]
  <2>1. g \in WorkerIds
    BY DEF WorkerIds
  <2>2. w \in Worker /\ t \in Tasks /\ Truthful(w, succeeded, persisted)
    BY <1>3, <2>1, Busy DEF PollQuery, At, SuccessSource, WorkersTruth
  <2>3. Become(g, v) /\ ActuatorTruth' /\ UNCHANGED <<succeeded, loopVars>>
    BY <1>0, <1>3, ActuatorTruthStep DEF PollQuery
  <2>4. AsyncStatus(t) = "success" => t \in succeeded
    BY <1>0, <2>2 DEF AsyncStatus, ActuatorTruth
  <2>5. /\ v.st = AsyncStatus(t) /\ v.pc \in {"forget", "ready"}
        /\ v.task = t /\ v.after = w.after
    BY <2>2 DEF Worker
  <2>6. Truthful(v, succeeded, persisted)
    <3> HIDE DEF v
    <3> QED
      BY <2>2, <2>4, <2>5 DEF Truthful
  <2> HIDE DEF v
  <2> QED
    BY <2>1, <2>3, <2>6, SourceOne
<1>4. ASSUME NEW g \in PollIds, PollForget(g) PROVE SuccessSource'
  <2>1. g \in WorkerIds
    BY DEF WorkerIds
  <2>2. /\ workers[g] \in Worker /\ workers[g].task \in Tasks
        /\ Truthful(workers[g], succeeded, persisted)
    BY <1>4, <2>1, Busy DEF PollForget, At, SuccessSource, WorkersTruth
  <2>3. "ready" \in WorkerPC
    BY DEF WorkerPC
  <2>4. Truthful([workers[g] EXCEPT !.pc = "ready"], succeeded, persisted)
    BY <2>2, <2>3, TruthForms
  <2>5. ActuatorTruth' /\ UNCHANGED <<succeeded, loopVars>>
    BY <1>0, <1>4, <2>2, ActuatorTruthStep DEF PollForget
  <2> QED
    BY <1>4, <2>1, <2>4, <2>5, SourceOne DEF PollForget, Goto
<1> QED
  BY <1>1, <1>2, <1>3, <1>4 DEF PollStep

LEMMA SourceCallback ==
  ASSUME TypeInv, SuccessSource, CallbackStep
  PROVE  SuccessSource'
<1>0. ActuatorTypeOK /\ ActuatorTruth /\ SchedulerTypeOK
  BY DEF TypeInv, TypeOK, SuccessSource
<1>1. CASE CallbackDrop
  <2>1. ActuatorTruth' /\ succeeded' = succeeded /\ UNCHANGED <<workers, finshedTask, persisted>>
    BY <1>0, <1>1, ActuatorTruthStep DEF CallbackDrop, schedulerVars, loopVars, resultVars
  <2> QED
    BY <2>1, SourceFrame
<1>2. CASE CallbackHandle
  <2> DEFINE r == Head(callbackChannel)
             w == Holding("idle", r.task, r.att)
             v == IF r.ok THEN Export(w) ELSE Retry(w)
  <2>1. /\ ActuatorTruth' /\ succeeded' = succeeded
        /\ r.ok => r.task \in succeeded
        /\ r \in Run
    BY <1>0, <1>2, ActuatorOps, ActuatorTruthStep DEF CallbackHandle
  <2>2. r.task \in Tasks /\ r.att \in Attempts
    BY <2>1 DEF Run
  <2>3. w \in Worker /\ w.task = r.task /\ Truthful(w, succeeded, persisted)
    <3>1. "idle" \in WorkerPC
      BY DEF WorkerPC
    <3>2. w.pc = "idle" /\ w.st = "none" /\ w.after = "none"
      BY DEF Holding, Idle
    <3>3. w \in Worker /\ w.task = r.task
      BY <2>2, <3>1, WorkerForms
    <3> HIDE DEF w
    <3> QED
      BY <3>2, <3>3 DEF Truthful
  <2>4. PICK i \in 1..CallbackWorkers : Become(<<"callback", i>>, v)
    BY <1>2 DEF CallbackHandle
  <2>5. UNCHANGED <<finshedTask, persisted>>
    BY <1>2 DEF CallbackHandle
  <2>6. Truthful(v, succeeded, persisted)
    <3> HIDE DEF w
    <3> QED
      BY <2>1, <2>2, <2>3, TruthForms
  <2> HIDE DEF r, w, v
  <2>7. workers \in [WorkerIds -> Worker] /\ workers' = [workers EXCEPT ![<<"callback", i>>] = v]
    BY <1>0, <2>4 DEF SchedulerTypeOK, Become
  <2>8. ASSUME NEW h \in WorkerIds
        PROVE  workers'[h] = workers[h] \/ Truthful(workers'[h], succeeded', persisted')
    BY <2>1, <2>5, <2>6, <2>7
  <2> QED
    BY <2>1, <2>5, <2>8, SourceFrame
<1>3. ASSUME NEW t \in Tasks, ProcessedExpire(t) PROVE SuccessSource'
  <2>1. ActuatorTruth' /\ succeeded' = succeeded /\ UNCHANGED <<workers, finshedTask, persisted>>
    BY <1>0, <1>3, ActuatorTruthStep DEF ProcessedExpire
  <2> QED
    BY <2>1, SourceFrame
<1> QED
  BY <1>1, <1>2, <1>3 DEF CallbackStep

LEMMA SourceSched ==
  ASSUME TypeInv, SuccessSource, SchedStep
  PROVE  SuccessSource'
<1>0. ActuatorTypeOK /\ ActuatorTruth /\ SchedulerTypeOK /\ BusyOK
  BY DEF TypeInv, TypeOK, SuccessSource
<1>1. ActuatorTruth' /\ succeeded' = succeeded /\ UNCHANGED <<finshedTask, persisted>>
  BY <1>0, ActuatorTruthStep
     DEF SchedStep, SchedCount, SchedPop, SchedMark, SchedLaunch, SchedDone, resultVars
<1>2. CASE SchedCount \/ SchedPop \/ SchedDone
  BY <1>1, <1>2, SourceFrame DEF SchedCount, SchedPop, SchedDone
<1>3. CASE SchedMark
  <2>1. CASE UNCHANGED workers
    BY <1>1, <2>1, SourceFrame
  <2>2. ASSUME NEW i \in 1..MaxWave, Become(<<"sched", i>>, Holding("ready", sched.task, 0))
        PROVE  SuccessSource'
    <3> DEFINE h == Holding("ready", sched.task, 0)
    <3>1. h.pc = "ready" /\ h.st = "none" /\ h.after = "none"
      BY DEF Holding, Idle
    <3>2. Become(<<"sched", i>>, h)
      BY <2>2
    <3> HIDE DEF h
    <3>3. Truthful(h, succeeded, persisted)
      BY <3>1 DEF Truthful
    <3>4. workers \in [WorkerIds -> Worker] /\ workers' = [workers EXCEPT ![<<"sched", i>>] = h]
      BY <1>0, <3>2 DEF SchedulerTypeOK, Become
    <3>5. ASSUME NEW g \in WorkerIds
          PROVE  workers'[g] = workers[g] \/ Truthful(workers'[g], succeeded', persisted')
      BY <1>1, <3>3, <3>4
    <3> QED
      BY <1>1, <3>5, SourceFrame
  <2> QED
    BY <1>3, <2>1, <2>2 DEF SchedMark
<1>4. CASE SchedLaunch
  <2>1. "start" \in WorkerPC
    BY DEF WorkerPC
  <2>2. ASSUME NEW g \in WorkerIds
        PROVE  workers'[g] = workers[g] \/ Truthful(workers'[g], succeeded', persisted')
    <3>1. CASE g \in Active(WaveIds)
      <4>1. workers[g] \in Worker /\ workers[g].task \in Tasks
        BY <3>1, Busy DEF Active
      <4>2. Truthful([workers[g] EXCEPT !.pc = "start"], succeeded, persisted)
        BY <2>1, <4>1, TruthForms DEF SuccessSource, WorkersTruth
      <4> QED
        BY <1>1, <1>4, <3>1, <4>2 DEF SchedLaunch
    <3>2. CASE g \notin Active(WaveIds)
      BY <1>4, <3>2 DEF SchedLaunch
    <3> QED
      BY <3>1, <3>2
  <2> QED
    BY <1>1, <2>2, SourceFrame
<1> QED
  BY <1>2, <1>3, <1>4 DEF SchedStep

LEMMA SourceInit == Init => SuccessSource
<1> SUFFICES ASSUME Init PROVE SuccessSource
  OBVIOUS
<1>1. ActuatorTruth
  BY DEF Init, ActuatorInit, ActuatorTruth
<1>2. WorkersTruth
  BY DEF Init, WorkersTruth, Truthful, Idle
<1>3. SuccessHasRun
  BY DEF Init, SuccessHasRun, Reported
<1> QED
  BY <1>1, <1>2, <1>3 DEF SuccessSource

LEMMA SourceStep == TypeInv /\ SuccessSource /\ [Next]_vars => SuccessSource'
<1> SUFFICES ASSUME TypeInv, SuccessSource, [Next]_vars PROVE SuccessSource'
  OBVIOUS
<1>0. ActuatorTypeOK /\ ActuatorTruth
  BY DEF TypeInv, TypeOK, SuccessSource
<1>1. ASSUME NEW t \in Tasks, ClientStep(t) PROVE SuccessSource'
  <2>1. UNCHANGED actuatorVars \/ Clear(t)
    BY <1>1 DEF ClientStep, AddTaskMark, AddTaskPush, AddTaskTimeout, StopTaskMap, StopTaskDec,
                StopTaskActuator
  <2>2. UNCHANGED <<workers, resultVars>>
    BY <1>1 DEF ClientStep, AddTaskMark, AddTaskPush, AddTaskTimeout, StopTaskMap, StopTaskDec,
                StopTaskActuator
  <2>3. ActuatorTruth' /\ succeeded' = succeeded /\ UNCHANGED <<workers, finshedTask, persisted>>
    BY <1>0, <2>1, <2>2, ActuatorTruthStep DEF resultVars
  <2> QED
    BY <2>3, SourceFrame
<1>2. ASSUME NEW t \in Tasks, Deadline(t) PROVE SuccessSource'
  <2>1. ActuatorTruth' /\ succeeded' = succeeded /\ UNCHANGED <<workers, finshedTask, persisted>>
    BY <1>0, <1>2, ActuatorTruthStep DEF Deadline, schedulerVars, loopVars, resultVars
  <2> QED
    BY <2>1, SourceFrame
<1>3. CASE ActuatorStep
  <2>1. /\ ActuatorTruth' /\ succeeded \subseteq succeeded'
        /\ UNCHANGED <<workers, finshedTask, persisted>>
    BY <1>0, <1>3, ActuatorTruthStep DEF ActuatorStep, schedulerVars, loopVars, resultVars
  <2> QED
    BY <2>1, SourceFrame
<1>4. CASE UNCHANGED vars
  <2>1. ActuatorTruth' /\ succeeded' = succeeded /\ UNCHANGED <<workers, finshedTask, persisted>>
    BY <1>0, <1>4, ActuatorTruthStep DEF vars, schedulerVars, loopVars, resultVars
  <2> QED
    BY <2>1, SourceFrame
<1> QED
  BY <1>1, <1>2, <1>3, <1>4, SourceSched, SourcePoll, SourceCallback, SourceWorker DEF Next

LEMMA SourceHolds == Safety => [](TypeInv /\ SuccessSource)
BY TypeInit, TypeStep, SourceInit, SourceStep, PTL DEF Safety

\* In every configuration, with callbacks, retries, timeouts and StopTask at
\* any moment: finshed is called with success only for a task whose function
\* returned without error and, with a persistencer, whose result it took.
THEOREM ReportedSuccessIsReal == Safety => []SuccessHasRun
<1>1. SuccessSource => SuccessHasRun
  BY DEF SuccessSource
<1> QED
  BY <1>1, SourceHolds, PTL
=============================================================================
