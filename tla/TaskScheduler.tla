---------------------------- MODULE TaskScheduler ----------------------------
(***************************************************************************)
(* The task scheduler (task_scheduler.go) over the queue container and the *)
(* function actuator.                                                      *)
(*                                                                         *)
(* Threads: clients that call AddTask and StopTask; the scheduling loop    *)
(* and the goroutines of its waves; the polling loop and the goroutines of *)
(* its rounds; the callback loop and its goroutines; the goroutines that   *)
(* export a result; and the actuator's own goroutines, one per start.      *)
(* A step is one access to shared state: the container, the actuator's     *)
(* caches, a channel or the map of processed tasks.                        *)
(*                                                                         *)
(* The queue container never returns an error, so the branches taken when  *)
(* one of its methods fails cannot run here.                               *)
(***************************************************************************)
EXTENDS QueueContainer, FunctionActuator

CONSTANTS
  NoTask,            (* fills the task field of an idle goroutine            *)
  TaskLimit,         (* Config.TaskLimit                                     *)
  DisableStatePoll,  (* Config.DisableStatePoll                              *)
  TaskTimeoutOn,     (* Config.TaskTimeout > 0                               *)
  HasPersistencer,   (* a TaskdataPersistencer is configured                 *)
  MaxStops,          (* bound: calls of StopTask per task                    *)
  MaxWave,           (* bound: goroutines of one wave of scheduleOnce        *)
  CallbackWorkers,   (* bound: goroutines of the callback loop               *)
  ExportWorkers      (* bound: goroutines that export                        *)

ASSUME SchedulerAssumption ==
  /\ NoTask \notin Tasks
  /\ TaskLimit \in Nat \ {0}
  /\ {DisableStatePoll, TaskTimeoutOn, HasPersistencer} \subseteq BOOLEAN
  /\ MaxStops \in Nat
  /\ MaxWave \in Nat /\ MaxWave >= TaskLimit
  /\ CallbackWorkers \in Nat /\ ExportWorkers \in Nat
  /\ DisableStatePoll => EnableStateCallback   \* Config.check

VARIABLES
  client,          (* per task: the client that adds and stops it            *)
  sched,           (* the scheduling loop                                    *)
  workers,         (* the goroutines of the scheduler                        *)
  processedTask,   (* tasks whose end was processed a moment ago             *)
  finshedTask,     (* per task: the outcomes sent to the finished channel    *)
  persisted        (* tasks whose result the persistencer holds              *)

resultVars    == <<processedTask, finshedTask, persisted>>
loopVars      == <<client, sched, resultVars>>
schedulerVars == <<loopVars, workers>>
vars == <<containerVars, actuatorVars, schedulerVars>>

-----------------------------------------------------------------------------
(* Goroutines.                                                             *)

WaveIds     == {"sched"} \X (1..MaxWave)
PollIds     == {"poll"} \X Tasks
CallbackIds == {"callback"} \X (1..CallbackWorkers)
ExportIds   == {"export"} \X (1..ExportWorkers)
WorkerIds   == WaveIds \cup PollIds \cup CallbackIds \cup ExportIds

(* A goroutine holds its own copy of a Task.  "st" is the status the       *)
(* actuator reported for it; "after" says why it leaves the running map.   *)
WorkerPC ==
  {"idle", "query", "forget", "ready", "start", "launch", "limit", "store", "inc",
   "restore", "remove", "dec", "finish", "stop", "spawn", "output", "clear", "persist"}

Worker ==
  [pc : WorkerPC,
   task : Tasks \cup {NoTask},
   att : Attempts,
   late : BOOLEAN,
   st : {"none", "running", "success", "failed"},
   after : {"none", "failed", "timeout", "success", "export"}]

Idle == [pc |-> "idle", task |-> NoTask, att |-> 0, late |-> FALSE,
         st |-> "none", after |-> "none"]

Holding(pc, t, a) == [Idle EXCEPT !.pc = pc, !.task = t, !.att = a]

\* mutant: the container is not told that the task ended
Leaving_NotRemoved(w, why) == [Holding("finish", w.task, w.att) EXCEPT !.after = why]

Leaving(w, why) == [Holding("remove", w.task, w.att) EXCEPT !.after = why]

\* the next goroutine is the lowest free one of its kind
IsFree(kind, i) ==
  /\ workers[<<kind, i>>].pc = "idle"
  /\ \A j \in 1..(i - 1) : workers[<<kind, j>>].pc # "idle"

Become(g, w) == workers' = [workers EXCEPT ![g] = w]
Goto(g, pc) == Become(g, [workers[g] EXCEPT !.pc = pc])

At(g, pc) == workers[g].pc = pc
Active(ids) == {g \in ids : workers[g].pc # "idle"}

-----------------------------------------------------------------------------
(* Clients: a task is added, and after StopTask may be added again.        *)

ClientAt(t, pc) == client' = [client EXCEPT ![t].pc = pc]

Init ==
  /\ ContainerInit
  /\ ActuatorInit
  /\ client = [t \in Tasks |-> [pc |-> "out", stops |-> 0, told |-> "waiting"]]
  /\ sched = [pc |-> "idle", left |-> 0, task |-> NoTask]
  /\ workers = [g \in WorkerIds |-> Idle]
  /\ processedTask = {}
  /\ finshedTask = [t \in Tasks |-> <<>>]
  /\ persisted = {}

\* AddTask takes away a stop mark; a task that had one is taken to be queued
AddTaskMark(t) ==
  /\ client[t].pc = "out"
  /\ TakeStopMark(t)
  /\ ClientAt(t, IF t \in stopedTaskMap THEN "active" ELSE "push")
  /\ UNCHANGED <<actuatorVars, sched, workers, resultVars>>

AddTaskPush(t) ==
  /\ client[t].pc = "push"
  /\ Push(t)
  /\ ClientAt(t, "active")
  /\ UNCHANGED <<actuatorVars, sched, workers, resultVars>>

\* the channel stays full for the container's timeout: AddTask returns an error
AddTaskTimeout(t) ==
  /\ client[t].pc = "push"
  /\ Len(waitingTasks) = QueueSize
  /\ ClientAt(t, "out")
  /\ UNCHANGED <<containerVars, actuatorVars, sched, workers, resultVars>>

\* StopTask: the container first.  told is the status the caller last saw; it
\* decides whether the actuator is told to stop as well
AfterToStop(told) == IF told = "running" THEN "stop" ELSE "out"

StopTaskMap(t, told) ==
  /\ client[t].pc = "active"
  /\ client[t].stops < MaxStops
  /\ IF runningTaskMap[t].in THEN LoadAndDelete(t) ELSE PutStopMark(t)
  /\ client' = [client EXCEPT ![t] =
       [pc |-> IF runningTaskMap[t].in THEN "dec" ELSE AfterToStop(told),
        stops |-> @.stops + 1, told |-> told]]
  /\ UNCHANGED <<actuatorVars, sched, workers, resultVars>>

StopTaskDec(t) ==
  /\ client[t].pc = "dec"
  /\ AddCount(-1)
  /\ ClientAt(t, AfterToStop(client[t].told))
  /\ UNCHANGED <<actuatorVars, sched, workers, resultVars>>

StopTaskActuator(t) ==
  /\ client[t].pc = "stop"
  /\ Clear(t)
  /\ ClientAt(t, "out")
  /\ UNCHANGED <<containerVars, sched, workers, resultVars>>

ClientStep(t) ==
  \/ AddTaskMark(t)
  \/ AddTaskPush(t)
  \/ AddTaskTimeout(t)
  \/ \E told \in {"waiting", "running"} : StopTaskMap(t, told)
  \/ StopTaskDec(t)
  \/ StopTaskActuator(t)

-----------------------------------------------------------------------------
(* The scheduling loop: scheduleOnce and the container's GetWaitingTask.   *)

\* mutant: one task too many is taken
SchedCount_OneMore ==
  /\ sched.pc = "idle"
  /\ runningTaskCount < TaskLimit
  /\ sched' = [sched EXCEPT !.pc = "pop", !.left = TaskLimit - runningTaskCount + 1]
  /\ UNCHANGED <<containerVars, actuatorVars, client, workers, resultVars>>

\* the running count is read; at the limit the round ends at once
SchedCount ==
  /\ sched.pc = "idle"
  /\ runningTaskCount < TaskLimit
  /\ LET limit == TaskLimit - runningTaskCount IN
     sched' = [sched EXCEPT !.pc = "pop",
                            !.left = IF limit > MaxWave THEN MaxWave ELSE limit]
  /\ UNCHANGED <<containerVars, actuatorVars, client, workers, resultVars>>

SchedPop ==
  /\ sched.pc = "pop"
  /\ sched.left > 0
  /\ Pop
  /\ sched' = [pc |-> "mark", left |-> sched.left - 1, task |-> Head(waitingTasks)]
  /\ UNCHANGED <<actuatorVars, client, workers, resultVars>>

\* a task with a stop mark is dropped, any other joins the wave
SchedMark ==
  /\ sched.pc = "mark"
  /\ TakeStopMark(sched.task)
  /\ IF sched.task \in stopedTaskMap
     THEN UNCHANGED workers
     ELSE \E i \in 1..MaxWave :
            /\ IsFree("sched", i)
            /\ Become(<<"sched", i>>, Holding("ready", sched.task, 0))
  /\ sched' = [sched EXCEPT !.pc = "pop", !.task = NoTask]
  /\ UNCHANGED <<actuatorVars, client, resultVars>>

\* limit reached or the queue empty for the container's timeout: the wave starts
SchedLaunch ==
  /\ sched.pc = "pop"
  /\ sched.left = 0 \/ waitingTasks = <<>>
  /\ sched' = [sched EXCEPT !.left = 0,
                            !.pc = IF Active(WaveIds) = {} THEN "idle" ELSE "wait"]
  /\ workers' = [g \in WorkerIds |->
                   IF g \in Active(WaveIds) THEN [workers[g] EXCEPT !.pc = "start"]
                                            ELSE workers[g]]
  /\ UNCHANGED <<containerVars, actuatorVars, client, resultVars>>

\* wg.Wait of scheduleOnce
SchedDone ==
  /\ sched.pc = "wait"
  /\ Active(WaveIds) = {}
  /\ sched' = [sched EXCEPT !.pc = "idle"]
  /\ UNCHANGED <<containerVars, actuatorVars, client, workers, resultVars>>

SchedStep ==
  SchedCount \/ SchedPop \/ SchedMark \/ SchedLaunch \/ SchedDone

-----------------------------------------------------------------------------
(* The polling loop: updateOnce and the actuator's GetAsyncTaskStatus.     *)

\* mutant: polling is off when callbacks are on
PollSnapshot_WithoutCallback ==
  /\ ~EnableStateCallback
  /\ Active(PollIds) = {}
  /\ workers' = [g \in WorkerIds |->
       IF g \in PollIds /\ g[2] \in Running
       THEN Holding("query", g[2], runningTaskMap[g[2]].att)
       ELSE workers[g]]
  /\ UNCHANGED <<containerVars, actuatorVars, loopVars>>

\* GetRunningTask copies the running tasks
PollSnapshot ==
  /\ ~DisableStatePoll
  /\ Active(PollIds) = {}
  /\ workers' = [g \in WorkerIds |->
       IF g \in PollIds /\ g[2] \in Running
       THEN [Holding("query", g[2], runningTaskMap[g[2]].att)
               EXCEPT !.late = runningTaskMap[g[2]].late]
       ELSE workers[g]]
  /\ UNCHANGED <<containerVars, actuatorVars, loopVars>>

\* the statuses are read one task after the other
PollQuery(g) ==
  /\ At(g, "query")
  /\ \A h \in PollIds : ~At(h, "forget")
  /\ LET t == workers[g].task IN
     Become(g, [workers[g] EXCEPT
       !.st = AsyncStatus(t),
       !.pc = IF runningTask[t] \in {"success", "failed"} THEN "forget" ELSE "ready"])
  /\ UNCHANGED <<containerVars, actuatorVars, loopVars>>

PollForget(g) ==
  /\ At(g, "forget")
  /\ Forget(workers[g].task)
  /\ Goto(g, "ready")
  /\ UNCHANGED <<containerVars, loopVars>>

\* mutants: one attempt too many, one too few, attempts that are not counted
Retry_OneMore(w) ==
  IF w.att <= MaxFailedAttempts THEN Holding("start", w.task, w.att + 1)
                                ELSE Leaving(w, "failed")
Retry_OneLess(w) ==
  IF w.att + 1 < MaxFailedAttempts THEN Holding("start", w.task, w.att + 1)
                                   ELSE Leaving(w, "failed")
Retry_NotCounted(w) ==
  IF w.att < MaxFailedAttempts THEN Holding("start", w.task, w.att)
                               ELSE Leaving(w, "failed")

\* a failed attempt is retried while attempts are left
Retry(w) ==
  IF w.att < MaxFailedAttempts THEN Holding("start", w.task, w.att + 1)
                               ELSE Leaving(w, "failed")

\* mutant: the result is not exported
Export_Skipped(w) == Leaving(w, "success")

\* a successful one is exported, or is a success at once
Export(w) == Leaving(w, IF HasPersistencer THEN "export" ELSE "success")

\* checkProcessed: only an end of task that was not processed a moment ago
EnableProcessedCheck == EnableStateCallback /\ ~DisableStatePoll
AlreadyProcessed(t, status) ==
  EnableProcessedCheck /\ status # "running" /\ t \in processedTask

\* mutant: the timeout is not looked at
PollBody_NoTimeout(w, expired) ==
  IF w.st = "failed" THEN Retry(w) ELSE IF w.st = "success" THEN Export(w) ELSE Idle

\* the body of a poll goroutine up to its first access to shared state.  It
\* hands checkProcessed the container's copy of the task, whose status is RUNNING
PollBody(w, expired) ==
  IF w.st \in {"failed", "success"} /\ AlreadyProcessed(w.task, "running") THEN Idle
  ELSE IF w.st = "failed" THEN Retry(w)
  ELSE IF w.st = "success" THEN Export(w)
  ELSE IF expired THEN Leaving(w, "timeout")
  ELSE Idle

\* all statuses are known: one goroutine per task.  Any running task may have
\* passed its deadline by now, one that had passed it before certainly has
PollLaunch ==
  /\ Active(PollIds) # {}
  /\ \A g \in Active(PollIds) : At(g, "ready")
  /\ \E expired \in SUBSET (IF TaskTimeoutOn THEN Tasks ELSE {}) :
       /\ \A g \in Active(PollIds) : workers[g].late => workers[g].task \in expired
       /\ workers' = [g \in WorkerIds |->
                        IF g \in Active(PollIds)
                        THEN PollBody(workers[g], workers[g].task \in expired)
                        ELSE workers[g]]
  /\ UNCHANGED <<containerVars, actuatorVars, loopVars>>

PollStep == PollSnapshot \/ PollLaunch \/ \E g \in PollIds : PollQuery(g) \/ PollForget(g)

-----------------------------------------------------------------------------
(* The callback loop: updateCallbackTask.                                  *)

CallbackDrop ==
  /\ callbackChannel # <<>>
  /\ AlreadyProcessed(Head(callbackChannel).task,
                      IF Head(callbackChannel).ok THEN "success" ELSE "failed")
  /\ Receive
  /\ UNCHANGED <<containerVars, schedulerVars>>

CallbackHandle ==
  /\ callbackChannel # <<>>
  /\ LET r == Head(callbackChannel)
         w == Holding("idle", r.task, r.att)
     IN /\ ~AlreadyProcessed(r.task, IF r.ok THEN "success" ELSE "failed")
        /\ processedTask' = IF EnableProcessedCheck THEN processedTask \cup {r.task}
                                                    ELSE processedTask
        /\ \E i \in 1..CallbackWorkers :
             /\ IsFree("callback", i)
             /\ Become(<<"callback", i>>, IF r.ok THEN Export(w) ELSE Retry(w))
  /\ Receive
  /\ UNCHANGED <<containerVars, client, sched, finshedTask, persisted>>

\* cleanProcessTask, or the ring that is full, drops an old entry
ProcessedExpire(t) ==
  /\ t \in processedTask
  /\ processedTask' = processedTask \ {t}
  /\ UNCHANGED <<containerVars, actuatorVars, client, sched, workers, finshedTask,
                 persisted>>

CallbackStep == CallbackDrop \/ CallbackHandle \/ \E t \in Tasks : ProcessedExpire(t)

-----------------------------------------------------------------------------
(* The goroutines of a wave, a poll round or a callback.                   *)

\* Actuator.Start, its check; an error makes the task fail
StartCheck(g) ==
  /\ At(g, "start")
  /\ LET w == workers[g] IN
     Become(g, IF StartRefused(w.task) THEN Leaving(w, "failed")
                                       ELSE [w EXCEPT !.pc = "launch"])
  /\ UNCHANGED <<containerVars, actuatorVars, loopVars>>

\* Actuator.Start, the rest; a wave goroutine looks at the limit once more
StartLaunch(g) ==
  /\ At(g, "launch")
  /\ Launch(workers[g].task, workers[g].att)
  /\ Goto(g, IF g \in WaveIds THEN "limit" ELSE "store")
  /\ UNCHANGED <<containerVars, loopVars>>

\* over the limit the start is taken back, and the task with it
LimitCheck(g) ==
  /\ At(g, "limit")
  /\ Goto(g, IF runningTaskCount >= TaskLimit THEN "stop" ELSE "store")
  /\ UNCHANGED <<containerVars, actuatorVars, loopVars>>

\* mutant: the counter is raised for an entry that was there already
ToRunning_AlwaysCounts(g) ==
  /\ At(g, "store")
  /\ LoadOrStore(workers[g].task, workers[g].att)
  /\ Goto(g, "inc")
  /\ UNCHANGED <<actuatorVars, loopVars>>

\* ToRunningStatus: LoadOrStore, then the counter or the second Store
ToRunning(g) ==
  /\ At(g, "store")
  /\ LoadOrStore(workers[g].task, workers[g].att)
  /\ Goto(g, IF runningTaskMap[workers[g].task].in THEN "restore" ELSE "inc")
  /\ UNCHANGED <<actuatorVars, loopVars>>

\* mutant: the counter is not raised
ToRunningCount_Lost(g) ==
  /\ At(g, "inc")
  /\ Become(g, Idle)
  /\ UNCHANGED <<containerVars, actuatorVars, loopVars>>

ToRunningCount(g) ==
  /\ At(g, "inc")
  /\ AddCount(1)
  /\ Become(g, Idle)
  /\ UNCHANGED <<actuatorVars, loopVars>>

ToRunningStore(g) ==
  /\ At(g, "restore")
  /\ Restore(workers[g].task, workers[g].att)
  /\ Become(g, Idle)
  /\ UNCHANGED <<actuatorVars, loopVars>>

\* what follows ToFailedStatus, ToSuccessStatus and ToExportStatus
Left(w) == [w EXCEPT !.pc = IF w.after = "export" THEN "spawn" ELSE "finish"]

\* mutant: the counter is not lowered
LeaveRunning_NotCounted(g) ==
  /\ At(g, "remove")
  /\ LoadAndDelete(workers[g].task)
  /\ Become(g, Left(workers[g]))
  /\ UNCHANGED <<actuatorVars, loopVars>>

\* those three methods: LoadAndDelete, and the counter if there was an entry
LeaveRunning(g) ==
  /\ At(g, "remove")
  /\ LET w == workers[g] IN
     /\ LoadAndDelete(w.task)
     /\ Become(g, IF runningTaskMap[w.task].in THEN [w EXCEPT !.pc = "dec"] ELSE Left(w))
  /\ UNCHANGED <<actuatorVars, loopVars>>

LeaveRunningCount(g) ==
  /\ At(g, "dec")
  /\ AddCount(-1)
  /\ Become(g, Left(workers[g]))
  /\ UNCHANGED <<actuatorVars, loopVars>>

\* finshed: the outcome is reported; a timed out task is then stopped
Finish(g) ==
  /\ At(g, "finish")
  /\ LET w == workers[g] IN
     /\ finshedTask' = [finshedTask EXCEPT ![w.task] =
          Append(@, IF w.after = "success" THEN "success" ELSE "failed")]
     /\ Become(g, IF w.after = "timeout" THEN [w EXCEPT !.pc = "stop"] ELSE Idle)
  /\ UNCHANGED <<containerVars, actuatorVars, client, sched, processedTask, persisted>>

\* Actuator.Stop, after a timeout or over the limit
StopActuator(g) ==
  /\ At(g, "stop")
  /\ Clear(workers[g].task)
  /\ Become(g, Idle)
  /\ UNCHANGED <<containerVars, loopVars>>

-----------------------------------------------------------------------------
(* export: a goroutine of its own fetches the result and persists it.      *)

SpawnExport(g) ==
  /\ At(g, "spawn")
  /\ \E i \in 1..ExportWorkers :
       /\ IsFree("export", i)
       /\ workers' = [workers EXCEPT
            ![g] = Idle,
            ![<<"export", i>>] = Holding("output", workers[g].task, workers[g].att)]
  /\ UNCHANGED <<containerVars, actuatorVars, loopVars>>

\* Actuator.GetOutput, its lookup; without a result the task fails
FetchOutput(g) ==
  /\ At(g, "output")
  /\ LET w == workers[g] IN
     Become(g, IF w.task \in datatMap THEN [w EXCEPT !.pc = "clear"]
                                     ELSE Leaving(w, "failed"))
  /\ UNCHANGED <<containerVars, actuatorVars, loopVars>>

\* Actuator.GetOutput, the rest: status and result are dropped
ClearOutput(g) ==
  /\ At(g, "clear")
  /\ Clear(workers[g].task)
  /\ Goto(g, "persist")
  /\ UNCHANGED <<containerVars, loopVars>>

\* mutant: the error of the persistencer is ignored
Persist_ErrorIgnored(g) ==
  /\ At(g, "persist")
  /\ persisted' \in {persisted, persisted \cup {workers[g].task}}
  /\ Become(g, Leaving(workers[g], "success"))
  /\ UNCHANGED <<containerVars, actuatorVars, client, sched, processedTask, finshedTask>>

\* Persistencer.DataPersistence, which may fail
Persist(g) ==
  /\ At(g, "persist")
  /\ \/ /\ persisted' = persisted \cup {workers[g].task}
        /\ Become(g, Leaving(workers[g], "success"))
     \/ /\ Become(g, Leaving(workers[g], "failed"))
        /\ UNCHANGED persisted
  /\ UNCHANGED <<containerVars, actuatorVars, client, sched, processedTask, finshedTask>>

WorkerStep(g) ==
  \/ StartCheck(g) \/ StartLaunch(g) \/ LimitCheck(g)
  \/ ToRunning(g) \/ ToRunningCount(g) \/ ToRunningStore(g)
  \/ LeaveRunning(g) \/ LeaveRunningCount(g) \/ Finish(g) \/ StopActuator(g)
  \/ SpawnExport(g) \/ FetchOutput(g) \/ ClearOutput(g) \/ Persist(g)

-----------------------------------------------------------------------------

ActuatorStep ==
  /\ \E r \in runs : RunStep(r)
  /\ UNCHANGED <<containerVars, schedulerVars>>

\* the deadline of a running task passes
Deadline(t) ==
  /\ TaskTimeoutOn
  /\ PassDeadline(t)
  /\ UNCHANGED <<actuatorVars, schedulerVars>>

Next ==
  \/ \E t \in Tasks : ClientStep(t) \/ Deadline(t)
  \/ SchedStep
  \/ PollStep
  \/ CallbackStep
  \/ \E g \in WorkerIds : WorkerStep(g)
  \/ ActuatorStep

Safety == Init /\ [][Next]_vars

(***************************************************************************)
(* Fairness.  Every loop and goroutine is run by the Go scheduler, so a    *)
(* step that stays possible is taken in the end; an AddTask or StopTask    *)
(* that was called runs to its end.  A function that is executed has to    *)
(* return, or else nothing can ever be said of its task; where a timeout   *)
(* is configured this is not asked, and instead time passes.               *)
(***************************************************************************)
Fairness ==
  /\ \A t \in Tasks : WF_vars(AddTaskPush(t)) /\ WF_vars(StopTaskDec(t) \/ StopTaskActuator(t))
  /\ WF_vars(SchedStep)
  /\ WF_vars(PollStep)
  /\ WF_vars(CallbackDrop \/ CallbackHandle)
  /\ \A g \in WorkerIds : WF_vars(WorkerStep(g))
  /\ IF TaskTimeoutOn THEN \A t \in Tasks : WF_vars(Deadline(t))
                      ELSE WF_vars(ActuatorStep)

Spec == Safety /\ Fairness

-----------------------------------------------------------------------------
(* Vocabulary of the properties.                                           *)

WorkersAt(pcs) == {g \in WorkerIds : workers[g].pc \in pcs}
WorkersOn(t, pcs) == {g \in WorkersAt(pcs) : workers[g].task = t}

Starting == {"ready", "start", "launch", "limit", "store"}
Ending   == {"remove", "dec", "finish", "spawn", "output", "clear", "persist"}

\* how often AddTask took the task in
Adds(t) == client[t].stops + (IF client[t].pc = "active" THEN 1 ELSE 0)

Reported(t, outcome) == \E i \in 1..Len(finshedTask[t]) : finshedTask[t][i] = outcome

Waits(t) == \E i \in 1..Len(waitingTasks) : waitingTasks[i] = t

\* nothing is left of the task but, perhaps, its last function and its report
Gone(t) ==
  /\ t \notin Running
  /\ ~Waits(t)
  /\ sched.task # t
  /\ WorkersOn(t, Starting \cup {"restore"}) = {}

-----------------------------------------------------------------------------
(* Safety.                                                                 *)

Client ==
  [pc : {"out", "push", "active", "dec", "stop"}, stops : 0..MaxStops,
   told : {"waiting", "running"}]

Sched == [pc : {"idle", "pop", "mark", "wait"}, left : Nat, task : Tasks \cup {NoTask}]

SchedulerTypeOK ==
  /\ client \in [Tasks -> Client]
  /\ sched \in Sched
  /\ workers \in [WorkerIds -> Worker]
  /\ processedTask \in SUBSET Tasks
  /\ finshedTask \in [Tasks -> Seq({"success", "failed"})]
  /\ persisted \in SUBSET Tasks

\* Type correctness; in particular TaskAttemptsTime stays within
\* Config.MaxFailedAttempts wherever a copy of a task is kept.
TypeOK == ContainerTypeOK /\ ActuatorTypeOK /\ SchedulerTypeOK

\* At most TaskLimit tasks are in runningTaskMap, although scheduleOnce reads
\* the running count long before it stores the tasks it popped.
RunningWithinLimit == Cardinality(Running) <= TaskLimit

\* At most TaskLimit functions are executed at once (Config.TaskLimit): the
\* slot of a task is not given away before its function has returned.
ExecutingWithinLimit == Cardinality({r \in runs : r.pc = "run"}) <= TaskLimit

\* runningTaskCount, which is updated after runningTaskMap and without a lock,
\* differs from the number of entries exactly by the updates under way.
CountAccounts ==
  runningTaskCount =
    Cardinality(Running) - Cardinality(WorkersAt({"inc"}))
      + Cardinality(WorkersAt({"dec"}))
      + Cardinality({t \in Tasks : client[t].pc = "dec"})

\* One scheduler alone never finds itself over the limit after it started a
\* task, so scheduleOnce never takes a start back (and never drops a task).
NoStartTakenBack ==
  \A g \in WorkersAt({"limit"}) : runningTaskCount < TaskLimit

\* finshed is called no more often than AddTask has taken the task in: once without
\* stops.  Which of several AddTasks a report belongs to is not asked.
FinishedOnce == \A t \in Tasks : Len(finshedTask[t]) <= Adds(t)

\* A task is reported as a success only if a call of its function succeeded
\* and, with a persistencer, only after its result was persisted.
SuccessHasRun ==
  \A t \in Tasks : Reported(t, "success") =>
    t \in succeeded /\ (HasPersistencer => t \in persisted)

\* Without timeout and persistencer a task is reported as failed only after
\* its function was started as often as Config.MaxFailedAttempts allows.
FailureIsExhausted ==
  \A t \in Tasks : Reported(t, "failed") => starts[t] = 1 + MaxFailedAttempts

\* The function of a task is started no more often than the AddTasks so far allow
\* together, each 1 + MaxFailedAttempts times.
AttemptsBound ==
  \A t \in Tasks : starts[t] <= (1 + MaxFailedAttempts) * Adds(t)

\* When a task is reported it has left the queue and the running map, and no
\* goroutine is about to start it or to put it back there.
FinishedIsGone ==
  \A t \in Tasks : finshedTask[t] # <<>> => Gone(t)

-----------------------------------------------------------------------------
(* Action properties.                                                      *)

\* A reported task is never started again.
NoRestart == [][\A t \in Tasks : finshedTask[t] # <<>> => starts'[t] = starts[t]]_vars

-----------------------------------------------------------------------------
(* Liveness.                                                               *)

\* Every task that AddTask took in is reported in the end.
EveryTaskFinishes ==
  \A t \in Tasks : client[t].pc = "active" ~> finshedTask[t] # <<>>

\* When all tasks have been handled nothing is left in the running map.
Settles == <>[](Running = {})

-----------------------------------------------------------------------------
(* Poll mode without stops implements TaskLifecycle: a task holds its slot *)
(* from the moment it is taken out of the queue until it is deleted from   *)
(* runningTaskMap, and a report is what finshed is called with.            *)

HoldingTasks ==
  {t \in Tasks : t \in Running \/ sched.task = t
                 \/ \E g \in WorkersOn(t, Starting) : g \in WaveIds}

LeavingTasks == {t \in Tasks \ HoldingTasks : WorkersOn(t, Ending) # {}}

Outcome ==
  [t \in Tasks |-> IF finshedTask[t] = <<>> THEN "none" ELSE Head(finshedTask[t])]

Lifecycle == INSTANCE TaskLifecycle WITH
  waiting <- waitingTasks, holding <- HoldingTasks, leaving <- LeavingTasks,
  attempts <- starts, outcome <- Outcome

\* The scheduler keeps the promises of TaskLifecycle: tasks leave the queue in
\* the order of AddTask, at most TaskLimit hold a slot, only these are started,
\* and each is reported once, after its slot was given back.
LifecycleSpec == Lifecycle!Spec
=============================================================================
