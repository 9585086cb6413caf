# light-task-scheduler in TLA+

A verification project for the Go library *light-task-scheduler*: TLA+ modules
translated from its source, model-checked with TLC on small instances, with
theorems proved by TLAPS for every value of the constants.

## 1. The system

The library runs tasks in the background. A **scheduler** moves tasks between
the states of a **container** and has them executed by an **actuator**; a
**persistencer** may store results, and a **callback receiver** may tell the
scheduler early that a task has ended.

| part | state it keeps | operations | runs in |
|---|---|---|---|
| scheduler (`task_scheduler.go`) | configuration; the channel of finished tasks; a map and a ring of recently processed ids | AddTask, StopTask, Close, FinshedTasks; loops `scheduleOnce`, `updateOnce`, `updateCallbackTask`, `cleanProcessTask` | callers; one goroutine per loop; one per task of a wave, of a poll round, of a callback; one per export |
| queue container (`queue_container.go`) | channel of waiting tasks, stop marks, running map, running count | AddTask, GetWaitingTask, GetRunningTask(Count), ToXStatus | the calling goroutine, without a lock |
| function actuator (`function_actuator.go`) | cache of statuses, cache of results | Start, Stop, GetAsyncTaskStatus, GetOutput | callers; one goroutine per start |
| combination container (`combination_container.go`) | a memory and a persistent container | the container's, on both; recovery at start-up | callers |
| SQL container (video cut example) | rows of a table | compare and set of a row's status | callers, several processes |
| docker actuator (`docker_actuator.go`) | container ids by name | the actuator's, over a docker daemon | callers |
| video cut service and actuator (example) | jobs of an HTTP service | VideoCut, Status, GetOutputVideo, Stop | HTTP handlers, one goroutine per job |
| ordered-map and redis containers | none, they are to be written | none | |
| web front end (example) | none of its own | createTask, startTask, stopTask, deleteTask: a read of the row, then a statement, AddTask or StopTask | HTTP handlers, several at a time |
| example programs | none | they configure the library; `main_web` composes the last four parts | |

What makes it hard: nothing but the processed-id ring is locked. The running
count is changed after the running map; the number of tasks to take is computed
from a count that is old when the tasks are stored; a poll round works on copies;
a callback may overtake the goroutine that started its task; a stopped function
goes on running and publishes its status later; results are fetched destructively
before they are stored. With a database the memory and the table change one after
the other, a statement may fail or its answer be lost, and the process may crash
between any two steps; with an actuator over HTTP so may the requests. What should hold all the same, by component:

* scheduler: the limit, one report per task, the promised number of attempts,
  nothing left behind after a report, every task reported in the end;
* container: first in first out, the count agrees with the map;
* processed ids: exactly the recent ones are remembered;
* channel of finished tasks: nothing twice, the caller always returns;
* persistent containers: memory and database agree, also after a restart; a row
  moves along the arrows of a task's life only, and ends once per start;
* actuators: a success has its result and belongs to the last start; nothing runs
  that nobody can stop.

`PROJECT.json` lists the places in the code where these can go wrong
("hazards") and the properties that would notice.

## 2. The modules

| module | models | remarks |
|---|---|---|
| `Task` | `task.go` | task ids, attempts |
| `QueueContainer` | `queue_container.go` | one operator per atomic access |
| `FunctionActuator` | `function_actuator.go` | one operator per cache access; the goroutine of a start is a record in `runs` |
| `TaskScheduler` | `task_scheduler.go` | composes the two above: clients, loops, goroutines; properties |
| `TaskLifecycle` | the promise of the scheduler | abstract, refined by `TaskScheduler` |
| `TaskSchedulerInvariant` | | the inductive invariants |
| `MCTaskScheduler` | | symmetry for TLC; the configurations are the `.cfg` files |
| `TaskSchedulerProofs`, `PollModeProofs`, `AttemptsProofs` | | theorems and proofs; each extends the one before |
| `ProcessedTask` | `checkProcessed`, `cleanProcessTask` | map and ring |
| `RecentlyProcessed` | the list they stand for | abstract, refined by `ProcessedTask` |
| `ProcessedTaskProofs` | | theorems and proofs |
| `FinishedChannel` | `finshed`, `FinshedTasks`, `Close` | |
| `FinishedChannelProofs` | | theorems and proofs |
| `SqlContainer` | `example_sql_container.go`, `video_cut_task.go` | one operator per SQL statement |
| `CombinationContainer` | `combination_container.go` over the queue and the SQL container | one operator per method of the memory's half; the constructor's recovery |
| `VideoCutService` | `video_cut_service.go` | handlers, and the goroutine `cut` of every job |
| `VideoCutWeb` | `main_web`: `web.go`, `task_scheduler.go` in poll mode with its error branches, `video_cut_actuator.go` | composes the three above; faults, crash and restart; properties |
| `RowLifecycle` | the life of a task as its row shows it | abstract, refined by `VideoCutWeb` |
| `VideoCutProofs`, `VideoCutRestartProofs` | | theorems and proofs; the second, of restarts, extends the first |
| `DockerActuator` | `docker_actuator.go`, a docker daemon, the poll loop as its caller | |
| `DockerActuatorProofs` | | theorems and proofs |

**State.** Variables have the names of the fields: `waitingTasks`,
`stopedTaskMap`, `runningTaskMap`, `runningTaskCount` (container);
`runningTask`, `datatMap`, `callbackChannel` (actuator); `processedTask`,
`finshedTask` (scheduler). A stored task is reduced to its attempts and to
whether its timeout has passed. `persisted` is what the persistencer holds.
`client`, `sched` and `workers` are program counters: of the user's goroutine
per task, of the scheduling loop, and of every goroutine the scheduler starts
(`<<"sched", i>>` of a wave, `<<"poll", t>>` of a poll round, `<<"callback", i>>`,
`<<"export", i>>`). `starts` and `succeeded` are history.

In `VideoCutWeb` the table is `rows`, the only variable a crash leaves; the memory
is that of the queue container, `jobs` and `outMap` are the service's two maps.
`go` is a function from the goroutines that exist (`<<"wave", i>>`, `<<"poll", t>>`,
`<<"export", i>>`, `<<"request", i>>`) to what they are about to do and to their own
copy of the task: its status as they believe it, attempts and job. `asked`, `ended`,
`finshed`, `madeFor` and `ignored` are history. In `DockerActuator`
`containers` is the daemon, `runningTask` the actuator's map, `caller`, `round` and
`status` what the scheduler does with it.

**Actions.** One action is one access to shared memory, with the local code
before and after it; so the steps of different goroutines interleave wherever
the Go memory model lets them. `StartCheck`, `StartLaunch`, `LimitCheck`,
`ToRunning`, `ToRunningCount` for example are what a goroutine of
`scheduleOnce` goes through. Local branches are operators that give the
goroutine's next state: `PollBody`, `Retry`, `Export`, `Leaving`.

**Abstractions.**

* The `Range` of GetRunningTask is one step. Two cache accesses that are next to
  each other in one goroutine and whose order no other goroutine can tell
  (delete status, delete result) are one step.
* Each poll goroutine is named by its task, as a task is in the map once.
* In `TaskScheduler` the ring of processed ids is a set from which any id may
  disappear at any time; `ProcessedTask` shows what the ring does exactly.
* In `TaskScheduler` the finished channel is the list of outcomes with which
  `finshed` is called; what happens to them then is `FinishedChannel`.
* The time of a timeout passes at any moment (`PassDeadline`, and the choice of
  `expired` in `PollLaunch`).
* The branches the scheduler takes when a container method fails are not in
  `TaskScheduler`, as the methods of the queue container never fail; they are in
  `VideoCutWeb`.
* In `VideoCutWeb` a step is one SQL statement, one HTTP call or one method of the
  memory container; `QueueContainer` and `TaskScheduler` split the latter further.
  Before a statement or a call takes effect, or after it, it may fail: the code
  takes the same branch.
* Service, web front end and scheduler share a process, as in `main_web`; they crash
  together. Output files, start times and failure reasons are left out.
* A request that a handler refuses changes nothing and is no step. `startTask`
  accepts rows that were never started and rows that have ended; `Operations` tells
  the two apart so that a run can leave one of them out.
* The bound `MaxWorks` stops `videoCut`, not the code; it is as large as the number
  of starts the other bounds allow.
* In `DockerActuator` the daemon refuses a name that is in use, and AutoRemove takes
  any time. A user's StopTask is left out: the caller stops late tasks only, so that a task
  is neither stopped while it is started, nor stopped and added again during a round.
* Adjacent steps are one where no caller in the model can tell: the reads and pops of
  `ScheduleOnce` (`VideoCutWeb`), the lookup and deletion of `Cancel` and `DropIfEnded`
  (`VideoCutService`), the call of the daemon and the change of the entry in `Launch`,
  `Ask` and `Stop` (`DockerActuator`).
* `AddTask` of an id that is waiting or running is not modelled; the docs ask for
  a unique id per task. After StopTask an id may be added again.
* `Close` is modelled with the finished channel only; it ends the loops.
* `NewLimitWaitGroup(20)` appears as the number of goroutines that may be busy.
* Caches do not expire (five days in the code).

## 3. The runs

| run | configuration | shows |
|---|---|---|
| `PollOnly` | polling; 3 tasks, limit 2, queue of 2, 2 retries | limit, counting, attempts, refinement of `TaskLifecycle` |
| `PollExport` | polling, persistencer, timeout; 2 tasks, limit 1, queue of 1, 1 retry | the inductive invariant, one report, nothing left behind, liveness |
| `CallbackOnly` | callbacks, persistencer; 2 tasks, limit 2, 1 retry | one report and bounded attempts although callbacks overtake |
| `PollStop` | polling; 1 task stopped and added again, limit 1 | reports and starts stay within what the AddTasks so far allow together (not one by one) |
| `PollAndCallback` | both; 1 task, limit 1, 1 retry | liveness, the map empties |
| `ProcessedTask` | ring of 2, 3 ids, clock to 5 | ring and map implement the list |
| `FinishedChannel` | 3 tasks, capacity 1, reader, Close | delivery at most once, `finshed` returns |
| `VideoCutFaults` | 1 task, 1 slot, 1 retry, 2 users at a time with 3 requests of any kind, one lost or failed call or statement | one end per start, a success has its output, reports are recorded, refinement of `RowLifecycle` |
| `VideoCutRestart` | 2 tasks, 1 slot, started and deleted, one crash, one failure of the constructor's statement | memory follows the table, the limit, no unknown jobs, recovery |
| `DockerActuator` | 2 tasks, one named by its id, 4 containers, 2 failing calls | a success is that of the last container, entries are the last start's, what runs can be stopped |

and two runs in which TLC finds a disagreement of code and comments (section 5):
`PollAndCallbackTwice` and `VideoCutIgnored`.

**Bounds.** `Tasks`, `MaxFailedAttempts`, `TaskLimit`, `QueueSize` and
`CallbackSize` are parameters of the program. `MaxStops` bounds how often a task
is stopped; `MaxWave`, `CallbackWorkers` and `ExportWorkers` bound goroutines;
`MaxTime` bounds the clock of `ProcessedTask`. With three tasks and two slots a
wave may take two tasks while a third waits, a slot is freed while a wave is under
way, and the third task is taken with a count that is old; with a queue of two
AddTask may time out. One task is enough for the races of one task's own
goroutines (start, poll, callback, stop); two show that the end of one task is not
taken for another's. `MaxWave = TaskLimit` or more never restricts a wave: no more
tasks are taken than the limit allows. With `CallbackWorkers = 1` a second
callback waits while the first one's goroutine is busy, as it does in the code when
the limit of 20 is reached. The deadlock check is off because a system in which
all tasks are reported and not polled has nothing left to do.

In `VideoCutFaults` two users are enough for every pair of requests on one row, three
requests for a start, its stop and the start after it; one fault is enough to make
any one branch for errors run, next to any other goroutine. In `VideoCutRestart`
one slot makes a second task wait while the first is running, so that the restart
finds both kinds of rows; a batch of 2 lets the constructor meet a full batch. The
properties of that run were also checked, once, with 2 slots, a batch of 3 and 6 jobs.
Four containers let each task of `DockerActuator` be started again after a first
container was left over, and two faults let a second call fail while what the first
one left is still there.

**Fairness.** Weak fairness of every loop and of every goroutine: the Go
scheduler runs them, and none waits for a lock that can be held for ever. A
client that called AddTask or StopTask finishes the call; nobody is obliged to
call. If no timeout is configured a function that was started returns in the end
(otherwise nothing can be said of its task); with a timeout it may run for ever
and instead the deadline passes. In `VideoCutWeb` likewise: the loops, the
constructor, each goroutine and each run of ffmpeg go on; no request, no fault and
no crash has to happen.

**What `VideoCutRestart` does not claim.** `MemoryFollowsTable`, `TableWithinLimit`
and `JobsAreKnown` are stated of a program whose calls and statements work, whose
users neither stop a task nor start it again and make one request after the other,
and which does not try a failed job again. Section 4 says which of these conditions
each of them is proved from, and what TLC finds without them; section 5 says why.

## 4. The theorems

**The scheduler.** `TaskSchedulerProofs`, for every configuration, with callbacks,
retries, timeouts and StopTask at any moment:

| theorem | property |
|---|---|
| `TypeCorrect` | `TypeOK` |
| `ReportedSuccessIsReal` | `SuccessHasRun` |

* `TypeOK` alone is not inductive: that a goroutine that works has a task, and that
  the scheduling loop has a task in hand exactly between taking it and looking for
  its stop mark (`BusyOK`), is needed in addition. There is one lemma per group of
  actions, and below them lemmas of what each access to the container and to the
  actuator does.
* `SuccessHasRun` speaks of the reports only. `SuccessSource` follows a success back
  to where it comes from: the record of a run, the message in the callback channel,
  the cached status (`ActuatorTruth`), then the local copy of the goroutine that has
  read it, through export and persistencer to the report (`WorkersTruth`).

`PollModeProofs` proves, for `PollMode` (no callback channel, no StopTask) and any
number of tasks, limit, queue size and number of goroutines:

| theorem | property |
|---|---|
| `PollInvariantHolds` | `PollInvariant`, the inductive invariant |
| `LimitKept` | `RunningWithinLimit` |
| `NoStartIsTakenBack` | `NoStartTakenBack` |
| `CountIsExact` | `CountAccounts` |
| `ReportedAtMostOnce` | `FinishedOnce` |
| `ReportedAndGone` | `FinishedIsGone` |
| `ReportedNeverRestarts` | `NoRestart` |

None of these properties is inductive. `RunningWithinLimit` says nothing of the
tasks that were popped and will be stored; `FinishedOnce` nothing of a second
goroutine that is about to report. `PollInvariant` adds two ideas.

* *One place.* `Place[t]` is the set of places where `t` is: with its client, in the
  queue, in the hand of the scheduling loop, in a slot (in the map, or just deleted
  from it by the poll goroutine that reports it), or with a goroutine of a wave or an
  export. It has at most one element (`OnePlace`), and none once the task is reported
  (`ReportedOnce`). A step moves a task from its place to another one (`OtherPlace`),
  or takes it away (`FewerPlaces`).
* *Paid slots.* `runningTaskCount`, plus the goroutines of the wave that have not
  counted yet, plus the tasks the loop may still take, is at most `TaskLimit`
  (`Budget`). A round starts only when the previous wave is over, so the count it
  reads misses nothing that would raise it; it may miss what lowers it, which errs
  on the safe side. With `CountAccounts` this gives the limit on the map itself.

`Shape` (which goroutine can be where, and when the tasks of a poll round are in the
map) carries both. Steps that change neither places nor counts are proved together
(`Quiet`, `QuietStep`); the others have a lemma each: `StoreStep`, `CountUpStep`,
`LeaveStep`, `CountDownStep`, `FinishStep`, `SpawnStep`, `SchedPopStep`, and so on.
TLC checks `PollInvariant` in `PollExport`, with persistencer and timeout.

`AttemptsProofs` builds on it, again for `PollMode`:

| theorem | in addition | property |
|---|---|---|
| `AttemptsAreBounded` | | `AttemptsBound` |
| `ExecutingKept` | no timeout | `ExecutingWithinLimit` |
| `FailedOnlyWhenExhausted` | no timeout, no persistencer | `FailureIsExhausted` |
| `ImplementsLifecycle` | | `LifecycleSpec`, the refinement of `TaskLifecycle` |

* `StartsCounted` compares the starts of a task with TaskAttemptsTime, which is kept in
  copies: with a wave goroutine that has started the task, in the running map, and with
  the poll goroutine that works on an older copy and will store it. Where the copies
  differ, the program counter says by how much (`WaveCounts`, `PollCounts`). That only
  one goroutine counts at a time is `OnePlace`.
* `RunsHoldSlots` ties a call that is executed to the cached status, and that to what
  the poll goroutine of the task may have seen of it (`PollSees`): an attempt starts only
  after the one before it was seen to have ended, so there is one run per task, and the
  task is in the map or with a wave goroutine whose slot is paid for. With a timeout the
  property does not hold: a function that was given up goes on running.
* `FailuresExhausted`: who removes or reports a task as failed has counted all its
  starts. A timeout, and a result that could not be exported, are failures of another
  kind; hence the conditions.
* `ImplementsLifecycle`. A task holds a slot of `TaskLifecycle`, is leaving, or neither;
  a step that moves no task from one side to another is a stutter, and the steps that do
  each have a lemma that names the abstract action. `PollInvariant`, `StartsCounted` and
  `SuccessSource` are what the guards of the abstract actions need.

**Processed ids and finished tasks.** For any number of ids, size of the ring and window,
and any capacity of the channel:

| theorem | property |
|---|---|
| `RingTypeCorrect` | `TypeOK` of `ProcessedTask` |
| `MapIsRing` | `RingIsMap` |
| `ImplementsRecent` | `RecentSpec`, the refinement of `RecentlyProcessed` |
| `ChannelTypeCorrect` | `TypeOK` of `FinishedChannel` |
| `DeliveredAtMostOnce` | `OnePlace` |

* Read from `head`, the ring is a list (`Ring`). A call drops a prefix of it and appends
  at most one entry; the lemmas say so about the indexes modulo the size of the ring.
  The list is ordered by time (`InOrder`), so that the loop of `cleanProcessTask`, which
  stops at the first entry that is not old, drops every old one; and it holds no id twice
  (`SameIds`), so that the key of a dropped entry is not that of one that stays.
* A task in the channel, with the user or dropped has been sent, and its goroutine sends
  no more (`SentOnce`); what leaves the channel at its head goes to one of the two others.

**The video cut program.** `VideoCutProofs`, for any number of tasks, users, requests,
faults and crashes, whichever statements and calls fail, and under `Safety` (no fairness):

| theorem | property |
|---|---|
| `WebTypeCorrect` | `WebTypeOK` |
| `OneEndPerStart` | `OneOutcome` |
| `RowsImplement` | `RowsLive`, the refinement of `RowLifecycle` |
| `SuccessIsNotMadeUp` | `SuccessIsTrue` |
| `NoEndIsMadeUp` | `ReportedIsRecorded` |

* `OneOutcome` is not inductive without what the goroutines believe:
  a compare and set finds the row in the state of the goroutine's own copy, so each
  copy must be one from which the transition it is about to ask for is allowed.
  `GoodCopy` says this for every program counter (the allowed transitions are
  `Arrow`), `Known` that AddTask is only called for a task that has a row, `NoGhost`
  that only a row can be deleted. With them every step does to the table one of five
  things (`Moved`); `MovedOK` and `MovedRefines` prove the count of ends and the step
  of `RowLifecycle` from `Moved` alone, and each action has a lemma that it is `Moved`
  and keeps types and copies (`Sound`).
* `SuccessIsTrue`: wherever a job id is kept (row, running map, goroutine, also
  after a restart) it is that of a job of the same task (`IsOf`); a path is stored
  only for a job that is over (`PathsTrue`), and a goroutine that is about to write
  "success" has stored the output (`Truthful`). Jobs may be lost and found again
  because the service forgets neither whose a job was nor that it was finished
  (`Keeps`).
* `ReportedIsRecorded`: the calls of `finshed` made, plus the goroutines that have
  written an outcome and will call it, are at most the outcomes written (`ReportInv`).

`VideoCutRestartProofs`, of the process that may crash at any moment, any number of
times. `Calm` says that no statement of a goroutine fails (one of the constructor may,
and so may calls), that users only start and delete tasks, and make one request after
the other; `NoRetry` is `MaxFailedAttempts = 0`, `CallsWork` that no call fails.

| theorem | from | property |
|---|---|---|
| `LimitSurvives` | `Calm` | `TableWithinLimit` |
| `RunningIsInTable` | `Calm` | `MapFollowsTable`, the first half of the next |
| `MemoryAgreesWithTable` | `Calm`, `NoRetry` | `MemoryFollowsTable` |
| `NoJobIsLost` | `Calm`, `NoRetry`, `CallsWork` | `JobsAreKnown` |

* `OwnInv` is the argument of `PollModeProofs` for goroutines that work on a table and a
  memory. A task that runs is in the running map, or with the wave goroutine that has
  written its row and will store it, or with an export (`OneHolder`); a goroutine between
  the two halves of a transition knows what it wrote (`Agrees`, per kind of goroutine);
  so map and table differ for a task by such goroutines only (`TaskAgrees`). The slots
  taken and those set aside for a wave are at most `TaskLimit` (`Budget`); with the former
  this bounds the rows that are RUNNING, so that the constructor, after a crash, puts
  back no more than fits (`Recovering`). A step either leaves row and map of every task
  (`Untouched`), or touches those of one task of which all other goroutines are
  `Passive` (`AloneAgrees`): it does not start before, as nothing relies on an idle task
  (`IdleTask`), and afterwards it has one holder (`MapTask`, `HeldTask`).
* `WorksAgree`: the map has the job of the row, and so has a poll goroutine that will
  write. A retry breaks it, as the queue container keeps the job of the entry that is
  there (section 5).
* `JobsMinded`: a job that runs is that of its RUNNING row, or a goroutine is about to
  store or stop it; and a poll goroutine takes a task away after the service has answered
  that the job is over, or will stop it (`Settled`). That a new job is nobody's is
  `IsOf`, from `VideoCutProofs`.

No condition is there for convenience. On the instance of `VideoCutRestart`, TLC finds
`TableWithinLimit` violated with failing statements, with two requests at a time and with
second starts; `MemoryFollowsTable` also with stops and with retries; `JobsAreKnown` with
failing calls and with retries. It finds no violation of the limit, nor an unknown job,
with stops alone: for these the proofs are not as general as they could be. The three
invariants were checked with TLC on that instance before they were proved.

**The docker actuator**, for any tasks, names, number of containers and failing calls:

| theorem | property |
|---|---|
| `SuccessHasExit0` | `SuccessIsExit0` |
| `EntryOfLastStart` | `EntryIsOwn` |
| `RunningHasEntry` | `RunningIsKnown` |

What makes them inductive: an entry is a container of its own task that was started
(`Owned`), what a start has created is the task's last container until it is stored
(`Held`), only tasks the scheduler takes to be running are asked for (`Polled`), a
name is in use once (`Unique`, which is the daemon's refusal), and an exit code comes
with the exit (`NoExit`).

**Assumptions** are those of the modules (`TaskAssumption`, `ContainerAssumption`,
`ActuatorAssumption`, `SchedulerAssumption`, `ProcessedAssumption`, `FinishedAssumption`,
`WorksAssumption`, `CombinationAssumption`, `WebAssumption`, `DockerAssumption`): sets of tasks are finite,
limits and sizes are positive, bounds are numbers, and `Config.check` accepted the
configuration.

**Only model-checked.** The liveness properties: TLAPS proves none under fairness. And
everything but types and successes about callbacks and stops in `TaskScheduler`: the
properties of `CallbackOnly`, `PollStop` and `PollAndCallback` are proved for polling
without stops only, since `PollInvariant` does not hold there (a callback may take away
a task that the wave goroutine has not stored yet, section 5), and some other invariant
would have to take its place.

## 5. Where code and comments disagree

* **One end, processed twice** (`PollAndCallbackTwice`). The comment on
  `processedTask` says that the ends of tasks are remembered so that callback and
  polling do not both process one. The poll loop calls `checkProcessed` with the
  container's copy of the task; its status is RUNNING and the function answers
  true at once.
* **Ignored is lost** (`VideoCutIgnored`). The actuator answers a network error of
  Start with `ignoreErr`: "ignore the error, schedule again"; the interface says "wait
  for recovery". `scheduleOnce` returns. The task has been taken from the queue and
  no one puts it back; with the combination container its row stays WAITING until
  the process is restarted.

Further observations made with the models, not kept as runs.

Of the scheduler:

* With callbacks only, a failed attempt may be retried and stored while the wave
  goroutine that started the task has not yet looked at the limit. Its look finds
  the limit reached, by its own task, and it stops the retry. No callback will
  come, and the task stays in the running map.
* StopTask of a task between the queue and the running map leaves a stop mark,
  which is looked at only when a task leaves the queue. The task is started after
  StopTask has returned.
* The comment in `finshed` describes removing one element of a full channel to make
  room and up to three tries; the code removes one and returns without putting the
  new one in.

* With polling and callbacks together a task may be started more often than
  `MaxFailedAttempts` allows, because both count on copies.
* With callbacks only, the callback of a run may remove the task before the wave
  goroutine stores it; the entry then keeps its slot for ever, and the running
  count is raised for it.
* With StopTask and polling the limit can be exceeded for a while: the slot is
  free as soon as the task left the map, and a retry stores the task again.
* A stop mark of a task that was not waiting makes the next AddTask of that id
  remove the mark and queue nothing.
* The ids are remembered for one second (`cleanProcessTask`), the comment on
  `processedTask` says five.
* `finshed` on a channel that `Close` has closed panics.
* `start` sets `enableProcessedCheck` and makes its map after it has started the
  loops that use them.

Of the containers over a database:

* A transition writes the table before the memory. If the user starts a task again
  in between, the old goroutine removes the new entry from the memory: the task runs
  without being polled, and the limit is exceeded.
* `AddTask` queues the task before it writes the row. If the task is taken first,
  its compare and set fails, the job is stopped, and the row then says WAITING with
  nothing in the queue. The error of a second start request that read the row at the
  same time is not noticed either: its late insert sets a RUNNING row to WAITING.
* The stop of a task that was taken from the queue leaves a mark which swallows the
  next start, although the row says WAITING.
* If a stop comes between the two halves of the transition to RUNNING, the entry that
  is stored afterwards keeps its slot until the process ends.
* Rows that are EXPORTING are not recovered. The constructor reads the same first
  1000 waiting rows again until it gets fewer, so that it does not return when there
  are 1000 or more. An error in reading the RUNNING rows panics.
* Attempts start from zero after a restart.

Of the video cut actuator and service:

* `status` deletes the status of a job that has ended. If its answer is lost the
  actuator takes the task for running and the next answer is "not found": a success
  becomes a failure, or a retry.
* The memory keeps the job id of the first attempt (`queue_container.go:101`): a retried
  job is never asked for; its task fails as "not found".
* A success is published before its output path, so that `GetOutput` may fail.
* `cut` stores the status of a job that `stop` has deleted in between.
* When the answer of `/VideoCut` is lost, the job runs and nobody knows it.

Of the docker actuator:

* ContainerInspect of a container that was removed is an error, and one error ends the
  whole round of GetAsyncTaskStatus: no task of the scheduler is looked at, late ones
  included. As nothing deletes the entry, every later round ends in the same way. It
  happens when AutoRemove is faster than the poll loop, and when a round fails after
  it has removed the container of a task it had asked for.
* Entries are stored by name and deleted by task id, so that they are left over unless
  the two are the same; the next start replaces them.
* In a round that fails, the answers about the tasks before are lost.
* A container that was created and could not be started keeps its name.
* `datatMap` is never written: `GetOutput` always returns an error.

## 6. Not modelled, and what is left to do

Not modelled: the two container stubs (no behaviour); request parsing, the list of
tasks, downloads and the HTML of the web front end (they read only); the SQL container
as the scheduler's only container, with several processes over one table, where
`scheduleOnce` may exceed the limit by as many tasks as there are processes; the
error branches of the callback loop; the five days' expiry of the caches.

To be proved: one report per AddTask with callbacks only, where a goroutine of the wave
and one of a callback may hold the same task, and with stops, where the client may take a
task away from the others; the same for the bound on attempts. Of the video cut program,
`TableWithinLimit` and `JobsAreKnown` with stops.
