---------------------- MODULE TaskSchedulerInvariant ------------------------
(***************************************************************************)
(* Inductive invariants of the scheduler.                                  *)
(*                                                                         *)
(* SuccessSource, for every configuration: whatever says that a task was   *)
(* successful, a call of its function stands behind it.                    *)
(*                                                                         *)
(* PollInvariant, for poll mode while no task is stopped.  Its idea: a     *)
(* task is always in one place only, and every slot that may be taken is   *)
(* paid for before the task is started.                                    *)
(*                                                                         *)
(* Three that need it.  StartsCounted: the attempts in every copy of a     *)
(* task agree with the starts.  RunsHoldSlots: a function that is executed *)
(* belongs to a task that holds a slot.  FailuresExhausted: who gives a    *)
(* task up as failed has used up its attempts.                             *)
(***************************************************************************)
EXTENDS TaskScheduler

\* a goroutine that has seen a success holds a task of S, and one that reports
\* it has persisted it, P, if there is a persistencer
Truthful(w, S, P) ==
  /\ \/ w.st = "success"
     \/ w.after \in {"success", "export"}
     \/ w.pc \in {"spawn", "output", "clear", "persist"}
     => w.task \in S
  /\ w.after = "success" /\ HasPersistencer => w.task \in P

\* the goroutine that runs the function, the callback and the cached status
\* say success only of a task whose function succeeded
ActuatorTruth ==
  /\ \A r \in runs : r.ok => r.task \in succeeded
  /\ \A i \in 1..Len(callbackChannel) :
       callbackChannel[i].ok => callbackChannel[i].task \in succeeded
  /\ \A t \in Tasks : runningTask[t] = "success" => t \in succeeded

WorkersTruth == \A g \in WorkerIds : Truthful(workers[g], succeeded, persisted)

\* The inductive invariant behind SuccessHasRun.
SuccessSource == ActuatorTruth /\ WorkersTruth /\ SuccessHasRun

\* the configuration the invariant is about
PollMode == ~EnableStateCallback /\ MaxStops = 0

\* only an idle goroutine, and a loop that has no task in hand, has no task
BusyOK ==
  /\ \A g \in WorkerIds : workers[g].pc # "idle" => workers[g].task \in Tasks
  /\ sched.pc = "mark" <=> sched.task # NoTask

TypeInv == TypeOK /\ BusyOK

-----------------------------------------------------------------------------
(* Where the goroutines can be.                                            *)

WavePC == {"idle", "ready", "start", "launch", "limit", "store", "inc",
           "remove", "finish", "stop", "spawn"}
ExportPC == {"idle", "output", "clear", "persist", "remove", "finish", "stop", "spawn"}

\* a poll goroutine at one of these looks at a task of the running map
PollHolds == {"query", "forget", "ready", "start", "launch", "store", "restore", "remove"}
\* at one of these it has deleted the task from there and reports it
PollEnds == {"dec", "finish", "spawn"}
PollPC == {"idle", "stop"} \cup PollHolds \cup PollEnds

\* no callback is on its way
NoCallbacks ==
  /\ callbackChannel = <<>>
  /\ \A r \in runs : r.pc # "callback"

ClientShape == \A t \in Tasks : client[t].pc \in {"out", "push", "active"} /\ client[t].stops = 0

SchedShape ==
  /\ sched.pc \in {"idle", "wait"} => sched.left = 0
  /\ sched.pc = "idle" => \A g \in WaveIds : workers[g].pc = "idle"
  /\ sched.pc \in {"pop", "mark"} => \A g \in WaveIds : workers[g].pc \in {"idle", "ready"}

WorkerShape ==
  /\ \A g \in WaveIds : workers[g].pc \in WavePC
  /\ \A g \in CallbackIds : workers[g].pc = "idle"
  /\ \A g \in ExportIds : workers[g].pc \in ExportPC
  /\ \A g \in PollIds : workers[g].pc \in PollPC
  /\ \A g \in PollIds : workers[g].pc # "idle" => workers[g].task = g[2]
  /\ \A g \in PollIds : workers[g].pc \in PollHolds => g[2] \in Running
  /\ \A g \in PollIds : workers[g].pc \in PollEnds => g[2] \notin Running

Shape == NoCallbacks /\ ClientShape /\ SchedShape /\ WorkerShape

-----------------------------------------------------------------------------
(* The places of a task: with its client, in the queue, in the hand of the *)
(* scheduling loop, in a slot, or with a goroutine that has taken it from  *)
(* the queue and not stored it, or that exports and reports it.            *)

Outside == <<"outside", 0>>
Queue   == <<"queue", 0>>
Hand    == <<"hand", 0>>
Slot    == <<"slot", 0>>

\* a goroutine at one of these has let go of its task
Loose == {"idle", "inc", "stop"}

Place ==
  [t \in Tasks |->
     {p \in {Outside} : client[t].pc # "active"}
       \cup {p \in {Queue} : Waits(t)}
       \cup {p \in {Hand} : sched.task = t}
       \cup {p \in {Slot} : t \in Running \/ workers[<<"poll", t>>].pc \in PollEnds}
       \cup {g \in WaveIds \cup ExportIds :
               workers[g].task = t /\ workers[g].pc \notin Loose}]

OnePlace == \A t \in Tasks : \A p, q \in Place[t] : p = q

QueuedOnce ==
  \A i, j \in 1..Len(waitingTasks) : waitingTasks[i] = waitingTasks[j] => i = j

\* a reported task is nowhere, and reported once
ReportedOnce ==
  \A t \in Tasks : finshedTask[t] # <<>> => Len(finshedTask[t]) = 1 /\ Place[t] = {}

-----------------------------------------------------------------------------
(* Every slot is paid for.                                                 *)

\* the goroutines of a wave that will raise the running count
WillCount == {"ready", "start", "launch", "limit", "store", "inc"}
WaveBudget == {g \in WaveIds : workers[g].pc \in WillCount}

Budget ==
  runningTaskCount + Cardinality(WaveBudget) + sched.left
    + (IF sched.pc = "mark" THEN 1 ELSE 0) <= TaskLimit

\* The inductive invariant behind RunningWithinLimit, CountAccounts,
\* FinishedOnce, FinishedIsGone and NoRestart in poll mode.
PollInvariant ==
  /\ TypeInv
  /\ Shape
  /\ OnePlace
  /\ QueuedOnce
  /\ ReportedOnce
  /\ CountAccounts
  /\ Budget

-----------------------------------------------------------------------------
(* Every start is counted.                                                 *)

\* a task that AddTask has not taken in, or that no goroutine has got yet
Fresh(t) == client[t].pc # "active" \/ Waits(t) \/ sched.task = t

\* what the goroutine w of a wave knows of the number s of starts of its task
WaveCounts(w, s) ==
  /\ w.pc \in {"ready", "start", "launch", "limit", "store"} => w.att = 0
  /\ w.pc \in {"ready", "start", "launch"} => s = 0
  /\ w.pc \in {"limit", "store"} => s = 1

\* the poll goroutine w of a task in the running map with TaskAttemptsTime a
PollCounts(w, s, a) ==
  /\ w.pc \in {"idle", "stop"} => s = a + 1
  /\ w.pc \in {"query", "forget", "ready"} => s = a + 1 /\ w.att = a
  /\ w.pc \in {"start", "launch"} => s = a + 1 /\ w.att = a + 1
  /\ w.pc \in {"store", "restore"} => s = a + 2 /\ w.att = a + 1

\* The inductive invariant behind AttemptsBound and LifecycleSpec in poll mode.
StartsCounted ==
  /\ stopedTaskMap = {}
  /\ \A t \in Tasks : starts[t] <= 1 + MaxFailedAttempts
  /\ \A t \in Tasks : Fresh(t) => starts[t] = 0
  /\ \A g \in WaveIds : WaveCounts(workers[g], starts[workers[g].task])
  /\ \A t \in Running :
       starts[t] > 0 /\ PollCounts(workers[<<"poll", t>>], starts[t], runningTaskMap[t].att)
  /\ \A t \in Tasks : runningTask[t] # "none" => starts[t] > 0
  /\ \A r \in runs : starts[r.task] > 0

-----------------------------------------------------------------------------
(* A function that is executed holds a slot, if nothing is stopped.        *)

\* the cached status c as the poll goroutine w of a running task finds it
PollSees(w, c) ==
  /\ w.pc \in {"idle", "query", "store", "restore"} => c # "none"
  /\ w.pc = "forget" => c \in {"success", "failed"} /\ w.st = c
  /\ w.pc = "ready" => \/ w.st = "running" /\ c # "none"
                       \/ w.st \in {"success", "failed"} /\ c = "none"
  /\ w.pc \in {"start", "launch", "remove"} => c = "none"

\* the goroutines of waves that have started their task and not yet stored it
Launched(t) == {g \in WaveIds : workers[g].task = t /\ workers[g].pc \in {"limit", "store"}}

\* The inductive invariant behind ExecutingWithinLimit in poll mode without
\* timeout.
RunsHoldSlots ==
  /\ \A g \in WorkerIds : workers[g].pc # "stop" /\ workers[g].after # "timeout"
  /\ \A r \in runs : runningTask[r.task] = "running"
  /\ \A r, s \in runs : r.task = s.task => r = s
  /\ \A r \in runs : r.task \in Running \/ Launched(r.task) # {}
  /\ \A t \in Running : PollSees(workers[<<"poll", t>>], runningTask[t])
  /\ \A g \in WaveIds : workers[g].pc \in {"limit", "store"} => runningTask[workers[g].task] # "none"

-----------------------------------------------------------------------------
(* A failure is final.                                                     *)

\* without export a goroutine w that gives up a task has seen a success, or
\* the task was started s times, as often as it may be
GivesUp(w, s) ==
  /\ w.pc \notin {"spawn", "output", "clear", "persist"}
  /\ w.pc \in {"remove", "dec", "finish"} =>
       \/ w.after = "success"
       \/ w.after = "failed" /\ s = 1 + MaxFailedAttempts

\* The inductive invariant behind FailureIsExhausted in poll mode without
\* timeout and persistencer.
FailuresExhausted ==
  /\ \A g \in WorkerIds : GivesUp(workers[g], starts[workers[g].task])
  /\ FailureIsExhausted
=============================================================================
