------------------------ MODULE CombinationContainer ------------------------
(***************************************************************************)
(* The container that keeps a memory container in front of a persistent    *)
(* one (combination_container.go), here the queue container in front of    *)
(* the SQL container.                                                      *)
(*                                                                         *)
(* A method goes to both, one after the other, and nothing holds them      *)
(* together: the table first in the transitions, the memory first in       *)
(* AddTask.  The modules that use the container make two steps of it.      *)
(* QueueContainer splits the memory's half further; here a method of the   *)
(* memory container is one step, and the running count is the size of the  *)
(* map.                                                                    *)
(***************************************************************************)
EXTENDS SqlContainer, Functions

CONSTANTS
  QueueSize,          (* capacity of the waitingTasks channel                *)
  TaskLimit,          (* Config.TaskLimit                                    *)
  Batch               (* batchSize of the constructor                        *)

ASSUME CombinationAssumption == {QueueSize, TaskLimit, Batch} \subseteq Nat \ {0}

VARIABLES
  waitingTasks,       (* the channel of waiting tasks                        *)
  stopedTaskMap,      (* ids marked as stopped                               *)
  runningTaskMap,     (* id -> WorkTaskId and TaskAttemptsTime stored for it *)
  boot                (* the constructor: "running", "waiting", then "up"    *)

memoryVars == <<waitingTasks, stopedTaskMap, runningTaskMap>>

Running == DOMAIN runningTaskMap
Empty == [t \in {} |-> {}]
Put(f, k, v) == [x \in DOMAIN f \cup {k} |-> IF x = k THEN v ELSE f[x]]
Without(f, k) == Restrict(f, DOMAIN f \ {k})

MemoryInit ==
  /\ waitingTasks = <<>>
  /\ stopedTaskMap = {}
  /\ runningTaskMap = Empty

MemoryTypeOK ==
  /\ waitingTasks \in Seq(Tasks)
  /\ stopedTaskMap \in SUBSET Tasks
  /\ Running \subseteq Tasks
  /\ \A t \in Running :
       runningTaskMap[t] \in [work : WorkIds \cup {NoWork}, att : Attempts]
  /\ boot \in {"running", "waiting", "up"}

-----------------------------------------------------------------------------
(* The memory's half of the methods.                                       *)

\* AddTask: a stop mark is taken away and nothing is queued; otherwise there must
\* be room, or AddTask times out
AddTimesOut(t) == t \notin stopedTaskMap /\ Len(waitingTasks) >= QueueSize

AddMemory(t) ==
  /\ ~AddTimesOut(t)
  /\ waitingTasks' = IF t \in stopedTaskMap THEN waitingTasks ELSE Append(waitingTasks, t)
  /\ stopedTaskMap' = stopedTaskMap \ {t}
  /\ UNCHANGED runningTaskMap

\* GetWaitingTask: of the first k the first one with a stop mark is ignored
Ignored(k) == {i \in 1..k :
  waitingTasks[i] \in stopedTaskMap /\ \A j \in 1..(i - 1) : waitingTasks[j] # waitingTasks[i]}

TakeWaiting(k) ==
  /\ waitingTasks' = SubSeq(waitingTasks, k + 1, Len(waitingTasks))
  /\ stopedTaskMap' = stopedTaskMap \ {waitingTasks[i] : i \in Ignored(k)}
  /\ UNCHANGED runningTaskMap

\* ToRunningStatus: of an entry that is there only the attempts change
EnterMemory(t, w, a) ==
  /\ runningTaskMap' = Put(runningTaskMap, t,
       [work |-> IF t \in Running THEN runningTaskMap[t].work ELSE w, att |-> a])
  /\ UNCHANGED <<waitingTasks, stopedTaskMap>>

\* ToFailedStatus, ToExportStatus, ToSuccessStatus
LeaveMemory(t) ==
  /\ runningTaskMap' = Without(runningTaskMap, t)
  /\ UNCHANGED <<waitingTasks, stopedTaskMap>>

\* ToStopStatus, ToDeleteStatus: what is not running is taken to be waiting
StopMemory(t) ==
  /\ runningTaskMap' = Without(runningTaskMap, t)
  /\ stopedTaskMap' = IF t \in Running THEN stopedTaskMap ELSE stopedTaskMap \cup {t}
  /\ UNCHANGED waitingTasks

-----------------------------------------------------------------------------
(* The constructor, after a restart.                                       *)

\* mutant: the job of the row is not put back
RecoverRunning_NoWork ==
  /\ boot = "running"
  /\ runningTaskMap' = [t \in Where("running") |-> [work |-> NoWork, att |-> 0]]
  /\ boot' = "waiting"
  /\ UNCHANGED <<waitingTasks, stopedTaskMap>>

\* mutant: only the waiting rows are put back
RecoverRunning_Skipped ==
  /\ boot = "running" /\ boot' = "waiting"
  /\ UNCHANGED memoryVars

\* AddRunningTask of every RUNNING row; attempts_time is not read back
RecoverRunning ==
  /\ boot = "running"
  /\ runningTaskMap' = [t \in Where("running") |-> [work |-> rows[t].work, att |-> 0]]
  /\ boot' = "waiting"
  /\ UNCHANGED <<waitingTasks, stopedTaskMap>>

\* the rows of one batch, in the order of their start times, whatever it is
Batches ==
  LET n == Cardinality(Where("waiting"))
      k == IF n < Batch THEN n ELSE Batch
  IN Injection(1..k, Where("waiting"))

\* AddTask of the WAITING rows, as far as there is room, until a batch is not full
RecoverWaiting ==
  /\ boot = "waiting"
  /\ \E q \in Batches :
       /\ waitingTasks' = SubSeq(waitingTasks \o q, 1,
            IF Len(waitingTasks \o q) < QueueSize THEN Len(waitingTasks \o q) ELSE QueueSize)
       /\ boot' = IF Len(q) < Batch THEN "up" ELSE "waiting"
  /\ UNCHANGED <<stopedTaskMap, runningTaskMap>>
=============================================================================
