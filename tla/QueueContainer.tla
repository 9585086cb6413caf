--------------------------- MODULE QueueContainer ---------------------------
(***************************************************************************)
(* The in-memory FIFO task container (queue_container.go).                 *)
(*                                                                         *)
(* The container has no lock: each method is a short sequence of atomic    *)
(* accesses to a channel, two sync.Maps and an atomic counter, and calls   *)
(* of different goroutines interleave between them.  This module gives one *)
(* operator per atomic access; the modules that use the container give     *)
(* every calling goroutine a program counter that runs through them.       *)
(***************************************************************************)
EXTENDS Task

CONSTANT
  QueueSize           (* capacity of the waitingTasks channel                *)

ASSUME ContainerAssumption == QueueSize \in Nat \ {0}

VARIABLES
  waitingTasks,       (* the channel of waiting tasks                        *)
  stopedTaskMap,      (* ids marked as stopped while they wait               *)
  runningTaskMap,     (* id -> the stored Task, see Entry                    *)
  runningTaskCount    (* the atomic int32 beside the map                     *)

containerVars ==
  <<waitingTasks, stopedTaskMap, runningTaskMap, runningTaskCount>>

(***************************************************************************)
(* What the properties tell apart of a stored Task: whether the key is     *)
(* present, TaskAttemptsTime, and whether TaskTimeout has passed since its *)
(* TaskStartTime.  Every stored Task has TaskStatus RUNNING.               *)
(***************************************************************************)
Entry == [in : BOOLEAN, att : Attempts, late : BOOLEAN]
Absent == [in |-> FALSE, att |-> 0, late |-> FALSE]
Present(a) == [in |-> TRUE, att |-> a, late |-> FALSE]

Running == {t \in Tasks : runningTaskMap[t].in}

ContainerInit ==
  /\ waitingTasks = <<>>
  /\ stopedTaskMap = {}
  /\ runningTaskMap = [t \in Tasks |-> Absent]
  /\ runningTaskCount = 0

ContainerTypeOK ==
  /\ waitingTasks \in Seq(Tasks)
  /\ stopedTaskMap \in SUBSET Tasks
  /\ runningTaskMap \in [Tasks -> Entry]
  /\ runningTaskCount \in Int

-----------------------------------------------------------------------------
(* The atomic accesses.                                                    *)

\* stopedTaskMap.LoadAndDelete(t)
TakeStopMark(t) ==
  /\ stopedTaskMap' = stopedTaskMap \ {t}
  /\ UNCHANGED <<waitingTasks, runningTaskMap, runningTaskCount>>

\* stopedTaskMap.Store(t, struct{}{})
PutStopMark(t) ==
  /\ stopedTaskMap' = stopedTaskMap \cup {t}
  /\ UNCHANGED <<waitingTasks, runningTaskMap, runningTaskCount>>

\* mutant: last in, first out
Push_Front(t) ==
  /\ Len(waitingTasks) < QueueSize
  /\ waitingTasks' = <<t>> \o waitingTasks
  /\ UNCHANGED <<stopedTaskMap, runningTaskMap, runningTaskCount>>

\* waitingTasks <- t, possible while the channel has room
Push(t) ==
  /\ Len(waitingTasks) < QueueSize
  /\ waitingTasks' = Append(waitingTasks, t)
  /\ UNCHANGED <<stopedTaskMap, runningTaskMap, runningTaskCount>>

\* <-waitingTasks, possible while the channel holds a task
Pop ==
  /\ waitingTasks # <<>>
  /\ waitingTasks' = Tail(waitingTasks)
  /\ UNCHANGED <<stopedTaskMap, runningTaskMap, runningTaskCount>>

\* runningTaskMap.LoadOrStore(t, task): an existing entry is kept
LoadOrStore(t, a) ==
  /\ runningTaskMap' = [runningTaskMap EXCEPT ![t] = IF @.in THEN @ ELSE Present(a)]
  /\ UNCHANGED <<waitingTasks, stopedTaskMap, runningTaskCount>>

\* runningTaskMap.Store(t, nt): nt is the entry LoadOrStore returned, with the
\* new TaskAttemptsTime and the old TaskStartTime
Restore(t, a) ==
  /\ runningTaskMap' = [runningTaskMap EXCEPT ![t] = [@ EXCEPT !.in = TRUE, !.att = a]]
  /\ UNCHANGED <<waitingTasks, stopedTaskMap, runningTaskCount>>

\* mutant: the entry is loaded and not deleted
LoadAndDelete_Kept(t) ==
  UNCHANGED <<waitingTasks, stopedTaskMap, runningTaskMap, runningTaskCount>>

\* runningTaskMap.LoadAndDelete(t)
LoadAndDelete(t) ==
  /\ runningTaskMap' = [runningTaskMap EXCEPT ![t] = Absent]
  /\ UNCHANGED <<waitingTasks, stopedTaskMap, runningTaskCount>>

\* atomic.AddInt32(&runningTaskCount, d)
AddCount(d) ==
  /\ runningTaskCount' = runningTaskCount + d
  /\ UNCHANGED <<waitingTasks, stopedTaskMap, runningTaskMap>>

\* time passes until TaskStartTime + TaskTimeout of a stored task is over
PassDeadline(t) ==
  /\ runningTaskMap[t].in
  /\ runningTaskMap' = [runningTaskMap EXCEPT ![t].late = TRUE]
  /\ UNCHANGED <<waitingTasks, stopedTaskMap, runningTaskCount>>
=============================================================================
