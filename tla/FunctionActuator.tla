-------------------------- MODULE FunctionActuator --------------------------
(***************************************************************************)
(* The function actuator (function_actuator.go): it runs a Go function per *)
(* Start in a goroutine of its own, keeps the status of the last start of  *)
(* every task in one cache and the result in another, and, when a callback *)
(* channel is set, sends the finished task to it.                          *)
(*                                                                         *)
(* The two caches are locked per access only, so that a goroutine that     *)
(* runs a function, a poller and a caller of Start or Stop interleave      *)
(* between any two accesses.                                               *)
(***************************************************************************)
EXTENDS Task

CONSTANTS
  EnableStateCallback, (* a callback channel is set                          *)
  CallbackSize         (* capacity of that channel                           *)

ASSUME ActuatorAssumption ==
  /\ EnableStateCallback \in BOOLEAN
  /\ CallbackSize \in Nat \ {0}

VARIABLES
  runningTask,      (* cache: task id -> status of the last start, or none   *)
  datatMap,         (* cache: the task ids that have a result                *)
  callbackChannel,  (* finished runs sent, not yet received                  *)
  runs,             (* the goroutines that execute a function                *)
  starts,           (* history: number of starts of each task                *)
  succeeded         (* history: tasks of which a function call succeeded     *)

actuatorVars ==
  <<runningTask, datatMap, callbackChannel, runs, starts, succeeded>>

CacheStatus == {"none", "running", "success", "failed"}

(* One goroutine: the n-th start of its task, the TaskAttemptsTime it was  *)
(* started with, where it is, and how the function returned.               *)
Run == [task : Tasks, n : Nat, att : Attempts,
        pc : {"run", "save", "publish", "callback"}, ok : BOOLEAN]

ActuatorInit ==
  /\ runningTask = [t \in Tasks |-> "none"]
  /\ datatMap = {}
  /\ callbackChannel = <<>>
  /\ runs = {}
  /\ starts = [t \in Tasks |-> 0]
  /\ succeeded = {}

ActuatorTypeOK ==
  /\ runningTask \in [Tasks -> CacheStatus]
  /\ datatMap \in SUBSET Tasks
  /\ callbackChannel \in Seq(Run)
  /\ runs \in SUBSET Run
  /\ starts \in [Tasks -> Nat]
  /\ succeeded \in SUBSET Tasks

-----------------------------------------------------------------------------
(* Methods, called by the scheduler's goroutines.                          *)

\* the check at the head of Start: an error while the task runs or has
\* succeeded and was not collected
StartRefused(t) == runningTask[t] \in {"running", "success"}

\* the rest of Start: drop the old result, mark as running, go run the function
Launch(t, a) ==
  /\ datatMap' = datatMap \ {t}
  /\ runningTask' = [runningTask EXCEPT ![t] = "running"]
  /\ starts' = [starts EXCEPT ![t] = @ + 1]
  /\ runs' = runs \cup
       {[task |-> t, n |-> starts[t] + 1, att |-> a, pc |-> "run", ok |-> FALSE]}
  /\ UNCHANGED <<callbackChannel, succeeded>>

\* Stop and clear: forget status and result; the function is only asked to
\* return (its context is cancelled) and may still return with any outcome
Clear(t) ==
  /\ runningTask' = [runningTask EXCEPT ![t] = "none"]
  /\ datatMap' = datatMap \ {t}
  /\ UNCHANGED <<callbackChannel, runs, starts, succeeded>>

\* mutant: a task that is not found is taken to be finished
AsyncStatus_NotFoundIsSuccess(t) ==
  IF runningTask[t] = "none" THEN "success" ELSE runningTask[t]

\* what GetAsyncTaskStatus answers for a task: not found is a failure
AsyncStatus(t) ==
  IF runningTask[t] = "none" THEN "failed" ELSE runningTask[t]

\* GetAsyncTaskStatus deletes a finished status once it has read it
Forget(t) ==
  /\ runningTask' = [runningTask EXCEPT ![t] = "none"]
  /\ UNCHANGED <<datatMap, callbackChannel, runs, starts, succeeded>>

-----------------------------------------------------------------------------
(* The goroutine of one start, from the return of its function on.         *)

Move(r, to) == runs' = (runs \ {r}) \cup {to}

\* the function returns (a panic is an error); then the cache is read: no
\* entry means the task was stopped meanwhile and the outcome is dropped
RunReturn(r, ok) ==
  /\ r.pc = "run"
  /\ succeeded' = IF ok THEN succeeded \cup {r.task} ELSE succeeded
  /\ IF runningTask[r.task] = "none"
     THEN runs' = runs \ {r}
     ELSE Move(r, [r EXCEPT !.ok = ok, !.pc = IF ok THEN "save" ELSE "publish"])
  /\ UNCHANGED <<runningTask, datatMap, callbackChannel, starts>>

\* the result is stored before the status
RunSave(r) ==
  /\ r.pc = "save"
  /\ datatMap' = datatMap \cup {r.task}
  /\ Move(r, [r EXCEPT !.pc = "publish"])
  /\ UNCHANGED <<runningTask, callbackChannel, starts, succeeded>>

\* the status is stored, whatever the cache holds by now
RunPublish(r) ==
  /\ r.pc = "publish"
  /\ runningTask' = [runningTask EXCEPT ![r.task] = IF r.ok THEN "success" ELSE "failed"]
  /\ IF EnableStateCallback
     THEN Move(r, [r EXCEPT !.pc = "callback"])
     ELSE runs' = runs \ {r}
  /\ UNCHANGED <<datatMap, callbackChannel, starts, succeeded>>

\* the finished task is sent; the goroutine blocks while the channel is full
RunCallback(r) ==
  /\ r.pc = "callback"
  /\ Len(callbackChannel) < CallbackSize
  /\ callbackChannel' = Append(callbackChannel, r)
  /\ runs' = runs \ {r}
  /\ UNCHANGED <<runningTask, datatMap, starts, succeeded>>

\* mutant: a message is delivered again
Receive_Again ==
  /\ callbackChannel # <<>>
  /\ UNCHANGED <<callbackChannel, runningTask, datatMap, runs, starts, succeeded>>

\* the scheduler's callback loop takes the oldest message
Receive ==
  /\ callbackChannel # <<>>
  /\ callbackChannel' = Tail(callbackChannel)
  /\ UNCHANGED <<runningTask, datatMap, runs, starts, succeeded>>

RunStep(r) ==
  \/ \E ok \in BOOLEAN : RunReturn(r, ok)
  \/ RunSave(r)
  \/ RunPublish(r)
  \/ RunCallback(r)
=============================================================================
