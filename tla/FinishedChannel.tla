-------------------------- MODULE FinishedChannel ---------------------------
(***************************************************************************)
(* The channel of finished tasks (task_scheduler.go): the scheduler's      *)
(* goroutines call finshed, the user receives from FinshedTasks(), and     *)
(* Close closes the channel.                                               *)
(*                                                                         *)
(* finshed waits 50 ms for room.  If there is none it takes one element    *)
(* out, unless a timer that is reset to zero is chosen first, and returns. *)
(***************************************************************************)
EXTENDS Integers, Sequences, FiniteSets

CONSTANTS
  Tasks,     (* finished tasks; each is reported by a goroutine of its own   *)
  Capacity,  (* capacity of the channel                                      *)
  UserReads  (* the user receives from the channel                           *)

ASSUME FinishedAssumption ==
  /\ IsFiniteSet(Tasks)
  /\ Capacity \in Nat \ {0}
  /\ UserReads \in BOOLEAN

VARIABLES
  finshedTask,  (* the channel                                               *)
  closed,       (* it was closed                                             *)
  caller,       (* per task: the goroutine that calls finshed with it        *)
  received,     (* the tasks the user received, in this order                *)
  dropped       (* the tasks finshed took out of the channel                 *)

vars == <<finshedTask, closed, caller, received, dropped>>

CallerAt(t, pc) == caller' = [caller EXCEPT ![t] = pc]

Init ==
  /\ finshedTask = <<>>
  /\ closed = FALSE
  /\ caller = [t \in Tasks |-> "running"]
  /\ received = <<>>
  /\ dropped = {}

\* the task has ended: finshed is called
Call(t) ==
  /\ caller[t] = "running"
  /\ CallerAt(t, "send")
  /\ UNCHANGED <<finshedTask, closed, received, dropped>>

\* mutant: the channel is not bounded
Send_Unbounded(t) ==
  /\ caller[t] = "send" /\ ~closed
  /\ finshedTask' = Append(finshedTask, t)
  /\ CallerAt(t, "done")
  /\ UNCHANGED <<closed, received, dropped>>

\* mutant: the element is sent and finshed goes on as if it was not
Send_Again(t) ==
  /\ caller[t] = "send" /\ ~closed
  /\ Len(finshedTask) < Capacity
  /\ finshedTask' = Append(finshedTask, t)
  /\ UNCHANGED <<closed, caller, received, dropped>>

Send(t) ==
  /\ caller[t] = "send" /\ ~closed
  /\ Len(finshedTask) < Capacity
  /\ finshedTask' = Append(finshedTask, t)
  /\ CallerAt(t, "done")
  /\ UNCHANGED <<closed, received, dropped>>

\* a send on a closed channel panics
SendPanic(t) ==
  /\ caller[t] = "send" /\ closed
  /\ CallerAt(t, "panic")
  /\ UNCHANGED <<finshedTask, closed, received, dropped>>

\* mutant: the timer is missing
SendTimeout_Never(t) ==
  /\ FALSE
  /\ UNCHANGED vars

\* the channel was full for 50 ms
SendTimeout(t) ==
  /\ caller[t] = "send" /\ ~closed
  /\ Len(finshedTask) = Capacity
  /\ CallerAt(t, "pop")
  /\ UNCHANGED <<finshedTask, closed, received, dropped>>

\* one element is taken out to make room
PopOne(t) ==
  /\ caller[t] = "pop"
  /\ finshedTask # <<>>
  /\ finshedTask' = Tail(finshedTask)
  /\ dropped' = dropped \cup {Head(finshedTask)}
  /\ CallerAt(t, "done")
  /\ UNCHANGED <<closed, received>>

\* the timer, which fires at once, is chosen instead; or nothing is left in a
\* channel that was closed
PopTimeout(t) ==
  /\ caller[t] = "pop"
  /\ CallerAt(t, "done")
  /\ UNCHANGED <<finshedTask, closed, received, dropped>>

\* for finishedTask := range FinshedTasks()
UserReceive ==
  /\ UserReads
  /\ finshedTask # <<>>
  /\ received' = Append(received, Head(finshedTask))
  /\ finshedTask' = Tail(finshedTask)
  /\ UNCHANGED <<closed, caller, dropped>>

\* Close, called once
Close ==
  /\ ~closed
  /\ closed' = TRUE
  /\ UNCHANGED <<finshedTask, caller, received, dropped>>

Next ==
  \/ \E t \in Tasks :
       Call(t) \/ Send(t) \/ SendPanic(t) \/ SendTimeout(t) \/ PopOne(t) \/ PopTimeout(t)
  \/ UserReceive
  \/ Close

Fairness ==
  \A t \in Tasks :
    WF_vars(Send(t) \/ SendPanic(t) \/ SendTimeout(t) \/ PopOne(t) \/ PopTimeout(t))

Spec == Init /\ [][Next]_vars /\ Fairness

-----------------------------------------------------------------------------
(* Properties.                                                             *)

InChannel(t) == \E i \in 1..Len(finshedTask) : finshedTask[i] = t
WasReceived(t) == \E i \in 1..Len(received) : received[i] = t

TypeOK ==
  /\ finshedTask \in Seq(Tasks) /\ Len(finshedTask) <= Capacity
  /\ closed \in BOOLEAN
  /\ caller \in [Tasks -> {"running", "send", "pop", "done", "panic"}]
  /\ received \in Seq(Tasks)
  /\ dropped \in SUBSET Tasks

\* A task is in one place only: with finshed, in the channel, with the user or
\* dropped; so the user receives no task twice and none that was dropped.
OnePlace ==
  /\ \A t \in Tasks :
       Cardinality({p \in {"finshed", "channel", "user", "dropped"} :
         CASE p = "finshed" -> caller[t] \in {"running", "send", "pop", "panic"}
           [] p = "channel" -> InChannel(t)
           [] p = "user"    -> WasReceived(t)
           [] p = "dropped" -> t \in dropped}) <= 1
  /\ \A i, j \in 1..Len(received) : received[i] = received[j] => i = j

\* While the channel stays open finshed returns even if the user never reads,
\* so a channel that is full cannot hold up the scheduler for ever.
FinshedReturns == \A t \in Tasks : caller[t] = "send" ~> caller[t] \in {"done", "panic"}
=============================================================================
