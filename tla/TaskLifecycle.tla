--------------------------- MODULE TaskLifecycle ----------------------------
(***************************************************************************)
(* What the scheduler promises to the user who adds tasks, stated without  *)
(* goroutines, caches and copies: tasks wait in the order in which they    *)
(* were added, at most TaskLimit of them hold a slot, every start of the   *)
(* function counts as one of 1 + MaxFailedAttempts attempts, and the       *)
(* outcome is reported once, after the slot was given back.                *)
(*                                                                         *)
(* TaskScheduler implements this specification in poll mode while no task  *)
(* is stopped.                                                             *)
(***************************************************************************)
EXTENDS Task

CONSTANT TaskLimit

VARIABLES
  waiting,    (* the tasks that wait, in the order of AddTask                *)
  holding,    (* the tasks that hold one of the TaskLimit slots              *)
  leaving,    (* slot given back, outcome not yet reported                   *)
  attempts,   (* number of starts of the function                            *)
  succeeded,  (* tasks of which a start returned without an error            *)
  outcome     (* what was reported                                           *)

vars == <<waiting, holding, leaving, attempts, succeeded, outcome>>

New(t) ==
  /\ t \notin holding \cup leaving
  /\ outcome[t] = "none"
  /\ \A i \in 1..Len(waiting) : waiting[i] # t

Init ==
  /\ waiting = <<>>
  /\ holding = {}
  /\ leaving = {}
  /\ attempts = [t \in Tasks |-> 0]
  /\ succeeded = {}
  /\ outcome = [t \in Tasks |-> "none"]

\* a task is taken in, once
Submit(t) ==
  /\ New(t)
  /\ waiting' = Append(waiting, t)
  /\ UNCHANGED <<holding, leaving, attempts, succeeded, outcome>>

\* the longest waiting task gets a free slot
Admit ==
  /\ waiting # <<>>
  /\ Cardinality(holding) < TaskLimit
  /\ holding' = holding \cup {Head(waiting)}
  /\ waiting' = Tail(waiting)
  /\ UNCHANGED <<leaving, attempts, succeeded, outcome>>

\* only a task that holds a slot is started
Start(t) ==
  /\ t \in holding
  /\ attempts[t] <= MaxFailedAttempts
  /\ attempts' = [attempts EXCEPT ![t] = @ + 1]
  /\ UNCHANGED <<waiting, holding, leaving, succeeded, outcome>>

\* a start may return without an error, even late
Succeed(t) ==
  /\ attempts[t] > 0
  /\ succeeded' = succeeded \cup {t}
  /\ UNCHANGED <<waiting, holding, leaving, attempts, outcome>>

\* the slot is given back
Release(t) ==
  /\ t \in holding
  /\ attempts[t] > 0
  /\ holding' = holding \ {t}
  /\ leaving' = leaving \cup {t}
  /\ UNCHANGED <<waiting, attempts, succeeded, outcome>>

\* success is reported only of a task that succeeded
Report(t, o) ==
  /\ t \in leaving
  /\ o = "success" => t \in succeeded
  /\ leaving' = leaving \ {t}
  /\ outcome' = [outcome EXCEPT ![t] = o]
  /\ UNCHANGED <<waiting, holding, attempts, succeeded>>

Next ==
  \/ Admit
  \/ \E t \in Tasks :
       Submit(t) \/ Start(t) \/ Succeed(t) \/ Release(t)
         \/ \E o \in {"success", "failed"} : Report(t, o)

Spec == Init /\ [][Next]_vars
=============================================================================
