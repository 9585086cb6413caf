---------------------------- MODULE RowLifecycle ----------------------------
(***************************************************************************)
(* The lives of the tasks as their rows show them, stated without          *)
(* goroutines, memory and messages.  Whatever is lost, repeated or late,   *)
(* and whenever the process is restarted, a row moves along these arrows   *)
(* only; above all, nothing but a request of the user takes a task out of  *)
(* "stoped", "failed" and "success", and a deleted row comes to no end.    *)
(***************************************************************************)
CONSTANT Tasks

VARIABLES
  status,             (* per task, the status column                         *)
  deleted             (* the tasks with a delete_time                        *)

Active == {"waiting", "running", "exporting"}

Init == status = [t \in Tasks |-> "none"] /\ deleted = {}

Set(t, to) == status' = [status EXCEPT ![t] = to] /\ UNCHANGED deleted

Become(t, from, to) == status[t] \in from /\ t \notin deleted /\ Set(t, to)

\* the requests of the user; one to start may be overtaken by one to delete
Create(t) == Become(t, {"none"}, "unstart")
Start(t)  == status[t] # "none" /\ Set(t, "waiting")
Stop(t)   == Become(t, Active, "stoped")
Delete(t) ==
  /\ status[t] \notin Active \cup {"none"}
  /\ deleted' = deleted \cup {t}
  /\ UNCHANGED status

\* the scheduler
Run(t)     == Become(t, {"waiting", "running"}, "running")
Export(t)  == Become(t, {"running"}, "exporting")
Succeed(t) == Become(t, {"exporting"}, "success")
Fail(t)    == Become(t, Active, "failed")

Next == \E t \in Tasks :
  \/ Create(t) \/ Start(t) \/ Stop(t) \/ Delete(t)
  \/ Run(t) \/ Export(t) \/ Succeed(t) \/ Fail(t)

Spec == Init /\ [][Next]_<<status, deleted>>
=============================================================================
