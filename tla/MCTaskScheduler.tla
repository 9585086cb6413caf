--------------------------- MODULE MCTaskScheduler --------------------------
(***************************************************************************)
(* Instances of TaskScheduler for TLC.  A configuration of the scheduler   *)
(* (poll, callback or both; timeout; persistencer; stops) is a .cfg file.  *)
(***************************************************************************)
EXTENDS TaskSchedulerInvariant, TLC

\* Tasks are interchangeable.  Used by runs without liveness properties only.
TaskSymmetry == Permutations(Tasks)
=============================================================================
