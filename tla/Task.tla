-------------------------------- MODULE Task --------------------------------
(***************************************************************************)
(* A task (task.go) as the other modules see it: its id, and the number of *)
(* attempts it may take (Config.MaxFailedAttempts).                        *)
(***************************************************************************)
EXTENDS Integers, Sequences, FiniteSets

CONSTANTS
  Tasks,              (* task ids                                            *)
  MaxFailedAttempts   (* Config.MaxFailedAttempts, bounds TaskAttemptsTime   *)

ASSUME TaskAssumption ==
  /\ IsFiniteSet(Tasks)
  /\ MaxFailedAttempts \in Nat

\* Task.TaskAttemptsTime
Attempts == 0..MaxFailedAttempts
=============================================================================
