--------------------------- MODULE DockerActuator ---------------------------
(***************************************************************************)
(* The docker actuator (docker_actuator.go) between the scheduler's poll   *)
(* loop and a docker daemon.                                               *)
(*                                                                         *)
(* The daemon refuses a second container of the same name, and with        *)
(* AutoRemove it removes a container some time after it has exited.  A     *)
(* call of the daemon may fail before or after it was executed.  The       *)
(* caller is what task_scheduler.go makes of it: a task is started, asked  *)
(* for in rounds of GetAsyncTaskStatus, and stopped when it is late; once  *)
(* it has left the running map it may be started again.                    *)
(*                                                                         *)
(* GetOutput reads datatMap, which is never written: it returns an error.  *)
(***************************************************************************)
EXTENDS Task, Functions

CONSTANTS
  NamedById,          (* the tasks whose ContainerName is their TaskId       *)
  MaxContainers,      (* bound: containers the daemon creates                *)
  MaxFaults           (* bound: calls of the daemon that fail                *)

ASSUME DockerAssumption ==
  NamedById \subseteq Tasks /\ MaxContainers \in Nat /\ MaxFaults \in Nat

VARIABLES
  containers,         (* the daemon: id -> its task, state and exit code     *)
  runningTask,        (* ContainerName -> id, the name given by its task     *)
  caller,             (* where the scheduler is with a task                  *)
  round,              (* GetAsyncTaskStatus: the tasks left to ask for       *)
  status,             (* and what was found of the others                    *)
  lost,               (* history: ids of which ContainerStart failed         *)
  faults

vars == <<containers, runningTask, caller, round, status, lost, faults>>

ContainerIds == 1..MaxContainers

\* caller[t] is the id of a container that was created and is to be started, or
Out == 0     \* the task is not running
In == -1     \* it is in the running map of the task container

Exists(c) == containers[c].state # "removed"
Named(t) == {c \in DOMAIN containers : containers[c].task = t /\ Exists(c)}

Init ==
  /\ containers = <<>>
  /\ runningTask = [t \in {} |-> 0]
  /\ caller = [t \in Tasks |-> Out]
  /\ round = {} /\ status = [t \in {} |-> "running"]
  /\ lost = {}
  /\ faults = 0

Ok == UNCHANGED faults
Fault == faults < MaxFaults /\ faults' = faults + 1
\* a call about a container is answered with an error
Refused(c) == (~Exists(c) /\ Ok) \/ Fault
SetState(c, s) == containers' = [containers EXCEPT ![c].state = s]
Move(t, to) == caller' = [caller EXCEPT ![t] = to]
Forget(t) == runningTask' = Restrict(runningTask, DOMAIN runningTask \ {t})

-----------------------------------------------------------------------------
(* Start.                                                                  *)

\* ContainerCreate; after an error the task has failed, or the start is ignored
Create(t) ==
  LET new == containers' = Append(containers,
        [task |-> t, state |-> "created", exit |-> "none"])
  IN /\ caller[t] = Out /\ Len(containers) < MaxContainers
     /\ \/ Ok /\ Named(t) = {} /\ new /\ Move(t, Len(containers) + 1)
        \/ Fault /\ Named(t) = {} /\ new /\ UNCHANGED caller
        \/ Ok /\ Named(t) # {} /\ UNCHANGED <<containers, caller>>
     /\ UNCHANGED <<runningTask, round, status, lost>>

\* mutant: an entry that is left over stays
Store_Kept(t, c) ==
  runningTask' = IF t \in DOMAIN runningTask THEN runningTask
    ELSE [u \in DOMAIN runningTask \cup {t} |-> IF u = t THEN c ELSE runningTask[u]]

Store(t, c) ==
  runningTask' = [u \in DOMAIN runningTask \cup {t} |-> IF u = t THEN c ELSE runningTask[u]]

\* ContainerStart, then the entry.  A container whose start fails is not removed
Launch(t) ==
  LET c == caller[t]
  IN /\ c \in ContainerIds
     /\ \/ /\ Ok /\ SetState(c, "running") /\ Move(t, In)
           /\ Store(t, c)
           /\ lost' = lost
        \/ /\ Fault /\ (UNCHANGED containers \/ SetState(c, "running")) /\ Move(t, Out)
           /\ lost' = lost \cup {c}
           /\ UNCHANGED runningTask
     /\ UNCHANGED <<round, status>>

-----------------------------------------------------------------------------
(* GetAsyncTaskStatus.                                                     *)

RoundBegin ==
  /\ round = {} /\ DOMAIN status = {}
  /\ round' = {t \in Tasks : caller[t] = In} /\ round' # {}
  /\ UNCHANGED <<containers, runningTask, caller, status, lost, faults>>

Told(t, s) ==
  /\ status' = [u \in DOMAIN status \cup {t} |-> IF u = t THEN s ELSE status[u]]
  /\ round' = round \ {t}

\* mutant: the exit code is not looked at
Verdict_AnyExit(c) == IF containers[c].state = "running" THEN "running" ELSE "success"

\* what ContainerInspect shows of a container that exists
Verdict(c) ==
  IF containers[c].state = "running" THEN "running"
  ELSE IF containers[c].exit = "0" THEN "success" ELSE "failed"

\* an error of ContainerInspect, as of a container that was removed, is one of the
\* whole round: what was found of the other tasks is dropped
RoundFails == round' = {} /\ status' = [t \in {} |-> "running"] /\ UNCHANGED containers

\* the entry is deleted under the TaskId, whatever the name it has
DropEntry(t) == IF t \in NamedById THEN Forget(t) ELSE UNCHANGED runningTask

Ask(t) ==
  /\ t \in round
  /\ \/ /\ t \notin DOMAIN runningTask /\ Told(t, "failed") /\ Ok
        /\ UNCHANGED <<containers, runningTask>>
     \/ /\ t \in DOMAIN runningTask
        /\ LET c == runningTask[t]
           IN \/ /\ Exists(c) /\ Told(t, Verdict(c))
                 /\ IF containers[c].state = "running"
                    THEN UNCHANGED <<containers, runningTask>> /\ Ok
                    ELSE /\ DropEntry(t)
                         /\ \/ Ok /\ SetState(c, "removed")
                            \/ Fault /\ UNCHANGED containers
              \/ /\ Refused(c)
                 /\ RoundFails
                 /\ UNCHANGED runningTask
  /\ UNCHANGED <<caller, lost>>

\* mutant: an entry is deleted although its container could not be removed
StopFails_Forgotten(t) == Forget(t)

\* a container that cannot be removed keeps its entry
StopFails(t) == UNCHANGED runningTask

\* Stop, of a task that is late
Stop(t) ==
  \/ t \notin DOMAIN runningTask /\ Ok /\ UNCHANGED <<containers, runningTask>>
  \/ /\ t \in DOMAIN runningTask
     /\ \/ Ok /\ Exists(runningTask[t]) /\ SetState(runningTask[t], "removed") /\ Forget(t)
        \/ Refused(runningTask[t]) /\ UNCHANGED containers /\ StopFails(t)

\* updateOnce, of one task after the other: it ends, goes on or is late
Act(t) ==
  /\ round = {} /\ t \in DOMAIN status
  /\ status' = Restrict(status, DOMAIN status \ {t})
  /\ \/ /\ status[t] # "running" /\ Move(t, Out) /\ Ok
        /\ UNCHANGED <<containers, runningTask>>
     \/ /\ status[t] = "running" /\ Ok
        /\ UNCHANGED <<containers, runningTask, caller>>
     \/ /\ status[t] = "running" /\ Stop(t) /\ Move(t, Out)
  /\ UNCHANGED <<round, lost>>

-----------------------------------------------------------------------------
(* The daemon.                                                             *)

Exited(c) ==
  /\ containers[c].state = "running"
  /\ \E e \in {"0", "1"} :
       containers' = [containers EXCEPT ![c].state = "exited", ![c].exit = e]
  /\ UNCHANGED <<runningTask, caller, round, status, lost, faults>>

AutoRemove(c) ==
  /\ containers[c].state = "exited"
  /\ SetState(c, "removed")
  /\ UNCHANGED <<runningTask, caller, round, status, lost, faults>>

Next ==
  \/ RoundBegin
  \/ \E t \in Tasks : Create(t) \/ Launch(t) \/ Ask(t) \/ Act(t)
  \/ \E c \in DOMAIN containers : Exited(c) \/ AutoRemove(c)

Spec == Init /\ [][Next]_vars

-----------------------------------------------------------------------------
(* Properties.                                                             *)

Latest(t) == {c \in DOMAIN containers : containers[c].task = t
  /\ \A d \in (c + 1)..Len(containers) : containers[d].task # t}

\* A task is told to have succeeded only if the container of its last start exited
\* with 0 (GetAsyncTaskStatus, against entries and containers that are left over).
SuccessIsExit0 == \A t \in DOMAIN status : status[t] = "success" =>
  \A c \in Latest(t) : containers[c].exit = "0"

\* While a task is running its entry is that of its last start, although the entry
\* of an earlier one was left over (deleted under the wrong key, or not at all when
\* Stop failed).
EntryIsOwn == \A t \in DOMAIN runningTask : caller[t] = In => runningTask[t] \in Latest(t)

\* A container that runs can be stopped: its entry is there, unless the daemon
\* started it and answered with an error, which nobody makes up for.
RunningIsKnown == \A c \in DOMAIN containers :
  containers[c].state = "running" /\ c \notin lost =>
    LET t == containers[c].task IN t \in DOMAIN runningTask /\ runningTask[t] = c
=============================================================================
