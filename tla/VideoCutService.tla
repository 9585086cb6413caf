--------------------------- MODULE VideoCutService ---------------------------
(***************************************************************************)
(* The video cut service (video_cut_service.go), which runs ffmpeg in a    *)
(* goroutine per job and keeps the status of its jobs in one sync.Map and  *)
(* their output paths in another.                                          *)
(*                                                                         *)
(* A handler is one step: what it does besides its one access to a map is  *)
(* local, or (Delete after Load) repeats what it read.  The goroutine of a *)
(* job is split at its accesses, where another one can tell.  The ids,     *)
(* random strings, are the numbers of the jobs.                            *)
(***************************************************************************)
EXTENDS SqlContainer

VARIABLES
  jobs,               (* runningTaskMap of the service: job -> its status    *)
  outMap,             (* the jobs with an output path                        *)
  cuts,               (* job -> where its goroutine cut is                   *)
  madeFor             (* job -> the task it was started for, none if unused  *)

serviceVars == <<jobs, outMap, cuts, madeFor>>

JobStatus == {"none", "running", "success", "failed"}

\* "run": ffmpeg; "found": no error, and an entry whose status is to be stored;
\* "path": output path to be stored; "made": over, with an output; "done": without
CutPC == {"none", "run", "found", "path", "made", "done"}

ServiceInit ==
  /\ jobs = [w \in WorkIds |-> "none"]
  /\ outMap = {}
  /\ cuts = [w \in WorkIds |-> "none"]
  /\ madeFor = [w \in WorkIds |-> {}]

ServiceTypeOK ==
  /\ jobs \in [WorkIds -> JobStatus]
  /\ outMap \in SUBSET WorkIds
  /\ cuts \in [WorkIds -> CutPC]
  /\ madeFor \in [WorkIds -> SUBSET Tasks]

\* the next unused job id; the bound MaxWorks ends here
Fresh(w) == madeFor[w] = {} /\ \A v \in WorkIds : v < w => madeFor[v] # {}

-----------------------------------------------------------------------------
(* The handlers.                                                           *)

\* videoCut: store the status, go cut
Accept(w, t) ==
  /\ Fresh(w)
  /\ jobs' = [jobs EXCEPT ![w] = "running"]
  /\ cuts' = [cuts EXCEPT ![w] = "run"]
  /\ madeFor' = [madeFor EXCEPT ![w] = {t}]
  /\ UNCHANGED outMap

\* what status answers: a job that is not found has failed
Answer(w) == IF w = NoWork \/ jobs[w] = "none" THEN "failed" ELSE jobs[w]

\* status: the entry of a job that has ended is deleted once it was read
DropIfEnded(w) ==
  /\ jobs' = IF Answer(w) = "running" THEN jobs ELSE [v \in WorkIds |->
               IF v = w THEN "none" ELSE jobs[v]]
  /\ UNCHANGED <<outMap, cuts, madeFor>>

\* stop: delete the entry of a job that runs and cancel it.  However ffmpeg returns,
\* cut finds no entry then, and leaves nothing behind
Cancel(w) ==
  /\ jobs' = IF Answer(w) = "running" THEN [jobs EXCEPT ![w] = "none"] ELSE jobs
  /\ cuts' = IF Answer(w) = "running" /\ cuts[w] = "run"
             THEN [cuts EXCEPT ![w] = "done"] ELSE cuts
  /\ UNCHANGED <<outMap, madeFor>>

-----------------------------------------------------------------------------
(* The goroutine cut.                                                      *)

\* ffmpeg fails: one step, as a failed entry and none are answered alike
CutFails(w) ==
  /\ cuts[w] = "run"
  /\ jobs' = [jobs EXCEPT ![w] = "failed"]
  /\ cuts' = [cuts EXCEPT ![w] = "done"]
  /\ UNCHANGED <<outMap, madeFor>>

\* ffmpeg returns without an error and the entry is found
CutReturns(w) ==
  /\ cuts[w] = "run"
  /\ cuts' = [cuts EXCEPT ![w] = "found"]
  /\ UNCHANGED <<jobs, outMap, madeFor>>

\* the status is stored, also when the entry has been deleted in between
CutStore(w) ==
  /\ cuts[w] = "found"
  /\ jobs' = [jobs EXCEPT ![w] = "success"]
  /\ cuts' = [cuts EXCEPT ![w] = "path"]
  /\ UNCHANGED <<outMap, madeFor>>

\* only then its output path
CutPath(w) ==
  /\ cuts[w] = "path"
  /\ outMap' = outMap \cup {w}
  /\ cuts' = [cuts EXCEPT ![w] = "made"]
  /\ UNCHANGED <<jobs, madeFor>>

CutStep(w) == CutFails(w) \/ CutReturns(w) \/ CutStore(w) \/ CutPath(w)

\* the process ends, and with it the maps and the goroutines
ServiceDies ==
  /\ jobs' = [w \in WorkIds |-> "none"]
  /\ outMap' = {}
  /\ cuts' = [w \in WorkIds |-> IF cuts[w] \in {"none", "made"} THEN cuts[w] ELSE "done"]
  /\ UNCHANGED madeFor
=============================================================================
