----------------------------- MODULE VideoCutWeb -----------------------------
(***************************************************************************)
(* The video cut example (main_web): the web handlers (web.go), the        *)
(* scheduler in poll mode with a persistencer (task_scheduler.go), the     *)
(* combination container, the actuator that talks HTTP                     *)
(* (video_cut_actuator.go) and the service behind it, in one process that  *)
(* may crash and start again over the same table.                          *)
(*                                                                         *)
(* A step of a goroutine is one SQL statement, one HTTP call or one method *)
(* of the memory container.  A statement or a call may fail: it was not    *)
(* executed, or it was and its answer is lost.                             *)
(***************************************************************************)
EXTENDS CombinationContainer, VideoCutService

CONSTANTS
  Operations,         (* what users do, see Accepted                         *)
  Clients,            (* bound: requests handled at the same time            *)
  MaxRequests,        (* bound: requests                                     *)
  MaxExports,         (* bound: exports at the same time                     *)
  Faulty,             (* what may fail: "call", "statement", "constructor"   *)
  MaxFaults,          (* bound: how often it fails                           *)
  MaxCrashes          (* bound: crashes                                      *)

ASSUME WebAssumption ==
  /\ Operations \subseteq {"start", "restart", "stop", "delete"}
  /\ Faulty \subseteq {"call", "statement", "constructor"}
  /\ {Clients, MaxRequests, MaxExports, MaxFaults, MaxCrashes} \subseteq Nat

VARIABLES
  go,                 (* the goroutines that exist                           *)
  finshed,            (* history: per task, the calls of finshed             *)
  ignored,            (* history: tasks whose start failed and was ignored   *)
  faults, crashes, requests   (* how often, for the bounds                   *)

historyVars == <<finshed, ignored>>
bounds == <<crashes, requests>>
vars == <<tableVars, memoryVars, boot, serviceVars, go, historyVars, faults, bounds>>

-----------------------------------------------------------------------------
(* Goroutines.                                                             *)

WaveIds    == {"wave"} \X (1..TaskLimit)
PollIds    == {"poll"} \X Tasks
ExportIds  == {"export"} \X (1..MaxExports)
RequestIds == {"request"} \X (1..Clients)
GoIds == WaveIds \cup PollIds \cup ExportIds \cup RequestIds

(* "sql" and "mem" are the two halves of a transition of the container,    *)
(* "start", "query", "output" and "stop" calls of the actuator, "save" the *)
(* persistencer, "push", "upsert" and "undo" the parts of AddTask.  A      *)
(* goroutine has its own copy of the task: st is its TaskStatus, to the    *)
(* status it is to get ("none": the goroutine ends).  late: Actuator.Stop  *)
(* follows the transition.                                                 *)
GoPC == {"start", "limit", "query", "output", "save", "sql", "mem", "stop",
         "push", "upsert", "undo"}

Goroutine ==
  [pc : GoPC, task : Tasks, work : WorkIds \cup {NoWork}, att : Attempts,
   st : RowStatus, to : RowStatus \cup {"delete"}, late : BOOLEAN]

New(pc, t, w, a, st, to) ==
  [pc |-> pc, task |-> t, work |-> w, att |-> a, st |-> st, to |-> to, late |-> FALSE]

Of(ids) == DOMAIN go \cap ids
Exit(g) == go' = Without(go, g)
Goto(g, r) == go' = Put(go, g, r)

\* the lowest free id of a kind
Free(ids, g) == g \in ids \ DOMAIN go /\ \A h \in ids \ DOMAIN go : h[2] >= g[2]

Ok == UNCHANGED faults
Fault(what) == what \in Faulty /\ faults < MaxFaults /\ faults' = faults + 1

\* the container's transition to another status, or to "failed" after an error
Transit(r, to) == [r EXCEPT !.pc = "sql", !.to = to]

Init ==
  /\ TableInit /\ MemoryInit /\ ServiceInit
  /\ boot = "up"
  /\ go = Empty
  /\ finshed = [t \in Tasks |-> 0]
  /\ ignored = {}
  /\ faults = 0 /\ crashes = 0 /\ requests = 0

-----------------------------------------------------------------------------
(* The loops.                                                              *)

\* config.TaskLimit - runningCount
FreeSlots == TaskLimit - Cardinality(Running)

\* scheduleOnce: the previous wave is over; as many waiting tasks as there are
\* free slots are taken, and each gets a goroutine
ScheduleOnce ==
  LET k == IF FreeSlots < Len(waitingTasks) THEN FreeSlots ELSE Len(waitingTasks)
      wave == {"wave"} \X ((1..k) \ Ignored(k))
  IN /\ boot = "up" /\ Of(WaveIds) = {} /\ k > 0
     /\ TakeWaiting(k)
     /\ go' = [g \in DOMAIN go \cup wave |-> IF g \in DOMAIN go THEN go[g]
          ELSE New("start", waitingTasks[g[2]], NoWork, 0, "waiting", "running")]
     /\ UNCHANGED <<tableVars, boot, serviceVars, historyVars, faults, bounds>>

\* updateOnce: the previous round is over; every running task gets a goroutine
UpdateOnce ==
  /\ boot = "up" /\ Of(PollIds) = {} /\ Running # {}
  /\ go' = [g \in DOMAIN go \cup ({"poll"} \X Running) |-> IF g \in DOMAIN go THEN go[g]
       ELSE LET e == runningTaskMap[g[2]]
            IN New("query", g[2], e.work, e.att, "running", "failed")]
  /\ UNCHANGED <<tableVars, memoryVars, boot, serviceVars, historyVars, faults, bounds>>

\* a round goes on when the statuses of all its tasks are known
RoundReady(g) == g \in PollIds => \A h \in Of(PollIds) : go[h].pc # "query"

-----------------------------------------------------------------------------
(* Calls of the actuator.                                                  *)

\* an error of Start: scheduleOnce ignores it, updateOnce fails the task
StartFails(g, r) ==
  IF g \in WaveIds
  THEN Exit(g) /\ ignored' = ignored \cup {r.task}
  ELSE Goto(g, Transit(r, "failed")) /\ ignored' = ignored

StartJob(g, r) ==
  /\ r.pc = "start" /\ RoundReady(g)
  /\ \/ /\ \E w \in WorkIds :
             /\ Accept(w, r.task)
             /\ Goto(g, [r EXCEPT !.work = w, !.pc = IF g \in WaveIds THEN "limit" ELSE "sql"])
        /\ ignored' = ignored \ {r.task}
        /\ Ok
     \/ /\ UNCHANGED serviceVars \/ \E w \in WorkIds : Accept(w, r.task)
        /\ StartFails(g, r)
        /\ Fault("call")
  /\ UNCHANGED <<tableVars, memoryVars, finshed>>

\* scheduleOnce looks at the limit once more before it stores the task
LimitCheck(g, r) ==
  /\ r.pc = "limit"
  /\ Goto(g, IF Cardinality(Running) >= TaskLimit
             THEN [r EXCEPT !.pc = "stop", !.to = "none"] ELSE [r EXCEPT !.pc = "sql"])
  /\ Ok
  /\ UNCHANGED <<tableVars, memoryVars, serviceVars, historyVars>>

\* mutant: one attempt more than configured
MayRetry_OneMore(r) == r.att <= MaxFailedAttempts

MayRetry(r) == r.att < MaxFailedAttempts

\* the rest of the body of updateOnce; the timeout passes at any time
Learn(g, r, status) ==
  CASE status = "success" -> Goto(g, Transit(r, "exporting"))
    [] status = "running" -> Exit(g) \/ Goto(g, [Transit(r, "failed") EXCEPT !.late = TRUE])
    [] status = "failed" /\ MayRetry(r) ->
         Goto(g, [r EXCEPT !.pc = "start", !.att = @ + 1, !.to = "running"])
    [] OTHER -> Goto(g, Transit(r, "failed"))

\* a network error counts as running, also when the status was already given away
GetAsyncTaskStatus(g, r) ==
  /\ r.pc = "query"
  /\ \/ Ok /\ DropIfEnded(r.work) /\ Learn(g, r, Answer(r.work))
     \/ Fault("call") /\ (UNCHANGED serviceVars \/ DropIfEnded(r.work)) /\ Learn(g, r, "running")
  /\ UNCHANGED <<tableVars, memoryVars, historyVars>>

\* a job whose Stop fails goes on; nobody looks at the error
StopJob(g, r) ==
  /\ r.pc = "stop"
  /\ \/ Ok /\ Cancel(r.work)
     \/ Fault("call") /\ UNCHANGED serviceVars
  /\ IF r.to = "none" THEN Exit(g) ELSE Goto(g, Transit(r, r.to))
  /\ UNCHANGED <<tableVars, memoryVars, historyVars>>

\* mutant: the output is not looked at
HasOutput_Always(w) == TRUE

HasOutput(w) == w \in outMap

GetOutput(g, r) ==
  /\ r.pc = "output"
  /\ \/ Ok /\ Goto(g, IF HasOutput(r.work) THEN [r EXCEPT !.pc = "save"]
                      ELSE Transit(r, "failed"))
     \/ Fault("call") /\ Goto(g, Transit(r, "failed"))
  /\ UNCHANGED <<tableVars, memoryVars, serviceVars, historyVars>>

\* Persistencer.DataPersistence
DataPersistence(g, r) ==
  /\ r.pc = "save"
  /\ \/ Ok /\ Live(r.task) /\ SaveOutput(r.task, r.work) /\ Goto(g, Transit(r, "success"))
     \/ Ok /\ ~Live(r.task) /\ UNCHANGED tableVars /\ Goto(g, Transit(r, "failed"))
     \/ Fault("statement")
        /\ (UNCHANGED tableVars \/ (Live(r.task) /\ SaveOutput(r.task, r.work)))
        /\ Goto(g, Transit(r, "failed"))
  /\ UNCHANGED <<memoryVars, serviceVars, historyVars>>

-----------------------------------------------------------------------------
(* A transition of the container: the table, then the memory.              *)

\* mutant: no row affected is not an error
SqlFails_Unnoticed(g, r) == Goto(g, [r EXCEPT !.pc = "mem", !.st = r.to])

\* mutant: a job that was started for nothing is not stopped
SqlFails_NoStop(g, r) == IF r.to = "failed" THEN Exit(g) ELSE Goto(g, Transit(r, "failed"))

\* the error branches: export, success and failed after ToExportStatus, success,
\* after an error of ToRunningStatus the job is stopped first
SqlFails(g, r) ==
  CASE r.to = "running" -> Goto(g, [r EXCEPT !.pc = "stop", !.to = "failed"])
    [] r.to \in {"exporting", "success"} -> Goto(g, Transit(r, "failed"))
    [] OTHER -> Exit(g)

\* the web front end deletes a row without the combination container
Sql(g, r) ==
  /\ r.pc = "sql" /\ RoundReady(g)
  /\ \/ Ok /\ Found(r.task, r.st) /\ Update(r.task, r.to, r.work)
        /\ IF r.to = "delete" THEN Exit(g)
           ELSE Goto(g, [r EXCEPT !.pc = "mem", !.st = r.to])
     \/ Ok /\ ~Found(r.task, r.st) /\ UNCHANGED tableVars /\ SqlFails(g, r)
     \/ /\ Fault("statement") /\ SqlFails(g, r)
        /\ \/ UNCHANGED tableVars
           \/ Found(r.task, r.st) /\ Update(r.task, r.to, r.work)
  /\ UNCHANGED <<memoryVars, serviceVars, historyVars>>

\* failed and success report the task; a timeout, and StopTask of a task that was
\* RUNNING, call Actuator.Stop
Memory(g, r) ==
  LET end == IF r.late THEN Goto(g, [r EXCEPT !.pc = "stop", !.to = "none"]) ELSE Exit(g)
  IN /\ r.pc = "mem" /\ Ok
     /\ \/ r.to = "running" /\ EnterMemory(r.task, r.work, r.att) /\ Exit(g)
           /\ UNCHANGED finshed
        \/ r.to = "stoped" /\ StopMemory(r.task) /\ end
           /\ UNCHANGED finshed
        \/ r.to \in Outcomes /\ LeaveMemory(r.task) /\ end
           /\ finshed' = [finshed EXCEPT ![r.task] = @ + 1]
        \/ /\ r.to = "exporting" /\ LeaveMemory(r.task)
           /\ \E e \in ExportIds :
                /\ Free(ExportIds, e)
                /\ go' = Put(Without(go, g), e, [r EXCEPT !.pc = "output", !.to = "success"])
           /\ UNCHANGED finshed
     /\ UNCHANGED <<tableVars, serviceVars, ignored>>

-----------------------------------------------------------------------------
(* The web front end.                                                      *)

CreateTask(t) ==
  /\ boot = "up"
  /\ Insert(t)
  /\ UNCHANGED <<memoryVars, boot, serviceVars, go, historyVars, faults, bounds>>

\* what a handler does not refuse.  To start a task for the first time and to start
\* it again are the same request; they are told apart to leave one of them out
Accepted(op) ==
  CASE op = "start"   -> {"unstart"}
    [] op = "restart" -> {"success", "failed", "stoped"}
    [] op = "stop"    -> ActiveStatus
    [] op = "delete"  -> {"unstart", "success", "failed", "stoped"}

\* a handler goes on with the row as it read it
Handler(op, t) ==
  LET row == rows[t]
  IN CASE op \in {"start", "restart"} -> New("push", t, row.work, 0, row.status, "waiting")
       [] op = "stop" -> [New("sql", t, row.work, 0, row.status, "stoped")
                            EXCEPT !.late = (row.status = "running")]
       [] op = "delete" -> New("sql", t, row.work, 0, row.status, "delete")

Request(t, op, g) ==
  /\ boot = "up" /\ requests < MaxRequests /\ Free(RequestIds, g)
  /\ Live(t) /\ rows[t].status \in Accepted(op)
  /\ Goto(g, Handler(op, t))
  /\ requests' = requests + 1
  /\ UNCHANGED <<tableVars, memoryVars, boot, serviceVars, historyVars, faults, crashes>>

\* AddTask: the memory first, then the table; after an error of the table the task
\* is taken to be stopped, as ToDeleteStatus of the memory does
AddTask(g, r) ==
  /\ \/ r.pc = "push" /\ AddMemory(r.task) /\ Goto(g, [r EXCEPT !.pc = "upsert"])
        /\ Ok /\ UNCHANGED tableVars
     \/ r.pc = "push" /\ AddTimesOut(r.task) /\ Exit(g)
        /\ Ok /\ UNCHANGED <<tableVars, memoryVars>>
     \/ r.pc = "upsert" /\ Upsert(r.task) /\ Exit(g)
        /\ Ok /\ UNCHANGED memoryVars
     \/ r.pc = "upsert" /\ Goto(g, [r EXCEPT !.pc = "undo"])
        /\ Fault("statement") /\ (UNCHANGED tableVars \/ Upsert(r.task))
        /\ UNCHANGED memoryVars
     \/ r.pc = "undo" /\ StopMemory(r.task) /\ Exit(g)
        /\ Ok /\ UNCHANGED tableVars
  /\ UNCHANGED <<serviceVars, historyVars>>

-----------------------------------------------------------------------------
(* The process.                                                            *)

\* a goroutine takes its next step
Step(g) ==
  /\ g \in DOMAIN go
  /\ LET r == go[g]
     IN \/ StartJob(g, r) \/ LimitCheck(g, r) \/ GetAsyncTaskStatus(g, r) \/ StopJob(g, r)
        \/ GetOutput(g, r) \/ DataPersistence(g, r) \/ Sql(g, r) \/ Memory(g, r)
        \/ AddTask(g, r)
  /\ UNCHANGED <<boot, bounds>>

Cut(w) ==
  /\ CutStep(w)
  /\ UNCHANGED <<tableVars, memoryVars, boot, go, historyVars, faults, bounds>>

\* everything but the table is lost
Crash ==
  /\ crashes < MaxCrashes
  /\ crashes' = crashes + 1
  /\ ServiceDies
  /\ waitingTasks' = <<>> /\ stopedTaskMap' = {} /\ runningTaskMap' = Empty
  /\ boot' = "running"
  /\ go' = Empty
  /\ UNCHANGED <<tableVars, historyVars, faults, requests>>

\* the constructor; when its statement fails it leaves the rows where they are
Boot ==
  /\ \/ (RecoverRunning \/ RecoverWaiting) /\ Ok
     \/ boot = "waiting" /\ Fault("constructor") /\ boot' = "up" /\ UNCHANGED memoryVars
  /\ UNCHANGED <<tableVars, serviceVars, go, historyVars, bounds>>

Next ==
  \/ ScheduleOnce \/ UpdateOnce \/ Crash \/ Boot
  \/ \E t \in Tasks : CreateTask(t)
  \/ \E t \in Tasks, op \in Operations, g \in RequestIds : Request(t, op, g)
  \/ \E g \in GoIds : Step(g)
  \/ \E w \in WorkIds : Cut(w)

Safety == Init /\ [][Next]_vars

(* The Go scheduler runs the loops and the goroutines, and ffmpeg returns. *)
(* Nobody has to make a request, and the process need not crash.           *)
Fairness ==
  /\ WF_vars(ScheduleOnce) /\ WF_vars(UpdateOnce) /\ WF_vars(Boot)
  /\ \A g \in GoIds : WF_vars(Step(g))
  /\ \A w \in WorkIds : WF_vars(Cut(w))

Spec == Safety /\ Fairness

-----------------------------------------------------------------------------
(* Properties.                                                             *)

\* Types, and which ids and goroutines there are.
WebTypeOK ==
  /\ TableTypeOK /\ MemoryTypeOK /\ ServiceTypeOK
  /\ DOMAIN go \subseteq GoIds
  /\ \A g \in DOMAIN go : go[g] \in Goroutine
  /\ finshed \in [Tasks -> Nat]
  /\ ignored \in SUBSET Tasks
  /\ {faults, crashes, requests} \subseteq Nat

\* Whatever fails, is retried, or is recovered twice: a task comes to an end, and
\* is under way, no more often than it was added (the compare and set of the
\* transitions, against the insert of AddTask).
OneOutcome == \A t \in Tasks :
  ended[t] + (IF rows[t].status \in ActiveStatus THEN 1 ELSE 0) <= asked[t]

\* A row says "success" only with the output of a job of that task, and ffmpeg
\* returned from it without an error (GetOutput and DataPersistence come first).
SuccessIsTrue == \A t \in Tasks : rows[t].status = "success" =>
  /\ rows[t].output # NoWork
  /\ cuts[rows[t].output] = "made"
  /\ madeFor[rows[t].output] = {t}

\* finshed is called for no outcome that is not in the table.
ReportedIsRecorded == \A t \in Tasks : finshed[t] <= ended[t]

\* The table moves along the arrows of RowLifecycle, through faults and crashes.
Lifecycle == INSTANCE RowLifecycle WITH
  status <- [t \in Tasks |-> rows[t].status],
  deleted <- {t \in Tasks : rows[t].deleted}
RowsLive == Lifecycle!Spec

(* The next ones are about a process that may crash at any moment, while   *)
(* calls and statements work, no task is stopped and none is started again *)
(* after it has come to an end.                                            *)

Engaged(t) == \E g \in DOMAIN go : go[g].task = t

\* What the memory takes to be running is what is RUNNING in the table, and under the
\* same job, also after the restart; only while a goroutine is about to bring them
\* together they differ.
MemoryFollowsTable == \A t \in Tasks : boot # "running" /\ ~Engaged(t) =>
  /\ t \in Running <=> Found(t, "running")
  /\ t \in Running => runningTaskMap[t].work = rows[t].work

\* The limit holds for the table, which a crash does not clear, and so for what the
\* constructor puts back.
TableWithinLimit ==
  /\ Cardinality(Where("running")) <= TaskLimit
  /\ Cardinality(Running) <= TaskLimit

\* ffmpeg does not run for a task unless its row, or a goroutine that will store or
\* stop the job, knows the job.
JobsAreKnown == \A w \in WorkIds, t \in Tasks :
  jobs[w] = "running" /\ t \in madeFor[w] /\ ~Engaged(t) =>
    rows[t].status = "running" /\ rows[t].work = w

\* What a restart finds RUNNING, or WAITING (less than a batch, and the constructor
\* can read them), does not stay so: it is polled or queued again, and comes to an
\* end or is exported.
RecoveredRuns == \A t \in Tasks :
  /\ boot = "running" /\ crashes = MaxCrashes
  /\ rows[t].status \in {"waiting", "running"}
  /\ Cardinality(Where("waiting")) < Batch
  ~> boot = "up" /\ rows[t].status \notin (IF faults = 0 THEN {"waiting", "running"}
                                           ELSE {"running"})

\* "忽略错误，重试调度": the actuator says that a start whose request was lost is
\* tried again.
IgnoredIsRetried == \A t \in Tasks : t \in ignored ~> t \notin ignored
=============================================================================
