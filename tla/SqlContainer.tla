---------------------------- MODULE SqlContainer ----------------------------
(***************************************************************************)
(* The persistent task container of the video cut example                  *)
(* (example_sql_container.go, video_cut_task.go): one row per task, and    *)
(* one SQL statement per operation.  A status changes by compare and set:  *)
(* UPDATE ... WHERE task_id = ? AND status = ?, with no row affected taken *)
(* as an error.  Deleting a row only sets delete_time; every statement but *)
(* the insertion of AddTask passes over such a row.                        *)
(*                                                                         *)
(* A statement is one step.  It may fail, before it was executed or after  *)
(* (the answer is lost); the modules that use the container decide when.   *)
(***************************************************************************)
EXTENDS Task

CONSTANT
  MaxWorks            (* bound: jobs the video cut service is given          *)

ASSUME WorksAssumption == MaxWorks \in Nat \ {0}

\* ids of jobs; 0 is the empty WorkTaskId, or no output
WorkIds == 1..MaxWorks
NoWork == 0

VARIABLES
  rows,               (* the table: task id -> row                           *)
  asked,              (* history: per task, how often AddTask was executed   *)
  ended               (* history: per task, outcomes written to its row      *)

tableVars == <<rows, asked, ended>>

RowStatus ==
  {"none", "unstart", "waiting", "running", "exporting", "success", "failed", "stoped"}
ActiveStatus == {"waiting", "running", "exporting"}
Outcomes == {"success", "failed"}

\* the columns a statement reads or a property is about; "none" is no row yet
Row == [status : RowStatus, deleted : BOOLEAN,
        work : WorkIds \cup {NoWork}, output : WorkIds \cup {NoWork}]

TableInit ==
  /\ rows = [t \in Tasks |->
       [status |-> "none", deleted |-> FALSE, work |-> NoWork, output |-> NoWork]]
  /\ asked = [t \in Tasks |-> 0]
  /\ ended = [t \in Tasks |-> 0]

TableTypeOK ==
  /\ rows \in [Tasks -> Row]
  /\ asked \in [Tasks -> Nat]
  /\ ended \in [Tasks -> Nat]

\* delete_time is null, which gorm adds to every condition
Live(t) == rows[t].status # "none" /\ ~rows[t].deleted

Where(s) == {t \in Tasks : Live(t) /\ rows[t].status = s}

\* mutant: the status is not compared
Found_AnyStatus(t, s) == Live(t)

\* the row that task_id = ? and status = ? selects
Found(t, s) == Live(t) /\ rows[t].status = s

-----------------------------------------------------------------------------
(* The statements.                                                         *)

\* CreateTask, for a task id that was never used
Insert(t) ==
  /\ rows[t].status = "none"
  /\ rows' = [rows EXCEPT ![t].status = "unstart"]
  /\ UNCHANGED <<asked, ended>>

\* AddTask: insert, and on a duplicate key set the status, of any row
Upsert(t) ==
  /\ rows' = [rows EXCEPT ![t].status = "waiting"]
  /\ asked' = [asked EXCEPT ![t] = @ + 1]
  /\ UNCHANGED ended

\* ToRunningStatus, ToStopStatus, ToDeleteStatus, ToFailedStatus, ToExportStatus
\* and ToSuccessStatus, on a row that was found; only the first writes
\* work_task_id.  attempts_time, which is never read, is left out
Update(t, to, w) ==
  /\ rows' = [rows EXCEPT ![t] =
       IF to = "delete" THEN [rows[t] EXCEPT !.deleted = TRUE]
       ELSE [rows[t] EXCEPT !.status = to,
                            !.work = IF to = "running" THEN w ELSE rows[t].work]]
  /\ ended' = [ended EXCEPT ![t] = IF to \in Outcomes THEN @ + 1 ELSE @]
  /\ UNCHANGED asked

\* DataPersistence: the output of a task, whatever its status
SaveOutput(t, w) ==
  /\ rows' = [rows EXCEPT ![t].output = w]
  /\ UNCHANGED <<asked, ended>>
=============================================================================
