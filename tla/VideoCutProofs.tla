--------------------------- MODULE VideoCutProofs ---------------------------
(***************************************************************************)
(* Proofs about the video cut program, for any set of tasks, limits, sizes *)
(* and numbers of users, faults and crashes: types, one end per start, the *)
(* refinement of RowLifecycle, no report of an end that was not, and no    *)
(* success without an output.                                              *)
(***************************************************************************)
EXTENDS VideoCutWeb, SequenceTheorems, FiniteSetTheorems, TLAPS

-----------------------------------------------------------------------------
(* The invariant.                                                          *)

\* the transitions of a row that goroutines ask for
Arrow(from, to) ==
  \/ to = "running" /\ from \in {"waiting", "running"}
  \/ to = "exporting" /\ from = "running"
  \/ to = "success" /\ from = "exporting"
  \/ to \in {"failed", "stoped"} /\ from \in ActiveStatus
  \/ to = "delete" /\ from \in RowStatus \ (ActiveStatus \cup {"none"})

\* What a goroutine believes of its task, so that a compare and set that succeeds
\* is an arrow
GoodCopy(r) ==
  /\ r.pc \in {"start", "limit"} => r.to = "running" /\ r.st \in {"waiting", "running"}
  /\ r.pc = "query" => r.st = "running"
  /\ r.pc \in {"output", "save"} => r.to = "success" /\ r.st = "exporting"
  /\ r.pc = "sql" => Arrow(r.st, r.to)
  /\ r.pc = "mem" => r.st = r.to
  /\ r.pc = "stop" => r.to = "none" \/ (r.to = "failed" /\ r.st \in ActiveStatus)

GoOK ==
  /\ DOMAIN go \subseteq GoIds
  /\ \A g \in DOMAIN go : go[g] \in Goroutine /\ GoodCopy(go[g])

\* AddTask is called for a task that has a row
Known == \A g \in DOMAIN go :
  go[g].pc \in {"push", "upsert"} => rows[go[g].task].status # "none"

\* only a row can be deleted
NoGhost == \A t \in Tasks : rows[t].deleted => rows[t].status # "none"

CountsOK ==
  /\ finshed \in [Tasks -> Nat]
  /\ ignored \in SUBSET Tasks
  /\ {faults, crashes, requests} \subseteq Nat

Inv == TableTypeOK /\ MemoryTypeOK /\ ServiceTypeOK /\ GoOK /\ Known /\ CountsOK /\ NoGhost /\ OneOutcome

-----------------------------------------------------------------------------
(* The table.                                                              *)

Statuses == [t \in Tasks |-> rows[t].status]
Deleted == {t \in Tasks : rows[t].deleted}

\* what any step does to the table
Moved ==
  \/ UNCHANGED tableVars
  \/ \E t \in Tasks : Insert(t)
  \/ \E t \in Tasks : rows[t].status # "none" /\ Upsert(t)
  \/ \E t \in Tasks, w \in WorkIds \cup {NoWork} : SaveOutput(t, w)
  \/ \E t \in Tasks, s \in RowStatus, to \in RowStatus \cup {"delete"},
        w \in WorkIds \cup {NoWork} :
       Found(t, s) /\ Arrow(s, to) /\ Update(t, to, w)

\* A row that is replaced leaves the others and the types.
LEMMA RowSet ==
  ASSUME TableTypeOK, NEW t \in Tasks, NEW v \in Row, rows' = [rows EXCEPT ![t] = v]
  PROVE  /\ rows' \in [Tasks -> Row]
         /\ rows'[t] = v
         /\ \A u \in Tasks \ {t} : rows'[u] = rows[u]
BY DEF TableTypeOK

\* The same for the status column.
LEMMA StatusSet ==
  ASSUME TableTypeOK, NEW t \in Tasks, NEW s \in RowStatus,
         rows' = [rows EXCEPT ![t].status = s]
  PROVE  /\ rows' \in [Tasks -> Row]
         /\ rows'[t].status = s /\ rows'[t].deleted = rows[t].deleted
         /\ \A u \in Tasks \ {t} : rows'[u] = rows[u]
<1> DEFINE v == [rows[t] EXCEPT !.status = s]
<1>1. rows[t] \in Row
  BY DEF TableTypeOK
<1>2. v \in Row /\ v.status = s /\ v.deleted = rows[t].deleted
  BY <1>1 DEF Row
<1>3. rows' = [rows EXCEPT ![t] = v]
  OBVIOUS
<1> HIDE DEF v
<1> QED  BY <1>2, <1>3, RowSet

\* A statement that found its row moves it along the arrow it was given.
LEMMA Updated ==
  ASSUME TableTypeOK, NEW t \in Tasks, NEW s \in RowStatus, NEW to \in RowStatus \cup {"delete"},
         NEW w \in WorkIds \cup {NoWork}, Found(t, s), Arrow(s, to), Update(t, to, w)
  PROVE  /\ rows' \in [Tasks -> Row]
         /\ rows'[t].status = IF to = "delete" THEN s ELSE to
         /\ rows'[t].deleted = (to = "delete")
         /\ \A u \in Tasks \ {t} : rows'[u] = rows[u]
<1>1. rows[t] \in Row /\ rows[t].status = s /\ rows[t].deleted = FALSE
  BY DEF TableTypeOK, Found, Live, Row
<1>2. CASE to = "delete"
  <2> DEFINE v == [rows[t] EXCEPT !.deleted = TRUE]
  <2>1. v \in Row /\ v.status = s /\ v.deleted = TRUE
    BY <1>1 DEF Row
  <2>2. rows' = [rows EXCEPT ![t] = v]
    BY <1>2 DEF Update
  <2> HIDE DEF v
  <2> QED  BY <2>1, <2>2, <1>2, RowSet
<1>3. CASE to # "delete"
  <2> DEFINE v == [rows[t] EXCEPT !.status = to,
                     !.work = IF to = "running" THEN w ELSE rows[t].work]
  <2>1. v \in Row /\ v.status = to /\ v.deleted = FALSE
    BY <1>1, <1>3 DEF Row
  <2>2. rows' = [rows EXCEPT ![t] = v]
    BY <1>3 DEF Update
  <2> HIDE DEF v
  <2> QED  BY <2>1, <2>2, <1>3, RowSet
<1> QED  BY <1>2, <1>3

\* An output leaves every status.
LEMMA Saved ==
  ASSUME TableTypeOK, NEW t \in Tasks, NEW w \in WorkIds \cup {NoWork}, SaveOutput(t, w)
  PROVE  /\ rows' \in [Tasks -> Row]
         /\ \A u \in Tasks : rows'[u].status = rows[u].status /\ rows'[u].deleted = rows[u].deleted
<1> DEFINE v == [rows[t] EXCEPT !.output = w]
<1>1. rows[t] \in Row
  BY DEF TableTypeOK
<1>2. v \in Row /\ v.status = rows[t].status /\ v.deleted = rows[t].deleted
  BY <1>1 DEF Row
<1>3. rows' = [rows EXCEPT ![t] = v]
  BY DEF SaveOutput
<1> HIDE DEF v
<1> QED  BY <1>2, <1>3, RowSet

\* The insertions.
LEMMA Inserted ==
  ASSUME TableTypeOK, NEW t \in Tasks, NEW s \in {"unstart", "waiting"},
         rows' = [rows EXCEPT ![t].status = s]
  PROVE  /\ rows' \in [Tasks -> Row]
         /\ rows'[t].status = s /\ rows'[t].deleted = rows[t].deleted
         /\ \A u \in Tasks \ {t} : rows'[u] = rows[u]
BY StatusSet DEF RowStatus

\* Whatever happens to the table, its types stay, no row goes away, and a task has no
\* more ends than starts.
LEMMA MovedOK ==
  ASSUME TableTypeOK, OneOutcome, Moved
  PROVE  /\ TableTypeOK' /\ OneOutcome'
         /\ \A t \in Tasks : rows[t].status # "none" => rows'[t].status # "none"
<1> USE DEF ActiveStatus
<1>1. CASE UNCHANGED tableVars
  BY <1>1 DEF TableTypeOK, OneOutcome, tableVars
<1>2. ASSUME NEW t \in Tasks, Insert(t)
      PROVE  /\ TableTypeOK' /\ OneOutcome'
             /\ \A u \in Tasks : rows[u].status # "none" => rows'[u].status # "none"
  <2>1. /\ rows' \in [Tasks -> Row] /\ rows'[t].status = "unstart"
        /\ \A u \in Tasks \ {t} : rows'[u] = rows[u]
    BY <1>2, Inserted DEF Insert
  <2>2. asked' = asked /\ ended' = ended /\ rows[t].status = "none"
    BY <1>2 DEF Insert
  <2> QED  BY <2>1, <2>2 DEF TableTypeOK, OneOutcome
<1>3. ASSUME NEW t \in Tasks, Upsert(t)
      PROVE  /\ TableTypeOK' /\ OneOutcome'
             /\ \A u \in Tasks : rows[u].status # "none" => rows'[u].status # "none"
  <2>1. /\ rows' \in [Tasks -> Row] /\ rows'[t].status = "waiting"
        /\ \A u \in Tasks \ {t} : rows'[u] = rows[u]
    BY <1>3, Inserted DEF Upsert
  <2>2. /\ asked' \in [Tasks -> Nat] /\ ended' = ended
        /\ asked'[t] = asked[t] + 1
        /\ \A u \in Tasks \ {t} : asked'[u] = asked[u]
    BY <1>3 DEF Upsert, TableTypeOK
  <2>3. ended[t] <= asked[t]
    BY DEF OneOutcome, TableTypeOK
  <2>4. OneOutcome'
    <3> SUFFICES ASSUME NEW u \in Tasks
                 PROVE  ended'[u] + (IF rows'[u].status \in ActiveStatus THEN 1 ELSE 0) <= asked'[u]
      BY DEF OneOutcome
    <3>1. CASE u = t
      BY <3>1, <2>1, <2>2, <2>3 DEF TableTypeOK
    <3>2. CASE u # t
      BY <3>2, <2>1, <2>2 DEF OneOutcome
    <3> QED  BY <3>1, <3>2
  <2> QED  BY <2>1, <2>2, <2>4 DEF TableTypeOK
<1>4. ASSUME NEW t \in Tasks, NEW w \in WorkIds \cup {NoWork}, SaveOutput(t, w)
      PROVE  /\ TableTypeOK' /\ OneOutcome'
             /\ \A u \in Tasks : rows[u].status # "none" => rows'[u].status # "none"
  <2>1. asked' = asked /\ ended' = ended
    BY <1>4 DEF SaveOutput
  <2> QED  BY <2>1, <1>4, Saved DEF TableTypeOK, OneOutcome
<1>5. ASSUME NEW t \in Tasks, NEW s \in RowStatus, NEW to \in RowStatus \cup {"delete"},
             NEW w \in WorkIds \cup {NoWork}, Found(t, s), Arrow(s, to), Update(t, to, w)
      PROVE  /\ TableTypeOK' /\ OneOutcome'
             /\ \A u \in Tasks : rows[u].status # "none" => rows'[u].status # "none"
  <2>1. /\ rows' \in [Tasks -> Row]
        /\ rows'[t].status = IF to = "delete" THEN s ELSE to
        /\ \A u \in Tasks \ {t} : rows'[u] = rows[u]
    BY <1>5, Updated
  <2>2. /\ asked' = asked /\ ended' \in [Tasks -> Nat]
        /\ ended'[t] = IF to \in Outcomes THEN ended[t] + 1 ELSE ended[t]
        /\ \A u \in Tasks \ {t} : ended'[u] = ended[u]
    BY <1>5 DEF Update, TableTypeOK
  <2>3. rows[t].status = s /\ s # "none"
    BY <1>5 DEF Found, Live
  <2>4. to # "none"
    BY <1>5 DEF Arrow
  <2>5. OneOutcome'
    <3> SUFFICES ASSUME NEW u \in Tasks
                 PROVE  ended'[u] + (IF rows'[u].status \in ActiveStatus THEN 1 ELSE 0) <= asked'[u]
      BY DEF OneOutcome
    <3>1. CASE u = t
      <4>1. ended[t] + (IF s \in ActiveStatus THEN 1 ELSE 0) <= asked[t]
        BY <2>3 DEF OneOutcome
      <4>2. ended[t] \in Nat /\ asked[t] \in Nat
        BY DEF TableTypeOK
      <4> QED  BY <1>5, <3>1, <2>1, <2>2, <4>1, <4>2 DEF Arrow, Outcomes
    <3>2. CASE u # t
      BY <3>2, <2>1, <2>2 DEF OneOutcome
    <3> QED  BY <3>1, <3>2
  <2> QED  BY <2>1, <2>2, <2>3, <2>4, <2>5 DEF TableTypeOK
<1> QED  BY <1>1, <1>2, <1>3, <1>4, <1>5 DEF Moved

\* A row that is not there is not deleted.
LEMMA MovedGhost ==
  ASSUME TableTypeOK, NoGhost, Moved
  PROVE  NoGhost'
<1>1. CASE UNCHANGED tableVars
  BY <1>1 DEF NoGhost, tableVars
<1>2. ASSUME NEW t \in Tasks, Insert(t)
      PROVE  NoGhost'
  BY <1>2, Inserted DEF Insert, NoGhost
<1>3. ASSUME NEW t \in Tasks, Upsert(t)
      PROVE  NoGhost'
  BY <1>3, Inserted DEF Upsert, NoGhost
<1>4. ASSUME NEW t \in Tasks, NEW w \in WorkIds \cup {NoWork}, SaveOutput(t, w)
      PROVE  NoGhost'
  BY <1>4, Saved DEF NoGhost
<1>5. ASSUME NEW t \in Tasks, NEW s \in RowStatus, NEW to \in RowStatus \cup {"delete"},
             NEW w \in WorkIds \cup {NoWork}, Found(t, s), Arrow(s, to), Update(t, to, w)
      PROVE  NoGhost'
  BY <1>5, Updated DEF NoGhost, Found, Live, Arrow
<1> QED  BY <1>1, <1>2, <1>3, <1>4, <1>5 DEF Moved

\* The row of one task is set, the others stay.
LEMMA OneStatus ==
  ASSUME NEW t \in Tasks, NEW s, rows'[t].status = s,
         \A u \in Tasks \ {t} : rows'[u].status = rows[u].status
  PROVE  Statuses' = [Statuses EXCEPT ![t] = s]
BY DEF Statuses

\* A step of the table is a step of RowLifecycle, or none.
LEMMA MovedRefines ==
  ASSUME TableTypeOK, NoGhost, Moved
  PROVE  Lifecycle!Next \/ UNCHANGED <<Statuses, Deleted>>
<1>1. CASE UNCHANGED tableVars
  BY <1>1 DEF Statuses, Deleted, tableVars
<1>2. ASSUME NEW t \in Tasks, Insert(t)
      PROVE  Lifecycle!Next
  <2>1. /\ rows'[t].status = "unstart" /\ rows'[t].deleted = rows[t].deleted
        /\ \A u \in Tasks \ {t} : rows'[u] = rows[u]
    BY <1>2, Inserted DEF Insert
  <2>2. Deleted' = Deleted
    BY <2>1 DEF Deleted
  <2>3. Statuses' = [Statuses EXCEPT ![t] = "unstart"] /\ Statuses[t] = "none"
    BY <2>1, <1>2, OneStatus DEF Insert, Statuses
  <2>4. t \notin Deleted
    BY <1>2 DEF Insert, Deleted, NoGhost
  <2>5. Lifecycle!Create(t)
    BY <2>2, <2>3, <2>4 DEF Lifecycle!Create, Lifecycle!Become, Lifecycle!Set, Statuses, Deleted
  <2> QED  BY <2>5 DEF Lifecycle!Next
<1>3. ASSUME NEW t \in Tasks, rows[t].status # "none", Upsert(t)
      PROVE  Lifecycle!Next
  <2>1. /\ rows'[t].status = "waiting" /\ rows'[t].deleted = rows[t].deleted
        /\ \A u \in Tasks \ {t} : rows'[u] = rows[u]
    BY <1>3, Inserted DEF Upsert
  <2>2. Deleted' = Deleted
    BY <2>1 DEF Deleted
  <2>3. Statuses' = [Statuses EXCEPT ![t] = "waiting"]
    BY <2>1, OneStatus
  <2>4. Lifecycle!Start(t)
    BY <2>2, <2>3, <1>3 DEF Lifecycle!Start, Lifecycle!Set, Statuses, Deleted
  <2> QED  BY <2>4 DEF Lifecycle!Next
<1>4. ASSUME NEW t \in Tasks, NEW w \in WorkIds \cup {NoWork}, SaveOutput(t, w)
      PROVE  UNCHANGED <<Statuses, Deleted>>
  BY <1>4, Saved DEF Statuses, Deleted
<1>5. ASSUME NEW t \in Tasks, NEW s \in RowStatus, NEW to \in RowStatus \cup {"delete"},
             NEW w \in WorkIds \cup {NoWork}, Found(t, s), Arrow(s, to), Update(t, to, w)
      PROVE  Lifecycle!Next
  <2>1. /\ rows'[t].status = IF to = "delete" THEN s ELSE to
        /\ rows'[t].deleted = (to = "delete")
        /\ \A u \in Tasks \ {t} : rows'[u] = rows[u]
    BY <1>5, Updated
  <2>2. Statuses[t] = s /\ t \notin Deleted
    BY <1>5 DEF Found, Live, Statuses, Deleted
  <2>3. CASE to = "delete"
    <3>1. Statuses' = Statuses
      BY <2>1, <2>2, <2>3 DEF Statuses
    <3>2. Deleted' = Deleted \cup {t}
      BY <2>1, <2>3 DEF Deleted
    <3>3. Statuses[t] \notin Lifecycle!Active \cup {"none"}
      BY <1>5, <2>2, <2>3 DEF Arrow, ActiveStatus, Lifecycle!Active
    <3>4. Lifecycle!Delete(t)
      BY <3>1, <3>2, <3>3 DEF Lifecycle!Delete, Statuses, Deleted
    <3> QED  BY <3>4 DEF Lifecycle!Next
  <2>4. CASE to # "delete"
    <3>1. Statuses' = [Statuses EXCEPT ![t] = to]
      BY <2>1, <2>4, OneStatus
    <3>2. Deleted' = Deleted
      BY <2>1, <2>2, <2>4 DEF Deleted
    <3>3. Lifecycle!Set(t, to)
      BY <3>1, <3>2 DEF Lifecycle!Set, Statuses, Deleted
    <3>4. ASSUME NEW from, s \in from
          PROVE  Lifecycle!Become(t, from, to)
      BY <2>2, <3>3, <3>4 DEF Lifecycle!Become, Statuses, Deleted
    <3>5. Lifecycle!Run(t) \/ Lifecycle!Export(t) \/ Lifecycle!Succeed(t) \/ Lifecycle!Fail(t)
            \/ Lifecycle!Stop(t)
      BY <1>5, <2>4, <3>4 DEF Arrow, ActiveStatus, Lifecycle!Active, Lifecycle!Run,
        Lifecycle!Export, Lifecycle!Succeed, Lifecycle!Fail, Lifecycle!Stop
    <3> QED  BY <3>5 DEF Lifecycle!Next
  <2> QED  BY <2>3, <2>4
<1> QED  BY <1>1, <1>2, <1>3, <1>4, <1>5 DEF Moved

-----------------------------------------------------------------------------
(* The memory and the service.                                             *)

Entry == [work : WorkIds \cup {NoWork}, att : Attempts]

LEMMA EnterOK ==
  ASSUME MemoryTypeOK, UNCHANGED boot, NEW t \in Tasks, NEW w \in WorkIds \cup {NoWork},
         NEW a \in Attempts, EnterMemory(t, w, a)
  PROVE  MemoryTypeOK'
<1> DEFINE v == [work |-> IF t \in Running THEN runningTaskMap[t].work ELSE w, att |-> a]
<1>1. v \in Entry
  BY DEF Entry, MemoryTypeOK
<1>2. runningTaskMap' = [x \in Running \cup {t} |-> IF x = t THEN v ELSE runningTaskMap[x]]
  BY DEF EnterMemory, Put, Running
<1> HIDE DEF v
<1>3. Running' = Running \cup {t} /\ \A x \in Running' : runningTaskMap'[x] \in Entry
  BY <1>1, <1>2 DEF Running, Entry, MemoryTypeOK
<1> QED  BY <1>3 DEF EnterMemory, MemoryTypeOK, Entry

LEMMA WithoutOK ==
  ASSUME MemoryTypeOK, NEW t \in Tasks, runningTaskMap' = Without(runningTaskMap, t)
  PROVE  /\ Running' \subseteq Tasks
         /\ \A x \in Running' : runningTaskMap'[x] \in Entry
<1>1. Running' = Running \ {t} /\ \A x \in Running' : runningTaskMap'[x] = runningTaskMap[x]
  BY DEF Without, Restrict, Running
<1> QED  BY <1>1 DEF MemoryTypeOK, Entry

LEMMA LeaveOK ==
  ASSUME MemoryTypeOK, UNCHANGED boot, NEW t \in Tasks, LeaveMemory(t) \/ StopMemory(t)
  PROVE  MemoryTypeOK'
<1>1. runningTaskMap' = Without(runningTaskMap, t) /\ waitingTasks' = waitingTasks
  BY DEF LeaveMemory, StopMemory
<1>2. stopedTaskMap' \in SUBSET Tasks
  BY DEF LeaveMemory, StopMemory, MemoryTypeOK
<1> QED  BY <1>1, <1>2, WithoutOK DEF MemoryTypeOK, Entry

LEMMA AddOK ==
  ASSUME MemoryTypeOK, UNCHANGED boot, NEW t \in Tasks, AddMemory(t)
  PROVE  MemoryTypeOK'
<1>1. waitingTasks' \in Seq(Tasks)
  BY DEF AddMemory, MemoryTypeOK
<1>2. stopedTaskMap' \in SUBSET Tasks /\ runningTaskMap' = runningTaskMap
  BY DEF AddMemory, MemoryTypeOK
<1> QED  BY <1>1, <1>2 DEF MemoryTypeOK, Running

LEMMA TakeOK ==
  ASSUME MemoryTypeOK, UNCHANGED boot, NEW k \in Nat, k <= Len(waitingTasks), TakeWaiting(k)
  PROVE  MemoryTypeOK'
<1>1. waitingTasks' \in Seq(Tasks)
  <2>1. \A i \in (k + 1)..Len(waitingTasks) : i \in 1..Len(waitingTasks)
    BY DEF MemoryTypeOK
  <2> QED  BY <2>1, SubSeqProperties DEF TakeWaiting, MemoryTypeOK
<1>2. stopedTaskMap' \in SUBSET Tasks /\ runningTaskMap' = runningTaskMap
  BY DEF TakeWaiting, MemoryTypeOK
<1> QED  BY <1>1, <1>2 DEF MemoryTypeOK, Running

LEMMA RecoverRunningOK ==
  ASSUME TableTypeOK, MemoryTypeOK, RecoverRunning
  PROVE  MemoryTypeOK'
<1>1. Running' = Where("running")
  BY DEF RecoverRunning, Running
<1>2. ASSUME NEW t \in Where("running")
      PROVE  runningTaskMap'[t] \in Entry
  <2>1. runningTaskMap'[t] = [work |-> rows[t].work, att |-> 0] /\ t \in Tasks
    BY <1>2 DEF RecoverRunning, Where
  <2>2. rows[t].work \in WorkIds \cup {NoWork}
    BY <2>1 DEF TableTypeOK, Row
  <2>3. 0 \in Attempts
    BY TaskAssumption DEF Attempts
  <2> QED  BY <2>1, <2>2, <2>3 DEF Entry
<1> QED  BY <1>1, <1>2 DEF MemoryTypeOK, RecoverRunning, Entry, Where

LEMMA RecoverWaitingOK ==
  ASSUME MemoryTypeOK, RecoverWaiting
  PROVE  MemoryTypeOK'
<1>1. Cardinality(Where("waiting")) \in Nat
  BY FS_Subset, FS_CardinalityType, TaskAssumption DEF Where
<1>2. PICK q \in Batches :
        /\ waitingTasks' = SubSeq(waitingTasks \o q, 1,
             IF Len(waitingTasks \o q) < QueueSize THEN Len(waitingTasks \o q) ELSE QueueSize)
        /\ boot' = IF Len(q) < Batch THEN "up" ELSE "waiting"
  BY DEF RecoverWaiting
<1>3. q \in Seq(Tasks)
  <2>1. PICK k \in Nat : q \in [1..k -> Where("waiting")]
    BY <1>1, CombinationAssumption DEF Batches, Injection
  <2> QED  BY <2>1 DEF Where
<1>4. waitingTasks \o q \in Seq(Tasks)
  BY <1>3, ConcatProperties DEF MemoryTypeOK
<1>5. waitingTasks' \in Seq(Tasks)
  <2> DEFINE s == waitingTasks \o q
             n == IF Len(s) < QueueSize THEN Len(s) ELSE QueueSize
  <2>1. s \in Seq(Tasks) /\ n \in Nat /\ n <= Len(s) /\ waitingTasks' = SubSeq(s, 1, n)
    BY <1>2, <1>4, CombinationAssumption
  <2> HIDE DEF s, n
  <2>2. \A i \in 1..n : i \in 1..Len(s)
    BY <2>1
  <2> QED  BY <2>1, <2>2, SubSeqProperties
<1>6. stopedTaskMap' = stopedTaskMap /\ runningTaskMap' = runningTaskMap
  BY DEF RecoverWaiting
<1> QED  BY <1>2, <1>5, <1>6 DEF MemoryTypeOK, Running

LEMMA AcceptOK ==
  ASSUME ServiceTypeOK, NEW w \in WorkIds, NEW t \in Tasks, Accept(w, t)
  PROVE  ServiceTypeOK'
BY DEF ServiceTypeOK, Accept, JobStatus, CutPC

LEMMA DropOK ==
  ASSUME ServiceTypeOK, NEW w \in WorkIds \cup {NoWork}, DropIfEnded(w)
  PROVE  ServiceTypeOK'
BY DEF ServiceTypeOK, DropIfEnded, JobStatus

LEMMA CancelOK ==
  ASSUME ServiceTypeOK, NEW w \in WorkIds \cup {NoWork}, Cancel(w)
  PROVE  ServiceTypeOK'
BY DEF ServiceTypeOK, Cancel, JobStatus, CutPC

LEMMA CutOK ==
  ASSUME ServiceTypeOK, NEW w \in WorkIds, CutStep(w)
  PROVE  ServiceTypeOK'
<1>1. CASE CutFails(w)
  BY <1>1 DEF ServiceTypeOK, CutFails, JobStatus, CutPC
<1>2. CASE CutReturns(w)
  BY <1>2 DEF ServiceTypeOK, CutReturns, CutPC
<1>3. CASE CutStore(w)
  BY <1>3 DEF ServiceTypeOK, CutStore, JobStatus, CutPC
<1>4. CASE CutPath(w)
  BY <1>4 DEF ServiceTypeOK, CutPath, CutPC
<1> QED  BY <1>1, <1>2, <1>3, <1>4 DEF CutStep

LEMMA DiesOK ==
  ASSUME ServiceTypeOK, ServiceDies
  PROVE  ServiceTypeOK'
BY DEF ServiceTypeOK, ServiceDies, JobStatus, CutPC

-----------------------------------------------------------------------------
(* The goroutines.                                                         *)

LEMMA NewOK ==
  ASSUME NEW pc \in GoPC, NEW t \in Tasks, NEW w \in WorkIds \cup {NoWork}, NEW a \in Attempts,
         NEW st \in RowStatus, NEW to \in RowStatus \cup {"delete"}
  PROVE  /\ New(pc, t, w, a, st, to) \in Goroutine
         /\ New(pc, t, w, a, st, to).pc = pc
         /\ New(pc, t, w, a, st, to).task = t
         /\ New(pc, t, w, a, st, to).st = st
         /\ New(pc, t, w, a, st, to).to = to
BY DEF New, Goroutine

\* What a goroutine that moves on has to be.
Fits(r) == r \in Goroutine /\ GoodCopy(r) /\
           (r.pc \in {"push", "upsert"} => rows[r.task].status # "none")

Goroutines == GoOK /\ Known

\* A goroutine moves on.
LEMMA GotoOK ==
  ASSUME TableTypeOK, OneOutcome, Moved, Goroutines, NEW g \in GoIds, NEW r, Fits(r), Goto(g, r)
  PROVE  Goroutines'
<1>1. /\ DOMAIN go' = DOMAIN go \cup {g}
      /\ \A h \in DOMAIN go' : go'[h] = IF h = g THEN r ELSE go[h]
  BY DEF Goto, Put
<1>2. GoOK'
  BY <1>1 DEF GoOK, Goroutines, Fits, GoodCopy, Arrow
<1>3. \A t \in Tasks : rows[t].status # "none" => rows'[t].status # "none"
  BY MovedOK
<1>4. Known'
  <2> SUFFICES ASSUME NEW h \in DOMAIN go', go'[h].pc \in {"push", "upsert"}
               PROVE  rows'[go'[h].task].status # "none"
    BY DEF Known
  <2>1. go'[h].task \in Tasks
    BY <1>2 DEF GoOK, Goroutine
  <2>2. rows[go'[h].task].status # "none"
    BY <1>1 DEF Known, Goroutines, Fits
  <2> QED  BY <2>1, <2>2, <1>3
<1> QED  BY <1>2, <1>4 DEF Goroutines

\* A goroutine ends.
LEMMA ExitOK ==
  ASSUME TableTypeOK, OneOutcome, Moved, Goroutines, NEW g, Exit(g)
  PROVE  Goroutines'
<1>1. /\ DOMAIN go' = DOMAIN go \ {g}
      /\ \A h \in DOMAIN go' : go'[h] = go[h]
  BY DEF Exit, Without, Restrict
<1>2. GoOK'
  BY <1>1 DEF GoOK, Goroutines, GoodCopy, Arrow
<1>3. \A t \in Tasks : rows[t].status # "none" => rows'[t].status # "none"
  BY MovedOK
<1>4. Known'
  BY <1>1, <1>2, <1>3 DEF Known, Goroutines, GoOK, Goroutine
<1> QED  BY <1>2, <1>4 DEF Goroutines

\* All goroutines stay.
LEMMA StayOK ==
  ASSUME TableTypeOK, OneOutcome, Moved, Goroutines, UNCHANGED go
  PROVE  Goroutines'
<1>1. GoOK'
  BY DEF GoOK, Goroutines, GoodCopy, Arrow
<1>2. \A t \in Tasks : rows[t].status # "none" => rows'[t].status # "none"
  BY MovedOK
<1>3. Known'
  BY <1>1, <1>2 DEF Known, Goroutines, GoOK, Goroutine
<1> QED  BY <1>1, <1>3 DEF Goroutines

\* What a goroutine knows of itself.
LEMMA Itself ==
  ASSUME Inv, NEW g \in DOMAIN go, NEW r, r = go[g]
  PROVE  /\ g \in GoIds /\ r \in Goroutine /\ GoodCopy(r)
         /\ r.pc \in GoPC /\ r.task \in Tasks /\ r.work \in WorkIds \cup {NoWork}
         /\ r.att \in Attempts /\ r.st \in RowStatus /\ r.to \in RowStatus \cup {"delete"}
         /\ r.pc \in {"push", "upsert"} => rows[r.task].status # "none"
BY DEF Inv, Goroutines, GoOK, Known, Goroutine

\* A goroutine whose next step is neither of AddTask's first two.
LEMMA FitsElse ==
  ASSUME NEW r \in Goroutine, GoodCopy(r), r.pc \notin {"push", "upsert"}
  PROVE  Fits(r)
BY DEF Fits

\* A transition to be made.
LEMMA FitsTransit ==
  ASSUME NEW r \in Goroutine, NEW to \in RowStatus \cup {"delete"}, Arrow(r.st, to)
  PROVE  Fits(Transit(r, to)) /\ Fits([Transit(r, to) EXCEPT !.late = TRUE])
<1>1. /\ Transit(r, to) \in Goroutine /\ Transit(r, to).pc = "sql"
      /\ Transit(r, to).st = r.st /\ Transit(r, to).to = to
  BY DEF Transit, Goroutine, GoPC
<1> DEFINE q == [Transit(r, to) EXCEPT !.late = TRUE]
<1>2. q \in Goroutine /\ q.pc = "sql" /\ q.st = r.st /\ q.to = to
  BY DEF Transit, Goroutine, GoPC
<1> HIDE DEF q
<1>3. GoodCopy(Transit(r, to)) /\ GoodCopy(q)
  BY <1>1, <1>2 DEF GoodCopy
<1>4. Fits(Transit(r, to)) /\ Fits(q)
  BY <1>1, <1>2, <1>3, FitsElse
<1> QED  BY <1>4 DEF q

\* A transition to "failed", of a task that is under way.
LEMMA FitsFailed ==
  ASSUME NEW r \in Goroutine, r.st \in ActiveStatus
  PROVE  Fits(Transit(r, "failed")) /\ Fits([Transit(r, "failed") EXCEPT !.late = TRUE])
BY FitsTransit DEF Arrow, RowStatus

-----------------------------------------------------------------------------
(* The steps.                                                              *)

Sound ==
  /\ Moved /\ MemoryTypeOK' /\ ServiceTypeOK' /\ Goroutines' /\ CountsOK'

LEMMA SoundKeepsInv ==
  ASSUME Inv, Sound
  PROVE  Inv'
<1>1. TableTypeOK' /\ OneOutcome' /\ NoGhost'
  BY MovedOK, MovedGhost DEF Inv, Sound
<1> QED  BY <1>1 DEF Inv, Sound, Goroutines

\* What is left alone keeps its type.
LEMMA Frame ==
  ASSUME Inv
  PROVE  /\ UNCHANGED <<memoryVars, boot>> => MemoryTypeOK'
         /\ UNCHANGED serviceVars => ServiceTypeOK'
         /\ UNCHANGED tableVars => Moved
BY DEF Inv, MemoryTypeOK, memoryVars, Running, ServiceTypeOK, serviceVars, Moved

LEMMA FaultOK ==
  ASSUME Inv, Ok \/ \E what \in {"call", "statement", "constructor"} : Fault(what)
  PROVE  faults' \in Nat
BY WebAssumption DEF Inv, CountsOK, Ok, Fault

\* The counters of a step of a goroutine.
LEMMA Counted ==
  ASSUME Inv, UNCHANGED bounds, faults' \in Nat, ignored' \in SUBSET Tasks,
         finshed' \in [Tasks -> Nat]
  PROVE  CountsOK'
BY DEF Inv, CountsOK, bounds

\* The same of one that does not write history.
LEMMA CountedOnly ==
  ASSUME Inv, UNCHANGED bounds, UNCHANGED historyVars, faults' \in Nat
  PROVE  CountsOK'
BY DEF Inv, CountsOK, bounds, historyVars

LEMMA StartJobStep ==
  ASSUME Inv, NEW g \in DOMAIN go, NEW r, r = go[g], StartJob(g, r), UNCHANGED <<boot, bounds>>
  PROVE  Sound
<1>1. /\ g \in GoIds /\ r \in Goroutine /\ r.task \in Tasks /\ r.st \in {"waiting", "running"}
      /\ r.to = "running" /\ r.pc = "start"
  BY Itself DEF StartJob, GoodCopy
<1>2. Moved /\ MemoryTypeOK' /\ finshed' \in [Tasks -> Nat]
  BY Frame DEF StartJob, Inv, CountsOK
<1>3. ServiceTypeOK'
  BY <1>1, Frame, AcceptOK DEF StartJob, Inv
<1>4. faults' \in Nat
  BY FaultOK DEF StartJob
<1>5. Fits(Transit(r, "failed"))
  BY <1>1, FitsFailed DEF ActiveStatus
<1>6. ASSUME NEW w \in WorkIds
      PROVE  Fits([r EXCEPT !.work = w, !.pc = IF g \in WaveIds THEN "limit" ELSE "sql"])
  <2> DEFINE q == [r EXCEPT !.work = w, !.pc = IF g \in WaveIds THEN "limit" ELSE "sql"]
  <2>1. /\ q \in Goroutine /\ q.pc \in {"limit", "sql"} /\ q.to = "running" /\ q.st = r.st
    BY <1>1 DEF Goroutine, GoPC
  <2> HIDE DEF q
  <2>2. Arrow(q.st, "running")
    BY <1>1, <2>1 DEF Arrow
  <2>3. Fits(q)
    BY <1>1, <2>1, <2>2, FitsElse DEF GoodCopy
  <2> QED  BY <2>3 DEF q
<1>7. Goroutines' /\ ignored' \in SUBSET Tasks
  <2>1. TableTypeOK /\ OneOutcome /\ Goroutines /\ ignored \in SUBSET Tasks
    BY DEF Inv, Goroutines, CountsOK
  <2>2. ASSUME NEW w \in WorkIds,
               Goto(g, [r EXCEPT !.work = w, !.pc = IF g \in WaveIds THEN "limit" ELSE "sql"]),
               ignored' = ignored \ {r.task}
        PROVE  Goroutines' /\ ignored' \in SUBSET Tasks
    <3>1. Goroutines'
      BY <1>1, <1>2, <1>6, <2>1, <2>2, GotoOK
    <3> QED  BY <3>1, <2>1, <2>2
  <2>3. CASE StartFails(g, r)
    <3>1. ignored' \in SUBSET Tasks /\ (Exit(g) \/ Goto(g, Transit(r, "failed")))
      BY <1>1, <2>1, <2>3 DEF StartFails
    <3>2. Goroutines'
      BY <1>1, <1>2, <1>5, <2>1, <3>1, GotoOK, ExitOK
    <3> QED  BY <3>1, <3>2
  <2> QED  BY <2>2, <2>3 DEF StartJob
<1>8. CountsOK'
  BY <1>2, <1>4, <1>7, Counted
<1> QED  BY <1>2, <1>3, <1>7, <1>8 DEF Sound

\* A step of a goroutine that only moves on or ends.
LEMMA LocalStep ==
  ASSUME Inv, NEW g \in DOMAIN go, UNCHANGED <<boot, bounds>>, UNCHANGED historyVars,
         Moved, MemoryTypeOK', ServiceTypeOK', faults' \in Nat,
         Exit(g) \/ \E q : Fits(q) /\ Goto(g, q)
  PROVE  Sound
<1>1. TableTypeOK /\ OneOutcome /\ Goroutines /\ g \in GoIds
  BY Itself DEF Inv, Goroutines
<1>2. Goroutines'
  BY <1>1, GotoOK, ExitOK
<1>3. CountsOK'
  BY CountedOnly
<1> QED  BY <1>2, <1>3 DEF Sound

LEMMA LimitCheckStep ==
  ASSUME Inv, NEW g \in DOMAIN go, NEW r, r = go[g], LimitCheck(g, r), UNCHANGED <<boot, bounds>>
  PROVE  Sound
<1>1. /\ r \in Goroutine /\ r.st \in {"waiting", "running"}
      /\ r.to = "running" /\ r.pc = "limit"
  BY Itself DEF LimitCheck, GoodCopy
<1>2. Fits([r EXCEPT !.pc = "stop", !.to = "none"])
  <2> DEFINE q == [r EXCEPT !.pc = "stop", !.to = "none"]
  <2>1. q \in Goroutine /\ q.pc = "stop" /\ q.to = "none"
    BY <1>1 DEF Goroutine, GoPC, RowStatus
  <2> HIDE DEF q
  <2>2. Fits(q)
    BY <2>1, FitsElse DEF GoodCopy
  <2> QED  BY <2>2 DEF q
<1>3. Fits([r EXCEPT !.pc = "sql"])
  <2> DEFINE q == [r EXCEPT !.pc = "sql"]
  <2>1. q \in Goroutine /\ q.pc = "sql" /\ q.to = "running" /\ q.st \in {"waiting", "running"}
    BY <1>1 DEF Goroutine, GoPC
  <2> HIDE DEF q
  <2>2. Fits(q)
    BY <2>1, FitsElse DEF GoodCopy, Arrow
  <2> QED  BY <2>2 DEF q
<1>4. Moved /\ MemoryTypeOK' /\ ServiceTypeOK' /\ faults' \in Nat /\ UNCHANGED historyVars
  BY Frame, FaultOK DEF LimitCheck
<1>5. \E q : Fits(q) /\ Goto(g, q)
  BY <1>2, <1>3 DEF LimitCheck
<1> QED  BY <1>4, <1>5, LocalStep

LEMMA LearnFits ==
  ASSUME Inv, NEW g, NEW r \in Goroutine, GoodCopy(r), r.pc = "query", NEW s, Learn(g, r, s)
  PROVE  Exit(g) \/ \E q : Fits(q) /\ Goto(g, q)
<1>1. r.st = "running"
  BY DEF GoodCopy
<1>2. Fits(Transit(r, "failed")) /\ Fits([Transit(r, "failed") EXCEPT !.late = TRUE])
  BY <1>1, FitsFailed DEF ActiveStatus
<1>3. Fits(Transit(r, "exporting"))
  BY <1>1, FitsTransit DEF Arrow, RowStatus
<1>4. ASSUME MayRetry(r)
      PROVE  Fits([r EXCEPT !.pc = "start", !.att = @ + 1, !.to = "running"])
  <2> DEFINE q == [r EXCEPT !.pc = "start", !.att = @ + 1, !.to = "running"]
  <2>1. r.att + 1 \in Attempts
    BY <1>4, TaskAssumption DEF MayRetry, Attempts, Goroutine
  <2>2. q \in Goroutine /\ q.pc = "start" /\ q.to = "running" /\ q.st = "running"
    BY <1>1, <2>1 DEF Goroutine, GoPC, RowStatus
  <2> HIDE DEF q
  <2>3. Fits(q)
    BY <2>2, FitsElse DEF GoodCopy
  <2> QED  BY <2>3 DEF q
<1> QED  BY <1>2, <1>3, <1>4 DEF Learn

LEMMA QueryStep ==
  ASSUME Inv, NEW g \in DOMAIN go, NEW r, r = go[g], GetAsyncTaskStatus(g, r),
         UNCHANGED <<boot, bounds>>
  PROVE  Sound
<1>1. r \in Goroutine /\ GoodCopy(r) /\ r.work \in WorkIds \cup {NoWork} /\ r.pc = "query"
  BY Itself DEF GetAsyncTaskStatus
<1>2. Moved /\ MemoryTypeOK' /\ UNCHANGED historyVars
  BY Frame DEF GetAsyncTaskStatus
<1>3. ServiceTypeOK'
  BY <1>1, Frame, DropOK DEF GetAsyncTaskStatus, Inv
<1>4. faults' \in Nat
  BY FaultOK DEF GetAsyncTaskStatus
<1>5. Exit(g) \/ \E q : Fits(q) /\ Goto(g, q)
  BY <1>1, LearnFits DEF GetAsyncTaskStatus
<1> QED  BY <1>2, <1>3, <1>4, <1>5, LocalStep

LEMMA StopJobStep ==
  ASSUME Inv, NEW g \in DOMAIN go, NEW r, r = go[g], StopJob(g, r), UNCHANGED <<boot, bounds>>
  PROVE  Sound
<1>1. /\ r \in Goroutine /\ r.work \in WorkIds \cup {NoWork}
      /\ r.to = "none" \/ (r.to = "failed" /\ r.st \in ActiveStatus)
  BY Itself DEF StopJob, GoodCopy
<1>2. Moved /\ MemoryTypeOK' /\ UNCHANGED historyVars
  BY Frame DEF StopJob
<1>3. ServiceTypeOK'
  BY <1>1, Frame, CancelOK DEF StopJob, Inv
<1>4. faults' \in Nat
  BY FaultOK DEF StopJob
<1>5. Exit(g) \/ \E q : Fits(q) /\ Goto(g, q)
  BY <1>1, FitsFailed DEF StopJob
<1> QED  BY <1>2, <1>3, <1>4, <1>5, LocalStep

LEMMA OutputStep ==
  ASSUME Inv, NEW g \in DOMAIN go, NEW r, r = go[g], GetOutput(g, r), UNCHANGED <<boot, bounds>>
  PROVE  Sound
<1>1. r \in Goroutine /\ r.pc = "output" /\ r.to = "success" /\ r.st = "exporting"
  BY Itself DEF GetOutput, GoodCopy
<1>2. Moved /\ MemoryTypeOK' /\ ServiceTypeOK' /\ UNCHANGED historyVars
  BY Frame DEF GetOutput
<1>3. faults' \in Nat
  BY FaultOK DEF GetOutput
<1>4. Fits([r EXCEPT !.pc = "save"])
  <2> DEFINE q == [r EXCEPT !.pc = "save"]
  <2>1. q \in Goroutine /\ q.pc = "save" /\ q.to = "success" /\ q.st = "exporting"
    BY <1>1 DEF Goroutine, GoPC
  <2> HIDE DEF q
  <2>2. Fits(q)
    BY <2>1, FitsElse DEF GoodCopy
  <2> QED  BY <2>2 DEF q
<1>5. Fits(Transit(r, "failed"))
  BY <1>1, FitsFailed DEF ActiveStatus
<1>6. \E q : Fits(q) /\ Goto(g, q)
  BY <1>4, <1>5 DEF GetOutput
<1> QED  BY <1>2, <1>3, <1>6, LocalStep

LEMMA SaveStep ==
  ASSUME Inv, NEW g \in DOMAIN go, NEW r, r = go[g], DataPersistence(g, r),
         UNCHANGED <<boot, bounds>>
  PROVE  Sound
<1>1. /\ r \in Goroutine /\ r.st = "exporting" /\ r.to = "success"
      /\ r.task \in Tasks /\ r.work \in WorkIds \cup {NoWork}
  BY Itself DEF DataPersistence, GoodCopy
<1>2. MemoryTypeOK' /\ ServiceTypeOK' /\ UNCHANGED historyVars
  BY Frame DEF DataPersistence
<1>3. Moved
  BY <1>1 DEF DataPersistence, Moved
<1>4. faults' \in Nat
  BY FaultOK DEF DataPersistence
<1>5. Fits(Transit(r, "failed")) /\ Fits(Transit(r, "success"))
  BY <1>1, FitsTransit DEF Arrow, RowStatus, ActiveStatus
<1>6. \E q : Fits(q) /\ Goto(g, q)
  BY <1>5 DEF DataPersistence
<1> QED  BY <1>2, <1>3, <1>4, <1>6, LocalStep

LEMMA SqlStep ==
  ASSUME Inv, NEW g \in DOMAIN go, NEW r, r = go[g], Sql(g, r), UNCHANGED <<boot, bounds>>
  PROVE  Sound
<1>1. /\ r \in Goroutine /\ r.pc = "sql" /\ Arrow(r.st, r.to)
      /\ r.task \in Tasks /\ r.work \in WorkIds \cup {NoWork}
      /\ r.st \in RowStatus /\ r.to \in RowStatus \cup {"delete"}
  BY Itself DEF Sql, GoodCopy
<1>2. MemoryTypeOK' /\ ServiceTypeOK' /\ UNCHANGED historyVars
  BY Frame DEF Sql
<1>3. Moved
  BY <1>1 DEF Sql, Moved
<1>4. faults' \in Nat
  BY FaultOK DEF Sql
<1>5. ASSUME r.to # "delete"
      PROVE  Fits([r EXCEPT !.pc = "mem", !.st = r.to])
  <2> DEFINE q == [r EXCEPT !.pc = "mem", !.st = r.to]
  <2>1. q \in Goroutine /\ q.pc = "mem" /\ q.st = q.to
    BY <1>1, <1>5 DEF Goroutine, GoPC
  <2> HIDE DEF q
  <2>2. Fits(q)
    BY <2>1, FitsElse DEF GoodCopy
  <2> QED  BY <2>2 DEF q
<1>6. ASSUME SqlFails(g, r)
      PROVE  Exit(g) \/ \E q : Fits(q) /\ Goto(g, q)
  <2>1. CASE r.to = "running"
    <3> DEFINE q == [r EXCEPT !.pc = "stop", !.to = "failed"]
    <3>1. q \in Goroutine /\ q.pc = "stop" /\ q.to = "failed" /\ q.st \in ActiveStatus
      BY <1>1, <2>1 DEF Goroutine, GoPC, RowStatus, Arrow, ActiveStatus
    <3>2. Goto(g, q)
      BY <1>6, <2>1 DEF SqlFails
    <3> HIDE DEF q
    <3>3. Fits(q)
      BY <3>1, FitsElse DEF GoodCopy
    <3> QED  BY <3>2, <3>3
  <2>2. CASE r.to \in {"exporting", "success"}
    <3>1. Fits(Transit(r, "failed"))
      BY <1>1, <2>2, FitsFailed DEF Arrow, ActiveStatus
    <3> QED  BY <3>1, <2>2, <1>6 DEF SqlFails
  <2>3. CASE r.to \notin {"running", "exporting", "success"}
    BY <2>3, <1>6 DEF SqlFails
  <2> QED  BY <2>1, <2>2, <2>3
<1>7. Exit(g) \/ \E q : Fits(q) /\ Goto(g, q)
  BY <1>5, <1>6 DEF Sql
<1> QED  BY <1>2, <1>3, <1>4, <1>7, LocalStep

LEMMA MemoryStep ==
  ASSUME Inv, NEW g \in DOMAIN go, NEW r, r = go[g], Memory(g, r), UNCHANGED <<boot, bounds>>
  PROVE  Sound
<1>1. /\ r \in Goroutine /\ r.pc = "mem" /\ r.st = r.to
      /\ r.task \in Tasks /\ r.work \in WorkIds \cup {NoWork} /\ r.att \in Attempts
  BY Itself DEF Memory, GoodCopy
<1>2. Moved /\ ServiceTypeOK' /\ faults' \in Nat
  BY Frame, FaultOK DEF Memory
<1>3. MemoryTypeOK'
  BY <1>1, EnterOK, LeaveOK DEF Memory, Inv
<1>4. TableTypeOK /\ OneOutcome /\ Goroutines /\ g \in GoIds
  BY Itself DEF Inv, Goroutines
<1>5. Fits([r EXCEPT !.pc = "stop", !.to = "none"])
  <2> DEFINE q == [r EXCEPT !.pc = "stop", !.to = "none"]
  <2>1. q \in Goroutine /\ q.pc = "stop" /\ q.to = "none"
    BY <1>1 DEF Goroutine, GoPC, RowStatus
  <2> HIDE DEF q
  <2>2. Fits(q)
    BY <2>1, FitsElse DEF GoodCopy
  <2> QED  BY <2>2 DEF q
<1>6. ASSUME NEW e \in ExportIds, r.to = "exporting",
             go' = Put(Without(go, g), e, [r EXCEPT !.pc = "output", !.to = "success"])
      PROVE  Goroutines'
  <2> DEFINE q == [r EXCEPT !.pc = "output", !.to = "success"]
  <2>1. q \in Goroutine /\ q.pc = "output" /\ q.to = "success" /\ q.st = "exporting"
    BY <1>1, <1>6 DEF Goroutine, GoPC, RowStatus
  <2>2. go' = Put(Without(go, g), e, q) /\ e \in GoIds
    BY <1>6 DEF GoIds
  <2> HIDE DEF q
  <2>3. /\ DOMAIN go' = (DOMAIN go \ {g}) \cup {e}
        /\ \A h \in DOMAIN go' : go'[h] = IF h = e THEN q ELSE go[h]
    BY <2>2 DEF Put, Without, Restrict
  <2>4. GoodCopy(q)
    BY <2>1 DEF GoodCopy
  <2>5. GoOK'
    BY <2>1, <2>2, <2>3, <2>4, <1>4 DEF GoOK, Goroutines, GoodCopy, Arrow
  <2>6. rows' = rows
    BY DEF Memory, tableVars
  <2>7. Known'
    BY <2>1, <2>3, <2>6, <1>4 DEF Known, Goroutines
  <2> QED  BY <2>5, <2>7 DEF Goroutines
<1>7. ASSUME Exit(g) \/ Goto(g, [r EXCEPT !.pc = "stop", !.to = "none"])
      PROVE  Goroutines'
  BY <1>2, <1>4, <1>5, <1>7, GotoOK, ExitOK
<1>8. Goroutines'
  BY <1>6, <1>7 DEF Memory
<1>9. CountsOK'
  <2>1. finshed' \in [Tasks -> Nat] /\ ignored' \in SUBSET Tasks
    BY DEF Memory, Inv, CountsOK
  <2> QED  BY <2>1, <1>2, Counted
<1> QED  BY <1>2, <1>3, <1>8, <1>9 DEF Sound

LEMMA AddTaskStep ==
  ASSUME Inv, NEW g \in DOMAIN go, NEW r, r = go[g], AddTask(g, r), UNCHANGED <<boot, bounds>>
  PROVE  Sound
<1>1. /\ r \in Goroutine /\ r.task \in Tasks
      /\ r.pc \in {"push", "upsert"} => rows[r.task].status # "none"
  BY Itself
<1>2. ServiceTypeOK' /\ UNCHANGED historyVars
  BY Frame DEF AddTask
<1>3. MemoryTypeOK'
  BY <1>1, AddOK, LeaveOK, Frame DEF AddTask, Inv
<1>4. Moved
  BY <1>1 DEF AddTask, Moved
<1>5. faults' \in Nat
  BY FaultOK DEF AddTask
<1>6. ASSUME r.pc = "push"
      PROVE  Fits([r EXCEPT !.pc = "upsert"])
  <2> DEFINE q == [r EXCEPT !.pc = "upsert"]
  <2>1. q \in Goroutine /\ q.pc = "upsert" /\ q.task = r.task
    BY <1>1 DEF Goroutine, GoPC
  <2> HIDE DEF q
  <2>2. Fits(q)
    BY <2>1, <1>1, <1>6 DEF Fits, GoodCopy
  <2> QED  BY <2>2 DEF q
<1>7. Fits([r EXCEPT !.pc = "undo"])
  <2> DEFINE q == [r EXCEPT !.pc = "undo"]
  <2>1. q \in Goroutine /\ q.pc = "undo"
    BY <1>1 DEF Goroutine, GoPC
  <2> HIDE DEF q
  <2>2. Fits(q)
    BY <2>1, FitsElse DEF GoodCopy
  <2> QED  BY <2>2 DEF q
<1>8. Exit(g) \/ \E q : Fits(q) /\ Goto(g, q)
  BY <1>6, <1>7 DEF AddTask
<1> QED  BY <1>2, <1>3, <1>4, <1>5, <1>8, LocalStep

\* Goroutines are launched, next to those that exist.
LEMMA SpawnOK ==
  ASSUME Goroutines, UNCHANGED rows, NEW S \in SUBSET GoIds, NEW f, \A g \in S : Fits(f[g]),
         go' = [g \in DOMAIN go \cup S |-> IF g \in DOMAIN go THEN go[g] ELSE f[g]]
  PROVE  Goroutines'
<1>1. /\ DOMAIN go' = DOMAIN go \cup S
      /\ \A g \in DOMAIN go' : go'[g] = IF g \in DOMAIN go THEN go[g] ELSE f[g]
  OBVIOUS
<1>2. GoOK'
  BY <1>1 DEF GoOK, Goroutines, Fits, GoodCopy, Arrow
<1>3. Known'
  BY <1>1 DEF Known, Goroutines, Fits
<1> QED  BY <1>2, <1>3 DEF Goroutines

LEMMA ScheduleOnceStep ==
  ASSUME Inv, ScheduleOnce
  PROVE  Sound
<1> DEFINE k == IF FreeSlots < Len(waitingTasks) THEN FreeSlots ELSE Len(waitingTasks)
           wave == {"wave"} \X ((1..k) \ Ignored(k))
           f == [g \in wave |-> New("start", waitingTasks[g[2]], NoWork, 0, "waiting", "running")]
<1>1. /\ k > 0 /\ TakeWaiting(k) /\ UNCHANGED boot
      /\ go' = [g \in DOMAIN go \cup wave |-> IF g \in DOMAIN go THEN go[g] ELSE f[g]]
  BY DEF ScheduleOnce
<1>2. Moved /\ ServiceTypeOK' /\ rows' = rows
  BY Frame DEF ScheduleOnce, tableVars
<1>3. waitingTasks \in Seq(Tasks) /\ Len(waitingTasks) \in Nat
  BY DEF Inv, MemoryTypeOK
<1>4. Cardinality(Running) \in Nat
  BY FS_Subset, FS_CardinalityType, TaskAssumption DEF Inv, MemoryTypeOK
<1>5. k \in Nat /\ k <= Len(waitingTasks) /\ k <= TaskLimit
  BY <1>1, <1>3, <1>4, CombinationAssumption DEF FreeSlots
<1>6. MemoryTypeOK'
  BY <1>1, <1>5, TakeOK DEF Inv
<1>7. wave \in SUBSET GoIds
  BY <1>5, CombinationAssumption DEF GoIds, WaveIds
<1>8. ASSUME NEW g \in wave
      PROVE  Fits(f[g])
  <2>1. waitingTasks[g[2]] \in Tasks
    BY <1>3, <1>5
  <2>2. f[g] = New("start", waitingTasks[g[2]], NoWork, 0, "waiting", "running")
    OBVIOUS
  <2>3. /\ "start" \in GoPC /\ NoWork \in WorkIds \cup {NoWork} /\ 0 \in Attempts
        /\ "waiting" \in RowStatus /\ "running" \in RowStatus \cup {"delete"}
    BY TaskAssumption DEF GoPC, Attempts, RowStatus
  <2> HIDE DEF f, wave, k
  <2>4. f[g] \in Goroutine /\ f[g].pc = "start" /\ f[g].st = "waiting" /\ f[g].to = "running"
    BY <2>1, <2>2, <2>3, NewOK
  <2> QED  BY <2>4, FitsElse DEF GoodCopy
<1>9. Goroutines'
  <2> HIDE DEF f, wave, k
  <2> QED  BY <1>1, <1>2, <1>7, <1>8, SpawnOK DEF Inv, Goroutines
<1>10. CountsOK'
  BY DEF ScheduleOnce, Inv, CountsOK, historyVars, bounds
<1> QED  BY <1>2, <1>6, <1>9, <1>10 DEF Sound

LEMMA UpdateOnceStep ==
  ASSUME Inv, UpdateOnce
  PROVE  Sound
<1> DEFINE S == {"poll"} \X Running
           f == [g \in S |-> LET e == runningTaskMap[g[2]]
                             IN New("query", g[2], e.work, e.att, "running", "failed")]
<1>1. go' = [g \in DOMAIN go \cup S |-> IF g \in DOMAIN go THEN go[g] ELSE f[g]]
  BY DEF UpdateOnce
<1>2. Moved /\ MemoryTypeOK' /\ ServiceTypeOK' /\ rows' = rows
  BY Frame DEF UpdateOnce, tableVars
<1>3. S \in SUBSET GoIds
  BY DEF GoIds, PollIds, Inv, MemoryTypeOK
<1>4. ASSUME NEW g \in S
      PROVE  Fits(f[g])
  <2>1. g[2] \in Running /\ g[2] \in Tasks
    BY DEF Inv, MemoryTypeOK
  <2>2. /\ runningTaskMap[g[2]].work \in WorkIds \cup {NoWork}
        /\ runningTaskMap[g[2]].att \in Attempts
    BY <2>1 DEF Inv, MemoryTypeOK
  <2>3. /\ "query" \in GoPC /\ "running" \in RowStatus /\ "failed" \in RowStatus \cup {"delete"}
    BY DEF GoPC, RowStatus
  <2>4. f[g] = New("query", g[2], runningTaskMap[g[2]].work, runningTaskMap[g[2]].att,
                   "running", "failed")
    OBVIOUS
  <2> HIDE DEF f, S
  <2>5. f[g] \in Goroutine /\ f[g].pc = "query" /\ f[g].st = "running"
    BY <2>1, <2>2, <2>3, <2>4, NewOK
  <2> QED  BY <2>5, FitsElse DEF GoodCopy
<1>5. Goroutines'
  <2> HIDE DEF f, S
  <2> QED  BY <1>1, <1>2, <1>3, <1>4, SpawnOK DEF Inv, Goroutines
<1>6. CountsOK'
  BY DEF UpdateOnce, Inv, CountsOK, historyVars, bounds
<1> QED  BY <1>2, <1>5, <1>6 DEF Sound

LEMMA RequestStep ==
  ASSUME Inv, NEW t \in Tasks, NEW op \in Operations, NEW g \in RequestIds, Request(t, op, g)
  PROVE  Sound
<1>1. /\ rows[t] \in Row /\ rows[t].status \in RowStatus /\ rows[t].status # "none"
      /\ rows[t].work \in WorkIds \cup {NoWork}
  BY DEF Request, Live, Inv, TableTypeOK, Row
<1>2. Moved /\ MemoryTypeOK' /\ ServiceTypeOK'
  BY Frame DEF Request
<1>3. /\ "push" \in GoPC /\ "sql" \in GoPC /\ 0 \in Attempts
      /\ "waiting" \in RowStatus \cup {"delete"} /\ "stoped" \in RowStatus \cup {"delete"}
      /\ "delete" \in RowStatus \cup {"delete"}
  BY TaskAssumption DEF GoPC, Attempts, RowStatus
<1>4. rows[t].status \in Accepted(op)
  BY DEF Request
<1>5. ASSUME NEW pc \in {"push", "sql"}, NEW to \in {"waiting", "stoped", "delete"}
       PROVE  /\ New(pc, t, rows[t].work, 0, rows[t].status, to) \in Goroutine
              /\ New(pc, t, rows[t].work, 0, rows[t].status, to).pc = pc
              /\ New(pc, t, rows[t].work, 0, rows[t].status, to).task = t
              /\ New(pc, t, rows[t].work, 0, rows[t].status, to).st = rows[t].status
              /\ New(pc, t, rows[t].work, 0, rows[t].status, to).to = to
  <2> DEFINE w == rows[t].work  st == rows[t].status
  <2>1. w \in WorkIds \cup {NoWork} /\ st \in RowStatus
    BY <1>1
  <2> HIDE DEF w, st
  <2>2. pc \in GoPC /\ to \in RowStatus \cup {"delete"} /\ 0 \in Attempts
    BY <1>3
  <2>3. /\ New(pc, t, w, 0, st, to) \in Goroutine /\ New(pc, t, w, 0, st, to).pc = pc
        /\ New(pc, t, w, 0, st, to).task = t /\ New(pc, t, w, 0, st, to).st = st
        /\ New(pc, t, w, 0, st, to).to = to
    BY <2>1, <2>2, NewOK
  <2> QED  BY <2>3 DEF w, st
<1>6. ASSUME op \in {"start", "restart"}
      PROVE  Fits(Handler(op, t))
  <2>1. Handler(op, t) = New("push", t, rows[t].work, 0, rows[t].status, "waiting")
    BY <1>6 DEF Handler
  <2>2. /\ Handler(op, t) \in Goroutine /\ Handler(op, t).pc = "push"
        /\ Handler(op, t).task = t
    BY <2>1, <1>5
  <2>3. Fits(Handler(op, t))
    BY <2>2, <1>1 DEF Fits, GoodCopy
  <2> QED  BY <2>3
<1>7. ASSUME op = "stop"
      PROVE  Fits(Handler(op, t))
  <2> DEFINE n == New("sql", t, rows[t].work, 0, rows[t].status, "stoped")
             q == [n EXCEPT !.late = (rows[t].status = "running")]
  <2>1. /\ n \in Goroutine /\ n.pc = "sql" /\ n.st = rows[t].status /\ n.to = "stoped"
    BY <1>5
  <2>2. Handler(op, t) = q
    BY <1>7 DEF Handler
  <2> HIDE DEF n
  <2>3. q \in Goroutine /\ q.pc = "sql" /\ q.st = rows[t].status /\ q.to = "stoped"
    BY <2>1 DEF Goroutine
  <2> HIDE DEF q
  <2>4. Arrow(q.st, q.to)
    BY <2>3, <1>4, <1>7 DEF Accepted, Arrow
  <2>5. Fits(q)
    BY <2>3, <2>4, FitsElse DEF GoodCopy
  <2> QED  BY <2>2, <2>5
<1>8. ASSUME op = "delete"
      PROVE  Fits(Handler(op, t))
  <2> DEFINE n == New("sql", t, rows[t].work, 0, rows[t].status, "delete")
  <2>1. /\ n \in Goroutine /\ n.pc = "sql" /\ n.st = rows[t].status /\ n.to = "delete"
    BY <1>5
  <2>2. Handler(op, t) = n
    BY <1>8 DEF Handler
  <2> HIDE DEF n
  <2>3. Arrow(n.st, n.to)
    BY <2>1, <1>1, <1>4, <1>8 DEF Accepted, Arrow, ActiveStatus
  <2>4. Fits(n)
    BY <2>1, <2>3, FitsElse DEF GoodCopy
  <2> QED  BY <2>2, <2>4
<1>9. Fits(Handler(op, t)) /\ Goto(g, Handler(op, t)) /\ g \in GoIds
  BY <1>6, <1>7, <1>8, WebAssumption DEF Request, GoIds
<1>10. Goroutines'
  BY <1>2, <1>9, GotoOK DEF Inv, Goroutines
<1>11. CountsOK'
  BY DEF Request, Inv, CountsOK, historyVars
<1> QED  BY <1>2, <1>10, <1>11 DEF Sound

LEMMA CreateStep ==
  ASSUME Inv, NEW t \in Tasks, CreateTask(t)
  PROVE  Sound
<1>1. Moved /\ MemoryTypeOK' /\ ServiceTypeOK'
  BY Frame DEF CreateTask, Moved
<1>2. Goroutines'
  BY <1>1, StayOK DEF CreateTask, Inv, Goroutines
<1>3. CountsOK'
  BY DEF CreateTask, Inv, CountsOK, historyVars, bounds
<1> QED  BY <1>1, <1>2, <1>3 DEF Sound

LEMMA CutWorkStep ==
  ASSUME Inv, NEW w \in WorkIds, Cut(w)
  PROVE  Sound
<1>1. Moved /\ MemoryTypeOK' /\ ServiceTypeOK'
  BY Frame, CutOK DEF Cut, Inv
<1>2. Goroutines'
  BY <1>1, StayOK DEF Cut, Inv, Goroutines
<1>3. CountsOK'
  BY DEF Cut, Inv, CountsOK, historyVars, bounds
<1> QED  BY <1>1, <1>2, <1>3 DEF Sound

LEMMA CrashStep ==
  ASSUME Inv, Crash
  PROVE  Sound
<1>1. Moved /\ ServiceTypeOK'
  BY Frame, DiesOK DEF Crash, Inv
<1>2. MemoryTypeOK'
  BY DEF Crash, MemoryTypeOK, Running, Empty
<1>3. Goroutines'
  BY DEF Crash, Goroutines, GoOK, Known, Empty
<1>4. CountsOK'
  BY DEF Crash, Inv, CountsOK, historyVars
<1> QED  BY <1>1, <1>2, <1>3, <1>4 DEF Sound

LEMMA BootStep ==
  ASSUME Inv, Boot
  PROVE  Sound
<1>1. Moved /\ ServiceTypeOK' /\ faults' \in Nat
  BY Frame, FaultOK DEF Boot
<1>2. MemoryTypeOK'
  <2>1. CASE RecoverRunning \/ RecoverWaiting
    BY <2>1, RecoverRunningOK, RecoverWaitingOK DEF Inv
  <2>2. CASE boot' = "up" /\ UNCHANGED memoryVars
    BY <2>2 DEF Inv, MemoryTypeOK, memoryVars, Running
  <2> QED  BY <2>1, <2>2 DEF Boot
<1>3. Goroutines'
  BY <1>1, StayOK DEF Boot, Inv, Goroutines
<1>4. CountsOK'
  BY <1>1, CountedOnly DEF Boot
<1> QED  BY <1>1, <1>2, <1>3, <1>4 DEF Sound

LEMMA GoroutineStep ==
  ASSUME Inv, NEW g \in GoIds, Step(g)
  PROVE  Sound
<1> DEFINE r == go[g]
<1>1. g \in DOMAIN go /\ UNCHANGED <<boot, bounds>>
  BY DEF Step
<1>2. \/ StartJob(g, r) \/ LimitCheck(g, r) \/ GetAsyncTaskStatus(g, r) \/ StopJob(g, r)
      \/ GetOutput(g, r) \/ DataPersistence(g, r) \/ Sql(g, r) \/ Memory(g, r) \/ AddTask(g, r)
  BY DEF Step
<1> QED
  BY <1>1, <1>2, StartJobStep, LimitCheckStep, QueryStep, StopJobStep, OutputStep, SaveStep,
    SqlStep, MemoryStep, AddTaskStep

-----------------------------------------------------------------------------
(* The theorems.                                                           *)

LEMMA StillSound ==
  ASSUME Inv, UNCHANGED vars
  PROVE  Sound
<1>1. Moved /\ MemoryTypeOK' /\ ServiceTypeOK'
  BY Frame DEF vars
<1>2. Goroutines'
  BY <1>1, StayOK DEF vars, Inv, Goroutines
<1>3. CountsOK'
  BY DEF vars, Inv, CountsOK, historyVars, bounds
<1> QED  BY <1>1, <1>2, <1>3 DEF Sound

LEMMA EveryStep ==
  ASSUME Inv, [Next]_vars
  PROVE  Sound
BY StillSound, ScheduleOnceStep, UpdateOnceStep, CrashStep, BootStep, CreateStep, RequestStep,
  GoroutineStep, CutWorkStep DEF Next

LEMMA InitInv == Init => Inv
<1> SUFFICES ASSUME Init PROVE Inv
  OBVIOUS
<1>1. TableTypeOK /\ NoGhost /\ OneOutcome
  BY DEF Init, TableInit, TableTypeOK, NoGhost, OneOutcome, Row, RowStatus, ActiveStatus
<1>2. MemoryTypeOK
  BY DEF Init, MemoryInit, MemoryTypeOK, Running, Empty
<1>3. ServiceTypeOK
  BY DEF Init, ServiceInit, ServiceTypeOK, JobStatus, CutPC
<1>4. GoOK /\ Known /\ CountsOK
  BY DEF Init, GoOK, Known, CountsOK, Empty
<1> QED  BY <1>1, <1>2, <1>3, <1>4 DEF Inv

\* The invariant holds in every configuration, through faults and crashes.
THEOREM InvHolds == Safety => []Inv
<1>1. Init => Inv
  BY InitInv
<1>2. Inv /\ [Next]_vars => Inv'
  BY EveryStep, SoundKeepsInv
<1> QED  BY <1>1, <1>2, PTL DEF Safety

\* Types: in every configuration, through faults and crashes, every variable and every
\* goroutine's copy of a task keeps its type; above all, attempts never pass the limit.
THEOREM WebTypeCorrect == Safety => []WebTypeOK
<1>1. Inv => WebTypeOK
  BY DEF Inv, WebTypeOK, GoOK, CountsOK
<1> QED  BY <1>1, InvHolds, PTL

\* A task comes to an end, and is under way, no more often than it was added, however
\* many users, faults, retries and crashes there are.
THEOREM OneEndPerStart == Safety => []OneOutcome
<1>1. Inv => OneOutcome
  BY DEF Inv
<1> QED  BY <1>1, InvHolds, PTL

\* The table moves along the arrows of RowLifecycle, through faults and crashes: the
\* program with its goroutines, memory and messages implements it.
THEOREM RowsImplement == Safety => RowsLive
<1>1. Init => Lifecycle!Init
  BY DEF Init, TableInit, Lifecycle!Init
<1>2. Inv /\ [Next]_vars => [Lifecycle!Next]_<<Statuses, Deleted>>
  BY EveryStep, MovedRefines DEF Sound, Inv
<1> QED
  BY <1>1, <1>2, InvHolds, PTL DEF Safety, RowsLive, Lifecycle!Spec, Statuses, Deleted

-----------------------------------------------------------------------------
(* finshed is called for no outcome that is not in the table, for any set  *)
(* of tasks, limits, sizes and number of users, faults and crashes.        *)

\* the goroutines that have written an outcome of a task and will call finshed
Reporting(t) == {g \in DOMAIN go :
  go[g].pc = "mem" /\ go[g].to \in Outcomes /\ go[g].task = t}

\* every call of finshed, made or to come, has its outcome in the table
ReportInv == \A t \in Tasks : finshed[t] + Cardinality(Reporting(t)) <= ended[t]

-----------------------------------------------------------------------------
(* Counting.                                                               *)

LEMMA GoIdsFinite == IsFiniteSet(GoIds)
<1>1. /\ TaskLimit \in Nat /\ MaxExports \in Nat /\ Clients \in Nat /\ IsFiniteSet(Tasks)
  BY CombinationAssumption, WebAssumption, TaskAssumption
<1>2. /\ IsFiniteSet(1..TaskLimit) /\ IsFiniteSet(1..MaxExports) /\ IsFiniteSet(1..Clients)
  BY <1>1, FS_Interval
<1>3. IsFiniteSet({"wave"}) /\ IsFiniteSet({"poll"}) /\ IsFiniteSet({"export"}) /\ IsFiniteSet({"request"})
  BY FS_Singleton
<1>4. /\ IsFiniteSet(WaveIds) /\ IsFiniteSet(PollIds)
      /\ IsFiniteSet(ExportIds) /\ IsFiniteSet(RequestIds)
  BY <1>1, <1>2, <1>3, FS_Product DEF WaveIds, PollIds, ExportIds, RequestIds
<1> QED  BY <1>4, FS_Union DEF GoIds

LEMMA ReportingFinite ==
  ASSUME GoOK, NEW t \in Tasks
  PROVE  IsFiniteSet(Reporting(t)) /\ Cardinality(Reporting(t)) \in Nat
BY GoIdsFinite, FS_Subset, FS_CardinalityType DEF GoOK, Reporting

\* no goroutine is newly about to report
NoneNew == \A h \in DOMAIN go' : (h \in DOMAIN go /\ go'[h] = go[h]) \/ go'[h].pc # "mem"

EndsStay == \A t \in Tasks : ended[t] <= ended'[t]

\* A step after which none is.
LEMMA QuietReport ==
  ASSUME Inv, Inv', ReportInv, NoneNew, EndsStay, finshed' = finshed
  PROVE  ReportInv'
<1> SUFFICES ASSUME NEW t \in Tasks
             PROVE  finshed'[t] + Cardinality(Reporting(t)') <= ended'[t]
  BY DEF ReportInv
<1>1. Reporting(t)' \subseteq Reporting(t)
  BY DEF Reporting, NoneNew
<1>2. Cardinality(Reporting(t)') <= Cardinality(Reporting(t))
      /\ Cardinality(Reporting(t)') \in Nat /\ Cardinality(Reporting(t)) \in Nat
  BY <1>1, ReportingFinite, FS_Subset, FS_CardinalityType DEF Inv
<1>3. finshed[t] \in Nat /\ ended[t] \in Nat /\ ended'[t] \in Nat
  BY DEF Inv, CountsOK, TableTypeOK
<1>4. finshed[t] + Cardinality(Reporting(t)) <= ended[t] /\ ended[t] <= ended'[t]
  BY DEF ReportInv, EndsStay
<1> QED  BY <1>2, <1>3, <1>4

-----------------------------------------------------------------------------
(* The steps.                                                              *)

\* A goroutine ends, or goes on to something else than to report.
LEMMA GoesQuietly ==
  ASSUME NEW g, Exit(g) \/ \E q : q.pc # "mem" /\ Goto(g, q)
  PROVE  NoneNew
<1>1. CASE Exit(g)
  BY <1>1 DEF Exit, Without, Restrict, NoneNew
<1>2. ASSUME NEW q, q.pc # "mem", Goto(g, q)
      PROVE  NoneNew
  <2>1. /\ DOMAIN go' = DOMAIN go \cup {g}
        /\ \A h \in DOMAIN go' : go'[h] = IF h = g THEN q ELSE go[h]
    BY <1>2 DEF Goto, Put
  <2> QED  BY <2>1, <1>2 DEF NoneNew
<1> QED  BY <1>1, <1>2

LEMMA SpawnsQuietly ==
  ASSUME NEW S, NEW f, \A g \in S : f[g].pc # "mem",
         go' = [g \in DOMAIN go \cup S |-> IF g \in DOMAIN go THEN go[g] ELSE f[g]]
  PROVE  NoneNew
BY DEF NoneNew

LEMMA StaysQuietly ==
  ASSUME go' = go
  PROVE  NoneNew
BY DEF NoneNew

LEMMA SameEnds ==
  ASSUME Inv, UNCHANGED tableVars \/ ended' = ended
  PROVE  EndsStay
BY DEF Inv, TableTypeOK, tableVars, EndsStay

\* A transition is not a report yet.
LEMMA TransitQuiet ==
  ASSUME NEW r \in Goroutine, NEW to
  PROVE  Transit(r, to).pc # "mem" /\ [Transit(r, to) EXCEPT !.late = TRUE].pc # "mem"
BY DEF Transit, Goroutine

LEMMA StartJobQuiet ==
  ASSUME Inv, NEW g \in DOMAIN go, NEW r, r = go[g], StartJob(g, r)
  PROVE  NoneNew /\ EndsStay /\ finshed' = finshed
<1>1. r \in Goroutine
  BY Itself
<1>2. ASSUME NEW w
      PROVE  [r EXCEPT !.work = w, !.pc = IF g \in WaveIds THEN "limit" ELSE "sql"].pc # "mem"
  BY <1>1 DEF Goroutine
<1>3. Exit(g) \/ \E q : q.pc # "mem" /\ Goto(g, q)
  BY <1>1, <1>2, TransitQuiet DEF StartJob, StartFails
<1> QED  BY <1>3, GoesQuietly, SameEnds DEF StartJob

LEMMA LimitCheckQuiet ==
  ASSUME Inv, NEW g \in DOMAIN go, NEW r, r = go[g], LimitCheck(g, r)
  PROVE  NoneNew /\ EndsStay /\ finshed' = finshed
<1>1. r \in Goroutine
  BY Itself
<1>2. /\ [r EXCEPT !.pc = "stop", !.to = "none"].pc # "mem"
      /\ [r EXCEPT !.pc = "sql"].pc # "mem"
  BY <1>1 DEF Goroutine
<1>3. \E q : q.pc # "mem" /\ Goto(g, q)
  BY <1>2 DEF LimitCheck
<1> QED  BY <1>3, GoesQuietly, SameEnds DEF LimitCheck, historyVars

LEMMA QueryQuiet ==
  ASSUME Inv, NEW g \in DOMAIN go, NEW r, r = go[g], GetAsyncTaskStatus(g, r)
  PROVE  NoneNew /\ EndsStay /\ finshed' = finshed
<1>1. r \in Goroutine
  BY Itself
<1>2. [r EXCEPT !.pc = "start", !.att = @ + 1, !.to = "running"].pc # "mem"
  BY <1>1 DEF Goroutine
<1>3. ASSUME NEW s, Learn(g, r, s)
      PROVE  Exit(g) \/ \E q : q.pc # "mem" /\ Goto(g, q)
  BY <1>1, <1>2, <1>3, TransitQuiet DEF Learn
<1>4. Exit(g) \/ \E q : q.pc # "mem" /\ Goto(g, q)
  BY <1>3 DEF GetAsyncTaskStatus
<1> QED  BY <1>4, GoesQuietly, SameEnds DEF GetAsyncTaskStatus, historyVars

LEMMA StopJobQuiet ==
  ASSUME Inv, NEW g \in DOMAIN go, NEW r, r = go[g], StopJob(g, r)
  PROVE  NoneNew /\ EndsStay /\ finshed' = finshed
<1>1. Exit(g) \/ \E q : q.pc # "mem" /\ Goto(g, q)
  BY Itself, TransitQuiet DEF StopJob
<1> QED  BY <1>1, GoesQuietly, SameEnds DEF StopJob, historyVars

LEMMA OutputQuiet ==
  ASSUME Inv, NEW g \in DOMAIN go, NEW r, r = go[g], GetOutput(g, r)
  PROVE  NoneNew /\ EndsStay /\ finshed' = finshed
<1>1. r \in Goroutine
  BY Itself
<1>2. [r EXCEPT !.pc = "save"].pc # "mem"
  BY <1>1 DEF Goroutine
<1>3. \E q : q.pc # "mem" /\ Goto(g, q)
  BY <1>1, <1>2, TransitQuiet DEF GetOutput
<1> QED  BY <1>3, GoesQuietly, SameEnds DEF GetOutput, historyVars

LEMMA SaveQuiet ==
  ASSUME Inv, NEW g \in DOMAIN go, NEW r, r = go[g], DataPersistence(g, r)
  PROVE  NoneNew /\ EndsStay /\ finshed' = finshed
<1>1. \E q : q.pc # "mem" /\ Goto(g, q)
  BY Itself, TransitQuiet DEF DataPersistence
<1>2. ended' = ended
  BY DEF DataPersistence, SaveOutput, tableVars
<1> QED  BY <1>1, <1>2, GoesQuietly, SameEnds DEF DataPersistence, historyVars

LEMMA AddTaskQuiet ==
  ASSUME Inv, NEW g \in DOMAIN go, NEW r, r = go[g], AddTask(g, r)
  PROVE  NoneNew /\ EndsStay /\ finshed' = finshed
<1>1. r \in Goroutine
  BY Itself
<1>2. [r EXCEPT !.pc = "upsert"].pc # "mem" /\ [r EXCEPT !.pc = "undo"].pc # "mem"
  BY <1>1 DEF Goroutine
<1>3. Exit(g) \/ \E q : q.pc # "mem" /\ Goto(g, q)
  BY <1>2 DEF AddTask
<1>4. ended' = ended
  BY DEF AddTask, Upsert, tableVars
<1> QED  BY <1>3, <1>4, GoesQuietly, SameEnds DEF AddTask, historyVars

\* An outcome is written, and is to be reported, or it is not known that it was written.
LEMMA SqlReports ==
  ASSUME Inv, Inv', ReportInv, NEW g \in DOMAIN go, NEW r, r = go[g], Sql(g, r)
  PROVE  ReportInv'
<1>1. /\ r \in Goroutine /\ r.task \in Tasks /\ r.pc = "sql"
  BY Itself DEF Sql
<1>2. finshed' = finshed /\ ended \in [Tasks -> Nat] /\ ended' \in [Tasks -> Nat]
      /\ finshed \in [Tasks -> Nat]
  BY DEF Sql, historyVars, Inv, CountsOK, TableTypeOK
<1>3. EndsStay
  <2>1. CASE UNCHANGED tableVars
    BY <2>1, SameEnds
  <2>2. CASE Update(r.task, r.to, r.work)
    BY <2>2, <1>2 DEF Update, EndsStay
  <2> QED  BY <2>1, <2>2 DEF Sql
<1>4. ASSUME SqlFails(g, r) \/ Exit(g)
      PROVE  ReportInv'
  <2>1. [r EXCEPT !.pc = "stop", !.to = "failed"].pc # "mem"
    BY <1>1 DEF Goroutine
  <2>2. Exit(g) \/ \E q : q.pc # "mem" /\ Goto(g, q)
    BY <1>1, <1>4, <2>1, TransitQuiet DEF SqlFails
  <2> QED  BY <2>2, <1>2, <1>3, GoesQuietly, QuietReport
<1>5. ASSUME Update(r.task, r.to, r.work), Goto(g, [r EXCEPT !.pc = "mem", !.st = r.to])
      PROVE  ReportInv'
  <2> DEFINE q == [r EXCEPT !.pc = "mem", !.st = r.to]
  <2>1. q.pc = "mem" /\ q.to = r.to /\ q.task = r.task
    BY <1>1 DEF Goroutine
  <2>2. /\ DOMAIN go' = DOMAIN go
        /\ \A h \in DOMAIN go' : go'[h] = IF h = g THEN q ELSE go[h]
    BY <1>5 DEF Goto, Put
  <2> HIDE DEF q
  <2> SUFFICES ASSUME NEW t \in Tasks
               PROVE  finshed'[t] + Cardinality(Reporting(t)') <= ended'[t]
    BY DEF ReportInv
  <2>3. IsFiniteSet(Reporting(t)) /\ Cardinality(Reporting(t)) \in Nat
    BY ReportingFinite DEF Inv
  <2>4. finshed[t] + Cardinality(Reporting(t)) <= ended[t]
    BY DEF ReportInv
  <2>5. CASE t = r.task /\ r.to \in Outcomes
    <3>1. Reporting(t)' = Reporting(t) \cup {g} /\ g \notin Reporting(t)
      BY <1>1, <2>1, <2>2, <2>5 DEF Reporting
    <3>2. Cardinality(Reporting(t)') = Cardinality(Reporting(t)) + 1
      BY <2>3, <3>1, FS_AddElement
    <3>3. ended'[t] = ended[t] + 1
      BY <1>2, <1>5, <2>5 DEF Update
    <3> QED  BY <1>2, <2>3, <2>4, <3>2, <3>3
  <2>6. CASE ~(t = r.task /\ r.to \in Outcomes)
    <3>1. Reporting(t)' = Reporting(t)
      BY <1>1, <2>1, <2>2, <2>6 DEF Reporting
    <3>2. ended[t] <= ended'[t]
      BY <1>3 DEF EndsStay
    <3> QED  BY <1>2, <2>3, <2>4, <3>1, <3>2
  <2> QED  BY <2>5, <2>6
<1> QED  BY <1>4, <1>5 DEF Sql

\* finshed is called by a goroutine that had written the outcome.
LEMMA MemoryReports ==
  ASSUME Inv, Inv', ReportInv, NEW g \in DOMAIN go, NEW r, r = go[g], Memory(g, r)
  PROVE  ReportInv'
<1>1. r \in Goroutine /\ r.task \in Tasks /\ r.pc = "mem"
  BY Itself DEF Memory
<1>2. /\ ended' = ended /\ ended \in [Tasks -> Nat] /\ finshed \in [Tasks -> Nat]
  BY DEF Memory, tableVars, Inv, CountsOK, TableTypeOK
<1>3. [r EXCEPT !.pc = "stop", !.to = "none"].pc # "mem"
  BY <1>1 DEF Goroutine
<1>4. CASE finshed' = finshed
  <2>1. NoneNew
    <3>1. CASE Exit(g) \/ Goto(g, [r EXCEPT !.pc = "stop", !.to = "none"])
      BY <3>1, <1>3, GoesQuietly
    <3>2. ASSUME NEW e, go' = Put(Without(go, g), e, [r EXCEPT !.pc = "output", !.to = "success"])
          PROVE  NoneNew
      <4> DEFINE q == [r EXCEPT !.pc = "output", !.to = "success"]
      <4>1. q.pc # "mem" /\ go' = Put(Without(go, g), e, q)
        BY <1>1, <3>2 DEF Goroutine
      <4> HIDE DEF q
      <4>2. /\ DOMAIN go' = (DOMAIN go \ {g}) \cup {e}
            /\ \A h \in DOMAIN go' : go'[h] = IF h = e THEN q ELSE go[h]
        BY <4>1 DEF Put, Without, Restrict
      <4> QED  BY <4>1, <4>2 DEF NoneNew
    <3> QED  BY <3>1, <3>2 DEF Memory
  <2> QED  BY <1>2, <1>4, <2>1, SameEnds, QuietReport
<1>5. CASE finshed' # finshed
  <2>1. /\ r.to \in Outcomes /\ finshed' = [finshed EXCEPT ![r.task] = @ + 1]
        /\ Exit(g) \/ Goto(g, [r EXCEPT !.pc = "stop", !.to = "none"])
    BY <1>5 DEF Memory
  <2>2. NoneNew /\ g \in DOMAIN go /\ (g \in DOMAIN go' => go'[g].pc # "mem")
    <3>1. NoneNew
      BY <2>1, <1>3, GoesQuietly
    <3>2. CASE Exit(g)
      BY <3>1, <3>2 DEF Exit, Without, Restrict
    <3>3. CASE Goto(g, [r EXCEPT !.pc = "stop", !.to = "none"])
      BY <3>1, <3>3, <1>3 DEF Goto, Put
    <3> QED  BY <2>1, <3>2, <3>3
  <2> SUFFICES ASSUME NEW t \in Tasks
               PROVE  finshed'[t] + Cardinality(Reporting(t)') <= ended'[t]
    BY DEF ReportInv
  <2>3. IsFiniteSet(Reporting(t)) /\ Cardinality(Reporting(t)) \in Nat
    BY ReportingFinite DEF Inv
  <2>4. finshed[t] + Cardinality(Reporting(t)) <= ended[t]
    BY DEF ReportInv
  <2>5. CASE t = r.task
    <3>1. g \in Reporting(t) /\ Reporting(t)' \subseteq Reporting(t) \ {g}
      BY <1>1, <2>1, <2>2, <2>5 DEF Reporting, NoneNew
    <3>2. /\ IsFiniteSet(Reporting(t) \ {g})
          /\ Cardinality(Reporting(t) \ {g}) = Cardinality(Reporting(t)) - 1
      BY <2>3, <3>1, FS_RemoveElement
    <3>3. /\ Cardinality(Reporting(t)') <= Cardinality(Reporting(t)) - 1
          /\ Cardinality(Reporting(t)') \in Nat
      BY <3>1, <3>2, FS_Subset, FS_CardinalityType
    <3>4. finshed'[t] = finshed[t] + 1
      BY <1>2, <2>1, <2>5
    <3> QED  BY <1>2, <2>3, <2>4, <3>3, <3>4
  <2>6. CASE t # r.task
    <3>1. Reporting(t)' \subseteq Reporting(t)
      BY <2>2 DEF Reporting, NoneNew
    <3>2. /\ Cardinality(Reporting(t)') <= Cardinality(Reporting(t))
          /\ Cardinality(Reporting(t)') \in Nat
      BY <3>1, <2>3, FS_Subset, FS_CardinalityType
    <3>3. finshed'[t] = finshed[t]
      BY <1>2, <2>1, <2>6
    <3> QED  BY <1>2, <2>3, <2>4, <3>2, <3>3
  <2> QED  BY <2>5, <2>6
<1> QED  BY <1>4, <1>5

\* The loops and the handlers launch goroutines; none of them reports at once.
LEMMA LaunchQuiet ==
  ASSUME Inv, \/ ScheduleOnce \/ UpdateOnce
              \/ \E t \in Tasks, op \in Operations, g \in RequestIds : Request(t, op, g)
  PROVE  NoneNew /\ EndsStay /\ finshed' = finshed
<1>1. CASE ScheduleOnce
  <2> DEFINE k == IF FreeSlots < Len(waitingTasks) THEN FreeSlots ELSE Len(waitingTasks)
             wave == {"wave"} \X ((1..k) \ Ignored(k))
             f == [g \in wave |-> New("start", waitingTasks[g[2]], NoWork, 0, "waiting", "running")]
  <2>1. go' = [g \in DOMAIN go \cup wave |-> IF g \in DOMAIN go THEN go[g] ELSE f[g]]
    BY <1>1 DEF ScheduleOnce
  <2>2. \A g \in wave : f[g].pc # "mem"
    BY DEF New
  <2> HIDE DEF f, wave, k
  <2>3. NoneNew
    BY <2>1, <2>2, SpawnsQuietly
  <2> QED  BY <2>3, <1>1, SameEnds DEF ScheduleOnce, historyVars
<1>2. CASE UpdateOnce
  <2> DEFINE S == {"poll"} \X Running
             f == [g \in S |-> LET e == runningTaskMap[g[2]]
                               IN New("query", g[2], e.work, e.att, "running", "failed")]
  <2>1. go' = [g \in DOMAIN go \cup S |-> IF g \in DOMAIN go THEN go[g] ELSE f[g]]
    BY <1>2 DEF UpdateOnce
  <2>2. \A g \in S : f[g].pc # "mem"
    BY DEF New
  <2> HIDE DEF f, S
  <2>3. NoneNew
    BY <2>1, <2>2, SpawnsQuietly
  <2> QED  BY <2>3, <1>2, SameEnds DEF UpdateOnce, historyVars
<1>3. ASSUME NEW t \in Tasks, NEW op \in Operations, NEW g \in RequestIds, Request(t, op, g)
      PROVE  NoneNew /\ EndsStay /\ finshed' = finshed
  <2>1. Handler(op, t).pc # "mem" /\ Goto(g, Handler(op, t))
    BY <1>3, WebAssumption DEF Handler, New, Request
  <2> QED  BY <2>1, <1>3, GoesQuietly, SameEnds DEF Request, historyVars
<1> QED  BY <1>1, <1>2, <1>3

\* What the goroutines do not do.
LEMMA RestQuiet ==
  ASSUME Inv, \/ Crash \/ Boot \/ UNCHANGED vars
              \/ \E t \in Tasks : CreateTask(t)
              \/ \E w \in WorkIds : Cut(w)
  PROVE  NoneNew /\ EndsStay /\ finshed' = finshed
<1>1. CASE Crash
  <2>1. NoneNew
    BY <1>1 DEF Crash, Empty, NoneNew
  <2> QED  BY <2>1, <1>1, SameEnds DEF Crash, historyVars
<1>2. CASE Boot
  BY <1>2, StaysQuietly, SameEnds DEF Boot, historyVars
<1>3. CASE UNCHANGED vars
  BY <1>3, StaysQuietly, SameEnds DEF vars, historyVars
<1>4. ASSUME NEW t \in Tasks, CreateTask(t)
      PROVE  NoneNew /\ EndsStay /\ finshed' = finshed
  BY <1>4, StaysQuietly, SameEnds DEF CreateTask, Insert, historyVars
<1>5. ASSUME NEW w \in WorkIds, Cut(w)
      PROVE  NoneNew /\ EndsStay /\ finshed' = finshed
  BY <1>5, StaysQuietly, SameEnds DEF Cut, historyVars
<1> QED  BY <1>1, <1>2, <1>3, <1>4, <1>5

LEMMA StepReports ==
  ASSUME Inv, Inv', ReportInv, NEW g \in GoIds, Step(g)
  PROVE  ReportInv'
<1> DEFINE r == go[g]
<1>1. g \in DOMAIN go
  BY DEF Step
<1>2. CASE StartJob(g, r) \/ LimitCheck(g, r) \/ GetAsyncTaskStatus(g, r) \/ StopJob(g, r)
           \/ GetOutput(g, r) \/ DataPersistence(g, r) \/ AddTask(g, r)
  BY <1>1, <1>2, QuietReport, StartJobQuiet, LimitCheckQuiet, QueryQuiet, StopJobQuiet,
    OutputQuiet, SaveQuiet, AddTaskQuiet
<1>3. CASE Sql(g, r) \/ Memory(g, r)
  BY <1>1, <1>3, SqlReports, MemoryReports
<1> QED  BY <1>2, <1>3 DEF Step

-----------------------------------------------------------------------------
(* The theorem.                                                            *)

LEMMA InitReport == Init => ReportInv
<1> SUFFICES ASSUME Init, NEW t \in Tasks
             PROVE  finshed[t] + Cardinality(Reporting(t)) <= ended[t]
  BY DEF ReportInv
<1>1. Reporting(t) = {} /\ finshed[t] = 0 /\ ended[t] = 0
  BY DEF Init, TableInit, Reporting, Empty
<1> QED  BY <1>1, FS_EmptySet

\* finshed is called for no outcome that is not in the table: whatever is lost or
\* restarted, a reader of the finished channel never learns of an end that the
\* database does not know.
THEOREM NoEndIsMadeUp == Safety => []ReportedIsRecorded
<1>1. Inv /\ Inv' /\ ReportInv /\ [Next]_vars => ReportInv'
  BY QuietReport, LaunchQuiet, RestQuiet, StepReports DEF Next
<1>2. Inv /\ ReportInv => ReportedIsRecorded
  <2> SUFFICES ASSUME Inv, ReportInv, NEW t \in Tasks
               PROVE  finshed[t] <= ended[t]
    BY DEF ReportedIsRecorded
  <2>1. Cardinality(Reporting(t)) \in Nat
    BY ReportingFinite DEF Inv
  <2>2. finshed[t] \in Nat /\ ended[t] \in Nat
    BY DEF Inv, CountsOK, TableTypeOK
  <2> QED  BY <2>1, <2>2 DEF ReportInv
<1> QED  BY <1>1, <1>2, InitReport, InvHolds, PTL DEF Safety

-----------------------------------------------------------------------------
(* A row says "success" only with the output of a job of that task,        *)
(* through faults and crashes.                                             *)

\* a job id, wherever it is kept, is that of a job of the same task
IsOf(w, t) == w # NoWork => madeFor[w] = {t}

\* an output is that of a job that was not interrupted
IsOutput(w, t) == w # NoWork => cuts[w] = "made" /\ madeFor[w] = {t}

RowsTrue == \A t \in Tasks :
  /\ IsOf(rows[t].work, t) /\ IsOutput(rows[t].output, t)
  /\ rows[t].status = "success" => rows[t].output # NoWork

MemoryTrue == \A t \in Running : IsOf(runningTaskMap[t].work, t)

\* A goroutine that is about to store an output has asked for it; one that is about
\* to write "success" has stored it
Truthful(r) ==
  /\ IsOf(r.work, r.task)
  /\ r.pc = "save" => r.work \in outMap
  /\ r.pc = "sql" /\ r.to = "success" => rows[r.task].output # NoWork

GoTrue == \A g \in DOMAIN go : Truthful(go[g])

PathsTrue == \A w \in outMap : cuts[w] = "made"

\* a job that was never started has done nothing
UnusedTrue == \A w \in WorkIds : madeFor[w] = {} => cuts[w] = "none"

TruthInv == RowsTrue /\ MemoryTrue /\ GoTrue /\ PathsTrue /\ UnusedTrue

-----------------------------------------------------------------------------
(* The service forgets neither whose a job is nor that it is over.         *)

Keeps ==
  /\ \A w \in WorkIds : madeFor[w] # {} => madeFor'[w] = madeFor[w]
  /\ \A w \in WorkIds : cuts[w] = "made" => cuts'[w] = "made"
  /\ PathsTrue' /\ UnusedTrue'

LEMMA SameKeeps ==
  ASSUME PathsTrue, UnusedTrue, UNCHANGED serviceVars
  PROVE  Keeps /\ outMap' = outMap
BY DEF serviceVars, Keeps, PathsTrue, UnusedTrue

LEMMA AcceptKeeps ==
  ASSUME ServiceTypeOK, PathsTrue, UnusedTrue, NEW w \in WorkIds, NEW t \in Tasks, Accept(w, t)
  PROVE  Keeps /\ outMap' = outMap /\ madeFor'[w] = {t}
<1>1. madeFor[w] = {} /\ cuts[w] = "none"
  BY DEF Accept, Fresh, UnusedTrue
<1>2. /\ \A v \in WorkIds : cuts'[v] = IF v = w THEN "run" ELSE cuts[v]
      /\ \A v \in WorkIds : madeFor'[v] = IF v = w THEN {t} ELSE madeFor[v]
      /\ outMap' = outMap
  BY DEF Accept, ServiceTypeOK
<1>3. w \notin outMap /\ outMap \subseteq WorkIds
  BY <1>1 DEF PathsTrue, ServiceTypeOK
<1> QED  BY <1>1, <1>2, <1>3 DEF Keeps, PathsTrue, UnusedTrue

LEMMA DropKeeps ==
  ASSUME PathsTrue, UnusedTrue, NEW w, DropIfEnded(w)
  PROVE  Keeps /\ outMap' = outMap
BY DEF DropIfEnded, Keeps, PathsTrue, UnusedTrue

LEMMA CancelKeeps ==
  ASSUME ServiceTypeOK, PathsTrue, UnusedTrue, NEW w \in WorkIds \cup {NoWork}, Cancel(w)
  PROVE  Keeps /\ outMap' = outMap
<1>1. CASE cuts' = cuts
  BY <1>1 DEF Cancel, Keeps, PathsTrue, UnusedTrue
<1>2. CASE cuts' # cuts
  <2>1. w \in WorkIds /\ cuts[w] = "run" /\ cuts' = [cuts EXCEPT ![w] = "done"]
    BY <1>2 DEF Cancel, Answer
  <2>2. \A v \in WorkIds : cuts'[v] = IF v = w THEN "done" ELSE cuts[v]
    BY <2>1 DEF ServiceTypeOK
  <2> QED  BY <2>1, <2>2 DEF Cancel, Keeps, PathsTrue, UnusedTrue, ServiceTypeOK
<1> QED  BY <1>1, <1>2

LEMMA CutKeeps ==
  ASSUME ServiceTypeOK, PathsTrue, UnusedTrue, NEW w \in WorkIds, CutStep(w)
  PROVE  Keeps /\ outMap \subseteq outMap'
<1>1. PICK s \in CutPC \ {"none"} : /\ cuts' = [cuts EXCEPT ![w] = s]
                                    /\ outMap' = outMap \/ (s = "made" /\ outMap' = outMap \cup {w})
  BY DEF CutStep, CutFails, CutReturns, CutStore, CutPath, CutPC
<1>2. cuts[w] \in {"run", "found", "path"} /\ madeFor' = madeFor
  BY DEF CutStep, CutFails, CutReturns, CutStore, CutPath
<1>3. \A v \in WorkIds : cuts'[v] = IF v = w THEN s ELSE cuts[v]
  BY <1>1 DEF ServiceTypeOK
<1>4. outMap \subseteq WorkIds
  BY DEF ServiceTypeOK
<1> QED  BY <1>1, <1>2, <1>3, <1>4 DEF Keeps, PathsTrue, UnusedTrue

LEMMA DiesKeeps ==
  ASSUME UnusedTrue, ServiceDies
  PROVE  Keeps
BY DEF ServiceDies, Keeps, PathsTrue, UnusedTrue

-----------------------------------------------------------------------------
(* The table.                                                              *)

TrueMove ==
  \/ UNCHANGED rows
  \/ \E t \in Tasks : Insert(t) \/ Upsert(t)
  \/ \E t \in Tasks, w \in outMap : IsOf(w, t) /\ SaveOutput(t, w)
  \/ \E t \in Tasks, to \in RowStatus \cup {"delete"}, w \in WorkIds \cup {NoWork} :
       /\ IsOf(w, t)
       /\ to = "success" => rows[t].output # NoWork
       /\ Update(t, to, w)

OutputsStay == \A t \in Tasks : rows[t].output # NoWork => rows'[t].output # NoWork

\* A row is replaced by one that is true as well.
LEMMA RowTrue ==
  ASSUME TableTypeOK, ServiceTypeOK, RowsTrue, Keeps, NEW t \in Tasks, NEW v \in Row,
         rows' = [rows EXCEPT ![t] = v], IsOf(v.work, t), IsOutput(v.output, t),
         v.status = "success" => v.output # NoWork,
         rows[t].output # NoWork => v.output # NoWork
  PROVE  RowsTrue' /\ OutputsStay
<1>1. rows'[t] = v /\ \A u \in Tasks \ {t} : rows'[u] = rows[u]
  BY RowSet
<1>2. ASSUME NEW u \in Tasks, NEW q \in Row, rows'[u] = q, IsOf(q.work, u), IsOutput(q.output, u),
             q.status = "success" => q.output # NoWork
      PROVE  /\ rows'[u].work # NoWork => madeFor'[rows'[u].work] = {u}
             /\ rows'[u].output # NoWork => cuts'[rows'[u].output] = "made"
                                            /\ madeFor'[rows'[u].output] = {u}
             /\ rows'[u].status = "success" => rows'[u].output # NoWork
  <2>1. q.work \in WorkIds \cup {NoWork} /\ q.output \in WorkIds \cup {NoWork}
    BY DEF Row
  <2> QED  BY <1>2, <2>1 DEF IsOf, IsOutput, Keeps
<1>3. ASSUME NEW u \in Tasks
      PROVE  /\ rows'[u].work # NoWork => madeFor'[rows'[u].work] = {u}
             /\ rows'[u].output # NoWork => cuts'[rows'[u].output] = "made"
                                            /\ madeFor'[rows'[u].output] = {u}
             /\ rows'[u].status = "success" => rows'[u].output # NoWork
  <2>1. rows[u] \in Row
    BY DEF TableTypeOK
  <2>2. CASE u = t
    BY <1>1, <1>2, <2>2
  <2>3. CASE u # t
    BY <1>1, <1>2, <2>1, <2>3 DEF RowsTrue
  <2> QED  BY <2>2, <2>3
<1>4. RowsTrue'
  BY <1>3 DEF RowsTrue, IsOf, IsOutput
<1> QED  BY <1>1, <1>4 DEF OutputsStay

LEMMA TrueMoveOK ==
  ASSUME TableTypeOK, ServiceTypeOK, RowsTrue, PathsTrue, Keeps, TrueMove
  PROVE  RowsTrue' /\ OutputsStay
<1> USE DEF IsOf, IsOutput
<1>1. CASE UNCHANGED rows
  <2>1. \A t \in Tasks : rows[t].work \in WorkIds \cup {NoWork}
                         /\ rows[t].output \in WorkIds \cup {NoWork}
    BY DEF TableTypeOK, Row
  <2> QED  BY <1>1, <2>1 DEF RowsTrue, OutputsStay, Keeps
<1>2. ASSUME NEW t \in Tasks, NEW s \in RowStatus \ {"success"},
             rows' = [rows EXCEPT ![t].status = s]
      PROVE  RowsTrue' /\ OutputsStay
  <2> DEFINE v == [rows[t] EXCEPT !.status = s]
  <2>1. rows[t] \in Row
    BY DEF TableTypeOK
  <2>2. v \in Row /\ v.status # "success" /\ v.work = rows[t].work /\ v.output = rows[t].output
    BY <2>1 DEF Row
  <2>3. rows' = [rows EXCEPT ![t] = v]
    BY <1>2
  <2> HIDE DEF v
  <2>4. IsOf(v.work, t) /\ IsOutput(v.output, t)
    BY <2>2 DEF RowsTrue
  <2> QED  BY <2>2, <2>3, <2>4, RowTrue
<1>3. ASSUME NEW t \in Tasks, Insert(t) \/ Upsert(t)
      PROVE  RowsTrue' /\ OutputsStay
  <2>1. /\ "unstart" \in RowStatus \ {"success"} /\ "waiting" \in RowStatus \ {"success"}
        /\ \/ rows' = [rows EXCEPT ![t].status = "unstart"]
           \/ rows' = [rows EXCEPT ![t].status = "waiting"]
    BY <1>3 DEF RowStatus, Insert, Upsert
  <2> QED  BY <2>1, <1>2
<1>4. ASSUME NEW t \in Tasks, NEW w \in outMap, IsOf(w, t), SaveOutput(t, w)
      PROVE  RowsTrue' /\ OutputsStay
  <2> DEFINE v == [rows[t] EXCEPT !.output = w]
  <2>1. rows[t] \in Row /\ w \in WorkIds /\ w # NoWork
    BY DEF TableTypeOK, ServiceTypeOK, WorkIds, NoWork
  <2>2. v \in Row /\ v.status = rows[t].status /\ v.work = rows[t].work /\ v.output = w
    BY <2>1 DEF Row
  <2>3. rows' = [rows EXCEPT ![t] = v]
    BY <1>4 DEF SaveOutput
  <2> HIDE DEF v
  <2>4. IsOf(v.work, t) /\ IsOutput(v.output, t)
    BY <2>1, <2>2, <1>4 DEF RowsTrue, PathsTrue
  <2> QED  BY <2>1, <2>2, <2>3, <2>4, RowTrue
<1>5. ASSUME NEW t \in Tasks, NEW to \in RowStatus \cup {"delete"}, NEW w \in WorkIds \cup {NoWork},
             IsOf(w, t), to = "success" => rows[t].output # NoWork, Update(t, to, w)
      PROVE  RowsTrue' /\ OutputsStay
  <2>1. rows[t] \in Row
    BY DEF TableTypeOK
  <2>2. CASE to = "delete"
    <3> DEFINE v == [rows[t] EXCEPT !.deleted = TRUE]
    <3>1. v \in Row /\ v.status = rows[t].status /\ v.work = rows[t].work
          /\ v.output = rows[t].output
      BY <2>1 DEF Row
    <3>2. rows' = [rows EXCEPT ![t] = v]
      BY <1>5, <2>2 DEF Update
    <3> HIDE DEF v
    <3>3. IsOf(v.work, t) /\ IsOutput(v.output, t) /\ (v.status = "success" => v.output # NoWork)
      BY <3>1 DEF RowsTrue
    <3> QED  BY <3>1, <3>2, <3>3, RowTrue
  <2>3. CASE to # "delete"
    <3> DEFINE v == [rows[t] EXCEPT !.status = to,
                       !.work = IF to = "running" THEN w ELSE rows[t].work]
    <3>1. v \in Row /\ v.status = to /\ v.work \in {w, rows[t].work} /\ v.output = rows[t].output
      BY <2>1, <2>3 DEF Row
    <3>2. rows' = [rows EXCEPT ![t] = v]
      BY <1>5, <2>3 DEF Update
    <3> HIDE DEF v
    <3>3. IsOf(v.work, t) /\ IsOutput(v.output, t) /\ (v.status = "success" => v.output # NoWork)
      BY <3>1, <1>5 DEF RowsTrue
    <3> QED  BY <3>1, <3>2, <3>3, RowTrue
  <2> QED  BY <2>2, <2>3
<1> QED  BY <1>1, <1>3, <1>4, <1>5 DEF TrueMove

-----------------------------------------------------------------------------
(* The memory and the goroutines.                                          *)

LEMMA SameMemory ==
  ASSUME MemoryTypeOK, MemoryTrue, Keeps, runningTaskMap' = runningTaskMap
  PROVE  MemoryTrue'
BY DEF MemoryTrue, MemoryTypeOK, Running, IsOf, Keeps

LEMMA LeaveTrue ==
  ASSUME MemoryTypeOK, MemoryTrue, Keeps, NEW t \in Tasks, LeaveMemory(t) \/ StopMemory(t)
  PROVE  MemoryTrue'
<1>1. runningTaskMap' = Without(runningTaskMap, t)
  BY DEF LeaveMemory, StopMemory
<1>2. Running' = Running \ {t} /\ \A x \in Running' : runningTaskMap'[x] = runningTaskMap[x]
  BY <1>1 DEF Without, Restrict, Running
<1> QED  BY <1>2 DEF MemoryTrue, MemoryTypeOK, IsOf, Keeps

LEMMA EnterTrue ==
  ASSUME MemoryTypeOK, MemoryTrue, Keeps, NEW t \in Tasks, NEW w \in WorkIds \cup {NoWork},
         NEW a, IsOf(w, t), EnterMemory(t, w, a)
  PROVE  MemoryTrue'
<1> DEFINE v == [work |-> IF t \in Running THEN runningTaskMap[t].work ELSE w, att |-> a]
<1>1. v.work \in WorkIds \cup {NoWork} /\ IsOf(v.work, t)
  BY DEF MemoryTypeOK, MemoryTrue
<1>2. runningTaskMap' = [x \in Running \cup {t} |-> IF x = t THEN v ELSE runningTaskMap[x]]
  BY DEF EnterMemory, Put, Running
<1> HIDE DEF v
<1>3. Running' = Running \cup {t}
      /\ \A x \in Running' : runningTaskMap'[x] = IF x = t THEN v ELSE runningTaskMap[x]
  BY <1>2 DEF Running
<1>4. ASSUME NEW x \in Running'
      PROVE  runningTaskMap'[x].work # NoWork => madeFor'[runningTaskMap'[x].work] = {x}
  <2>1. CASE x = t
    BY <2>1, <1>1, <1>3 DEF IsOf, Keeps
  <2>2. CASE x # t
    <3>1. x \in Running /\ runningTaskMap'[x] = runningTaskMap[x]
      BY <2>2, <1>3
    <3>2. /\ runningTaskMap[x].work \in WorkIds \cup {NoWork}
          /\ IsOf(runningTaskMap[x].work, x)
      BY <3>1 DEF MemoryTypeOK, MemoryTrue
    <3> QED  BY <3>1, <3>2 DEF IsOf, Keeps
  <2> QED  BY <2>1, <2>2
<1> QED  BY <1>4 DEF MemoryTrue, IsOf

\* Truthful of a goroutine's next copy, in the next state
TruthfulNext(q) ==
  /\ q.work # NoWork => madeFor'[q.work] = {q.task}
  /\ q.pc = "save" => q.work \in outMap'
  /\ q.pc = "sql" /\ q.to = "success" => rows'[q.task].output # NoWork

\* A goroutine that stays is truthful in the next state.
LEMMA Stays ==
  ASSUME GoOK, GoTrue, Keeps, outMap \subseteq outMap', OutputsStay, NEW g \in DOMAIN go
  PROVE  TruthfulNext(go[g])
<1>1. go[g].work \in WorkIds \cup {NoWork} /\ go[g].task \in Tasks /\ Truthful(go[g])
  BY DEF GoOK, Goroutine, GoTrue
<1> QED  BY <1>1 DEF Truthful, TruthfulNext, IsOf, Keeps, OutputsStay

\* So is a copy of it that is about to do something else.
LEMMA Follows ==
  ASSUME GoOK, GoTrue, Keeps, NEW g \in DOMAIN go, NEW q,
         q.work = go[g].work, q.task = go[g].task, q.pc # "save",
         ~(q.pc = "sql" /\ q.to = "success")
  PROVE  TruthfulNext(q)
<1>1. go[g].work \in WorkIds \cup {NoWork} /\ Truthful(go[g])
  BY DEF GoOK, Goroutine, GoTrue
<1> QED  BY <1>1 DEF Truthful, TruthfulNext, IsOf, Keeps

LEMMA GotoTrue ==
  ASSUME GoOK, GoTrue, Keeps, outMap \subseteq outMap', OutputsStay,
         NEW g, Exit(g) \/ \E q : TruthfulNext(q) /\ Goto(g, q)
  PROVE  GoTrue'
<1>1. \A h \in DOMAIN go' : TruthfulNext(go'[h])
  <2>1. CASE Exit(g)
    <3>1. DOMAIN go' \subseteq DOMAIN go /\ \A h \in DOMAIN go' : go'[h] = go[h]
      BY <2>1 DEF Exit, Without, Restrict
    <3> QED  BY <3>1, Stays
  <2>2. ASSUME NEW q, TruthfulNext(q), Goto(g, q)
        PROVE  \A h \in DOMAIN go' : TruthfulNext(go'[h])
    <3>1. /\ DOMAIN go' = DOMAIN go \cup {g}
          /\ \A h \in DOMAIN go' : go'[h] = IF h = g THEN q ELSE go[h]
      BY <2>2 DEF Goto, Put
    <3> QED  BY <3>1, <2>2, Stays
  <2> QED  BY <2>1, <2>2
<1> QED  BY <1>1 DEF GoTrue, Truthful, TruthfulNext, IsOf

LEMMA StayTrue ==
  ASSUME GoOK, GoTrue, Keeps, outMap \subseteq outMap', OutputsStay, go' = go
  PROVE  GoTrue'
<1>1. \A h \in DOMAIN go' : TruthfulNext(go'[h])
  BY Stays
<1> QED  BY <1>1 DEF GoTrue, Truthful, TruthfulNext, IsOf

LEMMA SpawnTrue ==
  ASSUME GoOK, GoTrue, Keeps, outMap \subseteq outMap', OutputsStay,
         NEW S, NEW f, \A g \in S : TruthfulNext(f[g]),
         go' = [g \in DOMAIN go \cup S |-> IF g \in DOMAIN go THEN go[g] ELSE f[g]]
  PROVE  GoTrue'
<1>1. \A h \in DOMAIN go' : TruthfulNext(go'[h])
  BY Stays
<1> QED  BY <1>1 DEF GoTrue, Truthful, TruthfulNext, IsOf

-----------------------------------------------------------------------------
(* The steps.                                                              *)

\* A step of a goroutine, from what it does to the table, the memory, the service and
\* itself.
LEMMA LocalTrue ==
  ASSUME Inv, TruthInv, NEW g, TrueMove, Keeps, outMap' = outMap, MemoryTrue',
         Exit(g) \/ \E q : TruthfulNext(q) /\ Goto(g, q)
  PROVE  TruthInv'
<1>1. RowsTrue' /\ OutputsStay
  BY TrueMoveOK DEF Inv, TruthInv
<1>2. GoTrue'
  BY <1>1, GotoTrue DEF Inv, TruthInv
<1> QED  BY <1>1, <1>2 DEF TruthInv, Keeps

LEMMA SameRows ==
  ASSUME UNCHANGED tableVars
  PROVE  TrueMove
BY DEF tableVars, TrueMove

\* The memory is left alone.
LEMMA MemoryStays ==
  ASSUME Inv, TruthInv, Keeps, UNCHANGED memoryVars
  PROVE  MemoryTrue'
BY SameMemory DEF Inv, TruthInv, memoryVars

LEMMA StartJobTrue ==
  ASSUME Inv, TruthInv, NEW g \in DOMAIN go, NEW r, r = go[g], StartJob(g, r)
  PROVE  TruthInv'
<1>1. r \in Goroutine /\ r.task \in Tasks /\ r.pc = "start" /\ r.to = "running"
  BY Itself DEF StartJob, GoodCopy
<1>2. ServiceTypeOK /\ PathsTrue /\ UnusedTrue /\ GoOK /\ GoTrue
  BY DEF Inv, TruthInv
<1>3. Keeps /\ outMap' = outMap
  BY <1>1, <1>2, SameKeeps, AcceptKeeps DEF StartJob
<1>4. TrueMove /\ MemoryTrue'
  BY <1>3, SameRows, MemoryStays DEF StartJob
<1>5. ASSUME NEW w \in WorkIds, Accept(w, r.task)
      PROVE  TruthfulNext([r EXCEPT !.work = w, !.pc = IF g \in WaveIds THEN "limit" ELSE "sql"])
  <2> DEFINE q == [r EXCEPT !.work = w, !.pc = IF g \in WaveIds THEN "limit" ELSE "sql"]
  <2>1. q.work = w /\ q.task = r.task /\ q.pc \in {"limit", "sql"} /\ q.to = "running"
    BY <1>1 DEF Goroutine
  <2>2. madeFor'[w] = {r.task}
    BY <1>1, <1>2, <1>5, AcceptKeeps
  <2> HIDE DEF q
  <2>3. TruthfulNext(q)
    BY <2>1, <2>2 DEF TruthfulNext
  <2> QED  BY <2>3 DEF q
<1>6. TruthfulNext(Transit(r, "failed"))
  <2>1. /\ Transit(r, "failed").work = r.work /\ Transit(r, "failed").task = r.task
        /\ Transit(r, "failed").pc = "sql" /\ Transit(r, "failed").to = "failed"
    BY <1>1 DEF Transit, Goroutine
  <2> QED  BY <2>1, <1>2, <1>3, Follows
<1>7. Exit(g) \/ \E q : TruthfulNext(q) /\ Goto(g, q)
  BY <1>5, <1>6 DEF StartJob, StartFails
<1> QED  BY <1>3, <1>4, <1>7, LocalTrue

\* A goroutine that ends, or goes on with the same job to do something else than to
\* store an output.
Goes(g, r) ==
  Exit(g) \/ \E q : /\ Goto(g, q)
                    /\ q.work = r.work /\ q.task = r.task
                    /\ q.pc # "save" /\ ~(q.pc = "sql" /\ q.to = "success")

LEMMA GoesTrue ==
  ASSUME Inv, TruthInv, NEW g \in DOMAIN go, NEW r, r = go[g], Goes(g, r), Keeps
  PROVE  Exit(g) \/ \E q : TruthfulNext(q) /\ Goto(g, q)
<1>1. GoOK /\ GoTrue
  BY DEF Inv, TruthInv
<1> QED  BY <1>1, Follows DEF Goes

\* A transition to something else than "success".
LEMMA TransitGoes ==
  ASSUME NEW g, NEW r \in Goroutine, NEW to \in RowStatus \ {"success"},
         Goto(g, Transit(r, to)) \/ Goto(g, [Transit(r, to) EXCEPT !.late = TRUE])
  PROVE  Goes(g, r)
<1> DEFINE q == Transit(r, to)
           p == [Transit(r, to) EXCEPT !.late = TRUE]
<1>1. /\ q.work = r.work /\ q.task = r.task /\ q.pc = "sql" /\ q.to = to
      /\ p.work = r.work /\ p.task = r.task /\ p.pc = "sql" /\ p.to = to
  BY DEF Transit, Goroutine
<1>2. Goto(g, q) \/ Goto(g, p)
  OBVIOUS
<1> HIDE DEF q, p
<1> QED  BY <1>1, <1>2 DEF Goes

LEMMA FailedGoes ==
  ASSUME NEW g, NEW r \in Goroutine,
         Goto(g, Transit(r, "failed")) \/ Goto(g, [Transit(r, "failed") EXCEPT !.late = TRUE])
  PROVE  Goes(g, r)
BY TransitGoes DEF RowStatus

LEMMA LimitCheckTrue ==
  ASSUME Inv, TruthInv, NEW g \in DOMAIN go, NEW r, r = go[g], LimitCheck(g, r)
  PROVE  TruthInv'
<1>1. r \in Goroutine /\ r.to = "running"
  BY Itself DEF LimitCheck, GoodCopy
<1>2. Keeps /\ outMap' = outMap /\ TrueMove
  BY SameKeeps, SameRows DEF LimitCheck, TruthInv
<1>3. MemoryTrue'
  BY <1>2, MemoryStays DEF LimitCheck
<1>4. Goes(g, r)
  <2> DEFINE q == [r EXCEPT !.pc = "stop", !.to = "none"]
             p == [r EXCEPT !.pc = "sql"]
  <2>1. /\ q.work = r.work /\ q.task = r.task /\ q.pc = "stop"
        /\ p.work = r.work /\ p.task = r.task /\ p.pc = "sql" /\ p.to = "running"
    BY <1>1 DEF Goroutine
  <2>2. Goto(g, q) \/ Goto(g, p)
    BY DEF LimitCheck
  <2> HIDE DEF q, p
  <2> QED  BY <2>1, <2>2 DEF Goes
<1> QED  BY <1>2, <1>3, <1>4, GoesTrue, LocalTrue

LEMMA QueryTrue ==
  ASSUME Inv, TruthInv, NEW g \in DOMAIN go, NEW r, r = go[g], GetAsyncTaskStatus(g, r)
  PROVE  TruthInv'
<1>1. r \in Goroutine
  BY Itself
<1>2. Keeps /\ outMap' = outMap /\ TrueMove
  BY SameKeeps, DropKeeps, SameRows DEF GetAsyncTaskStatus, TruthInv
<1>3. MemoryTrue'
  BY <1>2, MemoryStays DEF GetAsyncTaskStatus
<1>4. ASSUME NEW s, Learn(g, r, s)
      PROVE  Goes(g, r)
  <2>1. CASE Goto(g, [r EXCEPT !.pc = "start", !.att = @ + 1, !.to = "running"])
    <3> DEFINE q == [r EXCEPT !.pc = "start", !.att = @ + 1, !.to = "running"]
    <3>1. q.work = r.work /\ q.task = r.task /\ q.pc = "start"
      BY <1>1 DEF Goroutine
    <3>2. Goto(g, q)
      BY <2>1
    <3> HIDE DEF q
    <3> QED  BY <3>1, <3>2 DEF Goes
  <2>2. CASE Goto(g, Transit(r, "exporting"))
    BY <1>1, <2>2, TransitGoes DEF RowStatus
  <2>3. CASE Exit(g)
    BY <2>3 DEF Goes
  <2>4. CASE Goto(g, Transit(r, "failed")) \/ Goto(g, [Transit(r, "failed") EXCEPT !.late = TRUE])
    BY <1>1, <2>4, FailedGoes
  <2> QED  BY <1>4, <2>1, <2>2, <2>3, <2>4 DEF Learn
<1>5. Goes(g, r)
  BY <1>4 DEF GetAsyncTaskStatus
<1> QED  BY <1>2, <1>3, <1>5, GoesTrue, LocalTrue

LEMMA StopJobTrue ==
  ASSUME Inv, TruthInv, NEW g \in DOMAIN go, NEW r, r = go[g], StopJob(g, r)
  PROVE  TruthInv'
<1>1. r \in Goroutine /\ r.work \in WorkIds \cup {NoWork} /\ r.to \in {"none", "failed"}
  BY Itself DEF StopJob, GoodCopy
<1>2. Keeps /\ outMap' = outMap /\ TrueMove
  BY <1>1, SameKeeps, CancelKeeps, SameRows DEF StopJob, TruthInv, Inv
<1>3. MemoryTrue'
  BY <1>2, MemoryStays DEF StopJob
<1>4. Goes(g, r)
  <2>1. Exit(g) \/ Goto(g, Transit(r, "failed"))
    BY <1>1 DEF StopJob
  <2>2. CASE Exit(g)
    BY <2>2 DEF Goes
  <2> QED  BY <1>1, <2>1, <2>2, FailedGoes
<1> QED  BY <1>2, <1>3, <1>4, GoesTrue, LocalTrue

LEMMA OutputTrue ==
  ASSUME Inv, TruthInv, NEW g \in DOMAIN go, NEW r, r = go[g], GetOutput(g, r)
  PROVE  TruthInv'
<1>1. r \in Goroutine
  BY Itself
<1>2. Keeps /\ outMap' = outMap /\ TrueMove
  BY SameKeeps, SameRows DEF GetOutput, TruthInv
<1>3. MemoryTrue'
  BY <1>2, MemoryStays DEF GetOutput
<1>4. ASSUME HasOutput(r.work), Goto(g, [r EXCEPT !.pc = "save"])
      PROVE  \E q : TruthfulNext(q) /\ Goto(g, q)
  <2> DEFINE q == [r EXCEPT !.pc = "save"]
  <2>1. q.work = r.work /\ q.task = r.task /\ q.pc = "save" /\ Goto(g, q)
    BY <1>1, <1>4 DEF Goroutine
  <2> HIDE DEF q
  <2>2. r.work \in WorkIds \cup {NoWork} /\ IsOf(r.work, r.task)
    BY <1>1 DEF Goroutine, TruthInv, GoTrue, Truthful
  <2>3. TruthfulNext(q)
    BY <1>2, <1>4, <2>1, <2>2 DEF TruthfulNext, HasOutput, IsOf, Keeps
  <2> QED  BY <2>1, <2>3
<1>5. ASSUME Goto(g, Transit(r, "failed"))
      PROVE  Exit(g) \/ \E q : TruthfulNext(q) /\ Goto(g, q)
  BY <1>1, <1>2, <1>5, FailedGoes, GoesTrue
<1>6. Exit(g) \/ \E q : TruthfulNext(q) /\ Goto(g, q)
  BY <1>4, <1>5 DEF GetOutput
<1> QED  BY <1>2, <1>3, <1>6, LocalTrue

LEMMA SaveTrue ==
  ASSUME Inv, TruthInv, NEW g \in DOMAIN go, NEW r, r = go[g], DataPersistence(g, r)
  PROVE  TruthInv'
<1>1. /\ r \in Goroutine /\ r.task \in Tasks /\ r.work \in WorkIds \cup {NoWork}
      /\ IsOf(r.work, r.task) /\ r.work \in outMap /\ r.work # NoWork
  BY Itself DEF DataPersistence, TruthInv, GoTrue, Truthful, Inv, ServiceTypeOK, WorkIds, NoWork
<1>2. Keeps /\ outMap' = outMap
  BY SameKeeps DEF DataPersistence, TruthInv
<1>3. MemoryTrue'
  BY <1>2, MemoryStays DEF DataPersistence
<1>4. TrueMove
  BY <1>1, SameRows DEF DataPersistence, TrueMove
<1>5. ASSUME SaveOutput(r.task, r.work), Goto(g, Transit(r, "success"))
      PROVE  \E q : TruthfulNext(q) /\ Goto(g, q)
  <2>1. /\ Transit(r, "success").work = r.work /\ Transit(r, "success").task = r.task
        /\ Transit(r, "success").pc = "sql"
    BY <1>1 DEF Transit, Goroutine
  <2>2. rows'[r.task].output = r.work
    <3>1. rows[r.task] \in Row /\ rows' = [rows EXCEPT ![r.task].output = r.work]
      BY <1>1, <1>5 DEF SaveOutput, Inv, TableTypeOK
    <3> QED  BY <1>1, <3>1 DEF Row, Inv, TableTypeOK
  <2>3. TruthfulNext(Transit(r, "success"))
    BY <1>1, <1>2, <2>1, <2>2 DEF TruthfulNext, IsOf, Keeps
  <2> QED  BY <1>5, <2>3
<1>6. ASSUME Goto(g, Transit(r, "failed"))
      PROVE  Exit(g) \/ \E q : TruthfulNext(q) /\ Goto(g, q)
  BY <1>1, <1>2, <1>6, FailedGoes, GoesTrue
<1>7. Exit(g) \/ \E q : TruthfulNext(q) /\ Goto(g, q)
  BY <1>5, <1>6 DEF DataPersistence
<1> QED  BY <1>2, <1>3, <1>4, <1>7, LocalTrue

LEMMA SqlTrue ==
  ASSUME Inv, TruthInv, NEW g \in DOMAIN go, NEW r, r = go[g], Sql(g, r)
  PROVE  TruthInv'
<1>1. /\ r \in Goroutine /\ r.task \in Tasks /\ r.work \in WorkIds \cup {NoWork}
      /\ r.to \in RowStatus \cup {"delete"}
      /\ IsOf(r.work, r.task) /\ (r.to = "success" => rows[r.task].output # NoWork)
  BY Itself DEF Sql, TruthInv, GoTrue, Truthful
<1>2. Keeps /\ outMap' = outMap
  BY SameKeeps DEF Sql, TruthInv
<1>3. MemoryTrue'
  BY <1>2, MemoryStays DEF Sql
<1>4. TrueMove
  BY <1>1, SameRows DEF Sql, TrueMove
<1>5. ASSUME Goto(g, [r EXCEPT !.pc = "mem", !.st = r.to])
      PROVE  Goes(g, r)
  <2> DEFINE q == [r EXCEPT !.pc = "mem", !.st = r.to]
  <2>1. q.work = r.work /\ q.task = r.task /\ q.pc = "mem" /\ Goto(g, q)
    BY <1>1, <1>5 DEF Goroutine
  <2> HIDE DEF q
  <2> QED  BY <2>1 DEF Goes
<1>6. ASSUME SqlFails(g, r)
      PROVE  Goes(g, r)
  <2> DEFINE q == [r EXCEPT !.pc = "stop", !.to = "failed"]
  <2>1. q.work = r.work /\ q.task = r.task /\ q.pc = "stop"
    BY <1>1 DEF Goroutine
  <2>2. Goto(g, q) \/ Goto(g, Transit(r, "failed")) \/ Exit(g)
    BY <1>6 DEF SqlFails
  <2> HIDE DEF q
  <2>3. CASE Goto(g, q)
    BY <2>1, <2>3 DEF Goes
  <2>4. CASE Exit(g)
    BY <2>4 DEF Goes
  <2> QED  BY <1>1, <2>2, <2>3, <2>4, FailedGoes
<1>7. Goes(g, r)
  BY <1>5, <1>6 DEF Sql, Goes
<1> QED  BY <1>2, <1>3, <1>4, <1>7, GoesTrue, LocalTrue

LEMMA MemoryStepTrue ==
  ASSUME Inv, TruthInv, NEW g \in DOMAIN go, NEW r, r = go[g], Memory(g, r)
  PROVE  TruthInv'
<1>1. /\ r \in Goroutine /\ r.task \in Tasks /\ r.work \in WorkIds \cup {NoWork}
      /\ r.att \in Attempts /\ IsOf(r.work, r.task)
  BY Itself DEF TruthInv, GoTrue, Truthful
<1>2. Keeps /\ outMap' = outMap /\ TrueMove
  BY SameKeeps, SameRows DEF Memory, TruthInv
<1>3. MemoryTrue'
  BY <1>1, <1>2, EnterTrue, LeaveTrue DEF Memory, Inv, TruthInv
<1>4. ASSUME Exit(g) \/ Goto(g, [r EXCEPT !.pc = "stop", !.to = "none"])
      PROVE  TruthInv'
  <2> DEFINE q == [r EXCEPT !.pc = "stop", !.to = "none"]
  <2>1. q.work = r.work /\ q.task = r.task /\ q.pc = "stop" /\ (Exit(g) \/ Goto(g, q))
    BY <1>1, <1>4 DEF Goroutine
  <2> HIDE DEF q
  <2>2. Goes(g, r)
    BY <2>1 DEF Goes
  <2> QED  BY <1>2, <1>3, <2>2, GoesTrue, LocalTrue
<1>5. ASSUME NEW e \in ExportIds,
             go' = Put(Without(go, g), e, [r EXCEPT !.pc = "output", !.to = "success"])
      PROVE  TruthInv'
  <2> DEFINE q == [r EXCEPT !.pc = "output", !.to = "success"]
  <2>1. q.work = r.work /\ q.task = r.task /\ q.pc = "output"
    BY <1>1 DEF Goroutine
  <2>2. go' = Put(Without(go, g), e, q)
    BY <1>5
  <2> HIDE DEF q
  <2>3. /\ DOMAIN go' = (DOMAIN go \ {g}) \cup {e}
        /\ \A h \in DOMAIN go' : go'[h] = IF h = e THEN q ELSE go[h]
    BY <2>2 DEF Put, Without, Restrict
  <2>4. RowsTrue' /\ OutputsStay
    BY <1>2, TrueMoveOK DEF Inv, TruthInv
  <2>5. \A h \in DOMAIN go' : TruthfulNext(go'[h])
    <3>1. GoOK /\ GoTrue
      BY DEF Inv, TruthInv
    <3>2. TruthfulNext(q)
      BY <1>2, <2>1, <3>1, Follows
    <3>3. \A h \in DOMAIN go : TruthfulNext(go[h])
      BY <1>2, <2>4, <3>1, Stays
    <3> QED  BY <2>3, <3>2, <3>3
  <2>6. GoTrue'
    BY <2>5 DEF GoTrue, Truthful, TruthfulNext, IsOf
  <2> QED  BY <1>2, <1>3, <2>4, <2>6 DEF TruthInv, Keeps
<1> QED  BY <1>4, <1>5 DEF Memory

LEMMA AddTaskTrue ==
  ASSUME Inv, TruthInv, NEW g \in DOMAIN go, NEW r, r = go[g], AddTask(g, r)
  PROVE  TruthInv'
<1>1. r \in Goroutine /\ r.task \in Tasks
  BY Itself
<1>2. Keeps /\ outMap' = outMap
  BY SameKeeps DEF AddTask, TruthInv
<1>3. TrueMove
  BY <1>1, SameRows DEF AddTask, TrueMove
<1>4. MemoryTrue'
  <2>1. CASE StopMemory(r.task)
    BY <1>1, <1>2, <2>1, LeaveTrue DEF Inv, TruthInv
  <2>2. CASE runningTaskMap' = runningTaskMap
    BY <1>2, <2>2, SameMemory DEF Inv, TruthInv
  <2> QED  BY <2>1, <2>2 DEF AddTask, AddMemory, memoryVars
<1>5. ASSUME NEW pc \in {"upsert", "undo"}, Goto(g, [r EXCEPT !.pc = pc])
      PROVE  Goes(g, r)
  <2> DEFINE q == [r EXCEPT !.pc = pc]
  <2>1. q.work = r.work /\ q.task = r.task /\ q.pc = pc /\ Goto(g, q)
    BY <1>1, <1>5 DEF Goroutine
  <2> HIDE DEF q
  <2> QED  BY <2>1 DEF Goes
<1>6. Goes(g, r)
  BY <1>5 DEF AddTask, Goes
<1> QED  BY <1>2, <1>3, <1>4, <1>6, GoesTrue, LocalTrue

\* A step that is no goroutine's, from what it does to the table, the memory, the service
\* and the goroutines.
LEMMA OtherTrue ==
  ASSUME Inv, TruthInv, TrueMove, Keeps, outMap \subseteq outMap', MemoryTrue',
         OutputsStay => GoTrue'
  PROVE  TruthInv'
BY TrueMoveOK DEF Inv, TruthInv, Keeps

LEMMA ScheduleOnceTrue ==
  ASSUME Inv, TruthInv, ScheduleOnce
  PROVE  TruthInv'
<1> DEFINE k == IF FreeSlots < Len(waitingTasks) THEN FreeSlots ELSE Len(waitingTasks)
           wave == {"wave"} \X ((1..k) \ Ignored(k))
           f == [g \in wave |-> New("start", waitingTasks[g[2]], NoWork, 0, "waiting", "running")]
<1>1. go' = [g \in DOMAIN go \cup wave |-> IF g \in DOMAIN go THEN go[g] ELSE f[g]]
  BY DEF ScheduleOnce
<1>2. Keeps /\ outMap' = outMap /\ TrueMove
  BY SameKeeps, SameRows DEF ScheduleOnce, TruthInv
<1>3. MemoryTrue'
  BY <1>2, SameMemory DEF ScheduleOnce, TakeWaiting, Inv, TruthInv
<1>4. \A g \in wave : TruthfulNext(f[g])
  BY DEF TruthfulNext, New, NoWork
<1>5. OutputsStay => GoTrue'
  <2> HIDE DEF f, wave, k
  <2> QED  BY <1>1, <1>2, <1>4, SpawnTrue DEF Inv, TruthInv
<1> QED  BY <1>2, <1>3, <1>5, OtherTrue

LEMMA UpdateOnceTrue ==
  ASSUME Inv, TruthInv, UpdateOnce
  PROVE  TruthInv'
<1> DEFINE S == {"poll"} \X Running
           f == [g \in S |-> LET e == runningTaskMap[g[2]]
                             IN New("query", g[2], e.work, e.att, "running", "failed")]
<1>1. go' = [g \in DOMAIN go \cup S |-> IF g \in DOMAIN go THEN go[g] ELSE f[g]]
  BY DEF UpdateOnce
<1>2. Keeps /\ outMap' = outMap /\ TrueMove
  BY SameKeeps, SameRows DEF UpdateOnce, TruthInv
<1>3. MemoryTrue'
  BY <1>2, MemoryStays DEF UpdateOnce
<1>4. ASSUME NEW g \in S
      PROVE  TruthfulNext(f[g])
  <2>1. /\ f[g].work = runningTaskMap[g[2]].work /\ f[g].task = g[2] /\ f[g].pc = "query"
        /\ g[2] \in Running
    BY DEF New
  <2> HIDE DEF f, S
  <2>2. f[g].work \in WorkIds \cup {NoWork} /\ IsOf(f[g].work, f[g].task)
    BY <2>1 DEF Inv, MemoryTypeOK, TruthInv, MemoryTrue
  <2> QED  BY <1>2, <2>1, <2>2 DEF TruthfulNext, IsOf, Keeps
<1>5. OutputsStay => GoTrue'
  <2> HIDE DEF f, S
  <2> QED  BY <1>1, <1>2, <1>4, SpawnTrue DEF Inv, TruthInv
<1> QED  BY <1>2, <1>3, <1>5, OtherTrue

LEMMA RequestTrue ==
  ASSUME Inv, TruthInv, NEW t \in Tasks, NEW op \in Operations, NEW g \in RequestIds, Request(t, op, g)
  PROVE  TruthInv'
<1>1. Keeps /\ outMap' = outMap /\ TrueMove
  BY SameKeeps, SameRows DEF Request, TruthInv
<1>2. MemoryTrue'
  BY <1>1, MemoryStays DEF Request
<1>3. rows[t].work \in WorkIds \cup {NoWork} /\ IsOf(rows[t].work, t)
  BY DEF Inv, TableTypeOK, Row, TruthInv, RowsTrue
<1>4. /\ Handler(op, t).work = rows[t].work /\ Handler(op, t).task = t
      /\ Handler(op, t).pc # "save"
      /\ ~(Handler(op, t).pc = "sql" /\ Handler(op, t).to = "success")
  BY WebAssumption DEF Handler, New
<1>5. TruthfulNext(Handler(op, t)) /\ Goto(g, Handler(op, t))
  BY <1>1, <1>3, <1>4 DEF TruthfulNext, IsOf, Keeps, Request
<1> QED  BY <1>1, <1>2, <1>5, LocalTrue

LEMMA CreateTrue ==
  ASSUME Inv, TruthInv, NEW t \in Tasks, CreateTask(t)
  PROVE  TruthInv'
<1>1. Keeps /\ outMap' = outMap /\ TrueMove
  BY SameKeeps DEF CreateTask, TruthInv, TrueMove
<1>2. MemoryTrue'
  BY <1>1, MemoryStays DEF CreateTask
<1>3. OutputsStay => GoTrue'
  BY <1>1, StayTrue DEF CreateTask, Inv, TruthInv
<1> QED  BY <1>1, <1>2, <1>3, OtherTrue

LEMMA CutTrue ==
  ASSUME Inv, TruthInv, NEW w \in WorkIds, Cut(w)
  PROVE  TruthInv'
<1>1. Keeps /\ outMap \subseteq outMap' /\ TrueMove
  BY CutKeeps, SameRows DEF Cut, Inv, TruthInv
<1>2. MemoryTrue'
  BY <1>1, MemoryStays DEF Cut
<1>3. OutputsStay => GoTrue'
  BY <1>1, StayTrue DEF Cut, Inv, TruthInv
<1> QED  BY <1>1, <1>2, <1>3, OtherTrue

LEMMA CrashTrue ==
  ASSUME Inv, TruthInv, Crash
  PROVE  TruthInv'
<1>1. Keeps /\ TrueMove
  BY DiesKeeps, SameRows DEF Crash, TruthInv
<1>2. RowsTrue'
  BY <1>1, TrueMoveOK DEF Inv, TruthInv
<1>3. MemoryTrue' /\ GoTrue'
  BY DEF Crash, MemoryTrue, GoTrue, Running, Empty
<1> QED  BY <1>1, <1>2, <1>3 DEF TruthInv, Keeps

LEMMA BootTrue ==
  ASSUME Inv, TruthInv, Boot
  PROVE  TruthInv'
<1>1. Keeps /\ outMap' = outMap /\ TrueMove
  BY SameKeeps, SameRows DEF Boot, TruthInv
<1>2. MemoryTrue'
  <2>1. CASE RecoverRunning
    <3>1. /\ Running' = Where("running")
          /\ \A t \in Running' : runningTaskMap'[t].work = rows[t].work
      BY <2>1 DEF RecoverRunning, Running
    <3>2. \A t \in Tasks : rows[t].work \in WorkIds \cup {NoWork} /\ IsOf(rows[t].work, t)
      BY DEF Inv, TableTypeOK, Row, TruthInv, RowsTrue
    <3> QED  BY <1>1, <3>1, <3>2 DEF MemoryTrue, IsOf, Keeps, Where
  <2>2. CASE runningTaskMap' = runningTaskMap
    BY <1>1, <2>2, SameMemory DEF Inv, TruthInv
  <2> QED  BY <2>1, <2>2 DEF Boot, RecoverWaiting, memoryVars
<1>3. OutputsStay => GoTrue'
  BY <1>1, StayTrue DEF Boot, Inv, TruthInv
<1> QED  BY <1>1, <1>2, <1>3, OtherTrue

LEMMA StepTrue ==
  ASSUME Inv, TruthInv, NEW g \in GoIds, Step(g)
  PROVE  TruthInv'
<1> DEFINE r == go[g]
<1>1. g \in DOMAIN go
  BY DEF Step
<1>2. \/ StartJob(g, r) \/ LimitCheck(g, r) \/ GetAsyncTaskStatus(g, r) \/ StopJob(g, r)
      \/ GetOutput(g, r) \/ DataPersistence(g, r) \/ Sql(g, r) \/ Memory(g, r) \/ AddTask(g, r)
  BY DEF Step
<1> QED
  BY <1>1, <1>2, StartJobTrue, LimitCheckTrue, QueryTrue, StopJobTrue, OutputTrue, SaveTrue,
    SqlTrue, MemoryStepTrue, AddTaskTrue

-----------------------------------------------------------------------------
(* The theorem.                                                            *)

LEMMA StillTrue ==
  ASSUME Inv, TruthInv, UNCHANGED vars
  PROVE  TruthInv'
<1>1. Keeps /\ outMap' = outMap /\ TrueMove
  BY SameKeeps, SameRows DEF vars, TruthInv
<1>2. MemoryTrue'
  BY <1>1, MemoryStays DEF vars
<1>3. OutputsStay => GoTrue'
  BY <1>1, StayTrue DEF vars, Inv, TruthInv
<1> QED  BY <1>1, <1>2, <1>3, OtherTrue

LEMMA InitTrue == Init => TruthInv
BY DEF Init, TableInit, MemoryInit, ServiceInit, TruthInv, RowsTrue, MemoryTrue, GoTrue, PathsTrue,
  UnusedTrue, IsOf, IsOutput, Running, Empty

LEMMA TruthHolds == Safety => []TruthInv
<1>1. Inv /\ TruthInv /\ [Next]_vars => TruthInv'
  BY StillTrue, ScheduleOnceTrue, UpdateOnceTrue, CrashTrue, BootTrue, CreateTrue, RequestTrue,
    StepTrue, CutTrue DEF Next
<1> QED  BY <1>1, InitTrue, InvHolds, PTL DEF Safety

\* A row says "success" only with the output of a job of that task which was not
\* interrupted, whatever is lost, retried, stopped or restarted in between.
THEOREM SuccessIsNotMadeUp == Safety => []SuccessIsTrue
<1>1. TruthInv => SuccessIsTrue
  BY DEF TruthInv, RowsTrue, IsOutput, SuccessIsTrue
<1> QED  BY <1>1, TruthHolds, PTL
=============================================================================
