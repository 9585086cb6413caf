----------------------- MODULE VideoCutRestartProofs -----------------------
(***************************************************************************)
(* Proofs that memory and table of the video cut program agree, that the   *)
(* limit holds for the table, and that no job of the service is forgotten, *)
(* also after a crash: for any set of tasks, limits, sizes and number of   *)
(* crashes.  Each theorem names its conditions: Calm (no statement of a    *)
(* goroutine fails, no task is stopped or started again, and requests come *)
(* one after the other), NoRetry and CallsWork.                            *)
(***************************************************************************)
EXTENDS VideoCutProofs

\* What the properties of restarts are stated of.  A statement of the constructor, and
\* a call, may fail.
Calm ==
  /\ Operations \subseteq {"start", "delete"}
  /\ Clients <= 1
  /\ "statement" \notin Faulty

-----------------------------------------------------------------------------
(* The invariant.                                                          *)

OverStatus == {"unstart", "success", "failed", "stoped"}

\* What a goroutine of each kind may be about to do.
WaveRole(r) ==
  /\ r.pc \in {"start", "limit", "sql", "mem", "stop"} /\ ~r.late
  /\ r.pc # "mem" => r.st = "waiting"
  /\ r.pc \in {"sql", "mem"} => r.to \in {"running", "failed"}

PollRole(r) ==
  /\ r.pc \in {"query", "start", "sql", "mem", "stop"}
  /\ r.pc \in {"query", "start", "sql"} => r.st = "running"
  /\ r.pc \in {"query", "start"} => ~r.late
  /\ r.pc \in {"sql", "mem"} => r.to \in {"running", "exporting", "failed"}
  /\ r.pc \in {"sql", "mem"} /\ r.late => r.to = "failed"
  /\ r.pc = "stop" => r.to = "none"

ExportRole(r) ==
  /\ r.pc \in {"output", "save", "sql", "mem"} /\ ~r.late
  /\ r.pc # "mem" => r.st = "exporting"
  /\ r.pc \in {"sql", "mem"} => r.to \in Outcomes

RequestRole(r) ==
  \/ r.pc \in {"push", "upsert"}
  \/ r.pc = "sql" /\ r.to = "delete" /\ r.st \in OverStatus

\* What it then knows of its row, and of the running map (the set of tasks in it).
WaveKnows(r, row) == r.pc = "mem" =>
  IF r.to = "running" THEN row.status = "running" /\ ~row.deleted /\ row.work = r.work
  ELSE row.status = "failed"

PollKnows(r, row, map) ==
  /\ r.pc # "stop" => r.task \in map
  /\ r.pc = "mem" => row.status = r.to

ExportKnows(r, row) ==
  IF r.pc = "mem" THEN row.status \in Outcomes ELSE row.status = "exporting" /\ ~row.deleted

RequestKnows(r, row) == r.pc \in {"push", "upsert"} => row.status = "unstart" /\ ~row.deleted

Agrees(g, r, row, map) ==
  /\ g \in WaveIds => WaveRole(r) /\ WaveKnows(r, row)
  /\ g \in PollIds => PollRole(r) /\ PollKnows(r, row, map) /\ g = <<"poll", r.task>>
  /\ g \in ExportIds => ExportRole(r) /\ ExportKnows(r, row)
  /\ g \in RequestIds => RequestRole(r) /\ RequestKnows(r, row)

GoOf(t) == {g \in DOMAIN go : go[g].task = t}

\* the goroutines that are between the table's half of a transition and the memory's
EntersMap(g, r) == g \in WaveIds /\ r.pc = "mem" /\ r.to = "running"
LeavesMap(g, r) == g \in PollIds /\ r.pc = "mem" /\ r.to # "running"
Entering(t) == \E g \in GoOf(t) : EntersMap(g, go[g])
Leaving(t) == \E g \in GoOf(t) : LeavesMap(g, go[g])

\* Once its row says "running" a task is in one place: in the running map, or with a
\* goroutine that will change the map, or with an export.
Holds(g, r) == g \in ExportIds \/ (g \in WaveIds /\ r.pc = "mem")
OneHolder(t) ==
  /\ \A g, h \in GoOf(t) : Holds(g, go[g]) /\ Holds(h, go[h]) => g = h
  /\ t \in Running => \A g \in GoOf(t) : ~Holds(g, go[g])

\* the row says "running", and is not deleted
RunsInTable(t) == rows[t].status = "running" /\ ~rows[t].deleted

TaskAgrees(t) ==
  /\ \A g \in GoOf(t) : Agrees(g, go[g], rows[t], Running)
  /\ OneHolder(t)
  /\ t \in Running => Leaving(t) \/ RunsInTable(t)
  /\ boot # "running" /\ RunsInTable(t) => t \in Running \/ Entering(t)
  /\ rows[t].deleted => rows[t].status \in OverStatus

AllAgree == \A t \in Tasks : TaskAgrees(t)

\* the slots taken, and those set aside for the goroutines of the wave
Budget == Cardinality(Running) + Cardinality(Of(WaveIds)) <= TaskLimit

\* while the constructor runs nothing else does
Recovering ==
  /\ boot # "up" => DOMAIN go = {}
  /\ boot = "running" => Running = {} /\ Cardinality(Where("running")) <= TaskLimit

OwnInv == AllAgree /\ Budget /\ Recovering

-----------------------------------------------------------------------------
(* Steps that touch neither the row nor the running map.                   *)

LEMMA Kinds ==
  ASSUME NEW g
  PROVE  /\ g \in WaveIds => g \notin PollIds /\ g \notin ExportIds /\ g \notin RequestIds
         /\ g \in PollIds => g \notin ExportIds /\ g \notin RequestIds
         /\ g \in ExportIds => g \notin RequestIds
<1>1. /\ g \in WaveIds => g[1] = "wave"
      /\ g \in PollIds => g[1] = "poll"
      /\ g \in ExportIds => g[1] = "export"
      /\ g \in RequestIds => g[1] = "request"
  BY DEF WaveIds, PollIds, ExportIds, RequestIds
<1> QED  BY <1>1

\* the row and the place in the map of a task stay
SameTask(t) ==
  /\ rows'[t].status = rows[t].status /\ rows'[t].work = rows[t].work
  /\ rows'[t].deleted = rows[t].deleted
  /\ t \in Running' <=> t \in Running
  /\ boot' # "running" => boot # "running"

\* A goroutine of the task is an old one, or has got somewhere short of the memory.
QuietGo(t) ==
  /\ \A h \in DOMAIN go' : go'[h].task = t =>
       \/ h \in DOMAIN go /\ go'[h] = go[h]
       \/ /\ go'[h].pc # "mem" /\ Agrees(h, go'[h], rows[t], Running)
          /\ h \in ExportIds => h \in DOMAIN go /\ go[h].task = t
  /\ \A h \in GoOf(t) : EntersMap(h, go[h]) \/ LeavesMap(h, go[h]) =>
       h \in DOMAIN go' /\ go'[h] = go[h]

LEMMA SameAgrees ==
  ASSUME NEW t, SameTask(t), NEW g, NEW r, r.task = t, Agrees(g, r, rows[t], Running)
  PROVE  Agrees(g, r, rows'[t], Running')
<1>1. WaveKnows(r, rows[t]) => WaveKnows(r, rows'[t])
  BY DEF SameTask, WaveKnows
<1>2. PollKnows(r, rows[t], Running) => PollKnows(r, rows'[t], Running')
  BY DEF SameTask, PollKnows
<1>3. ExportKnows(r, rows[t]) => ExportKnows(r, rows'[t])
  BY DEF SameTask, ExportKnows
<1>4. RequestKnows(r, rows[t]) => RequestKnows(r, rows'[t])
  BY DEF SameTask, RequestKnows
<1> QED  BY <1>1, <1>2, <1>3, <1>4 DEF Agrees

LEMMA Untouched ==
  ASSUME NEW t \in Tasks, TaskAgrees(t), SameTask(t), QuietGo(t)
  PROVE  TaskAgrees(t)'
<1>1. GoOf(t)' = {g \in DOMAIN go' : go'[g].task = t}
  BY DEF GoOf
<1>2. \A g \in GoOf(t)' : Agrees(g, go'[g], rows'[t], Running')
  <2> SUFFICES ASSUME NEW g \in GoOf(t)' PROVE Agrees(g, go'[g], rows'[t], Running')
    OBVIOUS
  <2>1. g \in DOMAIN go' /\ go'[g].task = t
    BY <1>1
  <2>2. CASE g \in DOMAIN go /\ go'[g] = go[g]
    <3>1. Agrees(g, go'[g], rows[t], Running)
      BY <2>1, <2>2 DEF TaskAgrees, GoOf
    <3> QED  BY <3>1, <2>1, SameAgrees
  <2>3. CASE Agrees(g, go'[g], rows[t], Running)
    BY <2>3, <2>1, SameAgrees
  <2> QED  BY <2>1, <2>2, <2>3 DEF QuietGo
<1>3. ASSUME NEW g \in GoOf(t)', Holds(g, go'[g])
      PROVE  g \in GoOf(t) /\ Holds(g, go[g])
  <2>1. g \in DOMAIN go' /\ go'[g].task = t
    BY <1>1
  <2>2. CASE g \in DOMAIN go /\ go'[g] = go[g]
    BY <1>3, <2>1, <2>2 DEF GoOf
  <2>3. CASE go'[g].pc # "mem" /\ (g \in ExportIds => g \in DOMAIN go /\ go[g].task = t)
    BY <1>3, <2>3 DEF Holds, GoOf
  <2> QED  BY <2>1, <2>2, <2>3 DEF QuietGo
<1>4. OneHolder(t)'
  <2>1. \A g, h \in GoOf(t)' : Holds(g, go'[g]) /\ Holds(h, go'[h]) => g = h
    BY <1>3 DEF TaskAgrees, OneHolder
  <2>2. t \in Running' => \A g \in GoOf(t)' : ~Holds(g, go'[g])
    BY <1>3 DEF TaskAgrees, OneHolder, SameTask
  <2> QED  BY <2>1, <2>2 DEF OneHolder, Holds
<1>5. (Leaving(t) => Leaving(t)') /\ (Entering(t) => Entering(t)')
  BY <1>1 DEF Leaving, Entering, QuietGo, GoOf, EntersMap, LeavesMap
<1>6. RunsInTable(t)' <=> RunsInTable(t)
  BY DEF RunsInTable, SameTask
<1> QED  BY <1>2, <1>4, <1>5, <1>6 DEF TaskAgrees, SameTask

-----------------------------------------------------------------------------
(* Steps that touch the row or the running map of one task.                *)

\* A goroutine that relies on neither.
Passive(g, r) ==
  /\ g \in WaveIds => r.pc # "mem"
  /\ g \in PollIds => r.pc = "stop"
  /\ g \notin ExportIds
  /\ g \in RequestIds => r.pc \notin {"push", "upsert"}

LEMMA PassiveAgrees ==
  ASSUME NEW g, NEW r, NEW row, NEW map, NEW row2, NEW map2,
         Passive(g, r), Agrees(g, r, row, map)
  PROVE  Agrees(g, r, row2, map2)
<1>1. CASE g \in WaveIds
  BY <1>1, Kinds DEF Passive, Agrees, WaveKnows
<1>2. CASE g \in PollIds
  BY <1>2, Kinds DEF Passive, Agrees, PollKnows
<1>3. CASE g \in RequestIds
  BY <1>3, Kinds DEF Passive, Agrees, RequestKnows
<1> QED  BY <1>1, <1>2, <1>3 DEF Agrees, Passive

LEMMA PassiveFree ==
  ASSUME NEW g, NEW r, Passive(g, r)
  PROVE  ~Holds(g, r) /\ ~EntersMap(g, r) /\ ~LeavesMap(g, r)
BY DEF Passive, Holds, EntersMap, LeavesMap

\* the goroutines of the task are passive ones that were there before, and e
AloneWith(e, t) == \A h \in DOMAIN go' : h # e /\ go'[h].task = t =>
  h \in GoOf(t) /\ go'[h] = go[h] /\ Passive(h, go[h])

LEMMA AloneAgrees ==
  ASSUME NEW t \in Tasks, TaskAgrees(t), NEW e, AloneWith(e, t),
         e \in GoOf(t)' => Agrees(e, go'[e], rows'[t], Running')
                           /\ (t \in Running' => ~Holds(e, go'[e])),
         t \in Running' => RunsInTable(t)' \/ (e \in GoOf(t)' /\ LeavesMap(e, go'[e])),
         boot' # "running" /\ RunsInTable(t)' =>
           t \in Running' \/ (e \in GoOf(t)' /\ EntersMap(e, go'[e])),
         rows'[t].deleted => rows'[t].status \in OverStatus
  PROVE  TaskAgrees(t)'
<1>1. GoOf(t)' = {g \in DOMAIN go' : go'[g].task = t}
  BY DEF GoOf
<1>2. ASSUME NEW g \in GoOf(t)', g # e
      PROVE  g \in GoOf(t) /\ go'[g] = go[g] /\ Passive(g, go[g])
  BY <1>1, <1>2 DEF AloneWith
<1>3. \A g \in GoOf(t)' : Agrees(g, go'[g], rows'[t], Running')
  <2> SUFFICES ASSUME NEW g \in GoOf(t)' PROVE Agrees(g, go'[g], rows'[t], Running')
    OBVIOUS
  <2>1. CASE g = e
    BY <2>1
  <2>2. CASE g # e
    <3>1. g \in GoOf(t) /\ go'[g] = go[g] /\ Passive(g, go[g])
      BY <1>2, <2>2
    <3>2. Agrees(g, go[g], rows[t], Running)
      BY <3>1 DEF TaskAgrees
    <3>3. Agrees(g, go[g], rows'[t], Running')
      BY <3>1, <3>2, PassiveAgrees
    <3> QED  BY <3>1, <3>3
  <2> QED  BY <2>1, <2>2
<1>4. \A g \in GoOf(t)' : Holds(g, go'[g]) => g = e
  BY <1>2, PassiveFree
<1>5. OneHolder(t)'
  <2>1. \A g, h \in GoOf(t)' : Holds(g, go'[g]) /\ Holds(h, go'[h]) => g = h
    BY <1>4
  <2>2. t \in Running' => \A g \in GoOf(t)' : ~Holds(g, go'[g])
    BY <1>4
  <2> QED  BY <2>1, <2>2 DEF OneHolder, Holds
<1>6. /\ (e \in GoOf(t)' /\ LeavesMap(e, go'[e])) => Leaving(t)'
      /\ (e \in GoOf(t)' /\ EntersMap(e, go'[e])) => Entering(t)'
  BY DEF Leaving, Entering, EntersMap, LeavesMap
<1> QED  BY <1>3, <1>5, <1>6 DEF TaskAgrees

\* Before a task starts, nothing relies on its row or its place in the map.
LEMMA IdleTask ==
  ASSUME NEW t \in Tasks, TaskAgrees(t), rows[t].status \in {"none", "unstart", "waiting"}
  PROVE  /\ t \notin Running
         /\ \A h \in GoOf(t) : h \notin RequestIds => Passive(h, go[h])
         /\ rows[t].status # "unstart" =>
              \A h \in GoOf(t) : Passive(h, go[h])
<1>1. ~RunsInTable(t)
  BY DEF RunsInTable
<1>2. ~Leaving(t)
  <2> SUFFICES ASSUME NEW h \in GoOf(t), LeavesMap(h, go[h]) PROVE FALSE
    BY DEF Leaving
  <2>1. Agrees(h, go[h], rows[t], Running)
    BY DEF TaskAgrees
  <2> QED  BY <2>1 DEF Agrees, PollRole, PollKnows, LeavesMap
<1>3. t \notin Running
  BY <1>1, <1>2 DEF TaskAgrees
<1>4. ASSUME NEW h \in GoOf(t), h \in RequestIds => rows[t].status # "unstart"
      PROVE  Passive(h, go[h])
  <2>1. Agrees(h, go[h], rows[t], Running) /\ go[h].task = t
    BY DEF TaskAgrees, GoOf
  <2>2. h \in WaveIds => go[h].pc # "mem"
    BY <2>1 DEF Agrees, WaveKnows
  <2>3. h \in PollIds => go[h].pc = "stop"
    BY <2>1, <1>3 DEF Agrees, PollKnows
  <2>4. h \notin ExportIds
    BY <2>1 DEF Agrees, ExportKnows, Outcomes
  <2>5. h \in RequestIds => go[h].pc \notin {"push", "upsert"}
    BY <2>1, <1>4 DEF Agrees, RequestKnows
  <2> QED  BY <2>2, <2>3, <2>4, <2>5 DEF Passive
<1> QED  BY <1>3, <1>4

\* While a task is in the map, only its poll goroutine relies on that.
LEMMA MapTask ==
  ASSUME NEW t \in Tasks, TaskAgrees(t), t \in Running
  PROVE  /\ ~Leaving(t) => RunsInTable(t)
         /\ \A h \in GoOf(t) : h # <<"poll", t>> => Passive(h, go[h])
<1>1. ~Leaving(t) => RunsInTable(t)
  BY DEF TaskAgrees
<1>2. Leaving(t) => rows[t].status \in {"exporting", "failed"}
  <2> SUFFICES ASSUME NEW h \in GoOf(t), LeavesMap(h, go[h])
               PROVE  rows[t].status \in {"exporting", "failed"}
    BY DEF Leaving
  <2>1. Agrees(h, go[h], rows[t], Running)
    BY DEF TaskAgrees
  <2> QED  BY <2>1 DEF Agrees, PollRole, PollKnows, LeavesMap
<1>3. rows[t].status # "unstart"
  BY <1>1, <1>2 DEF RunsInTable
<1>4. ASSUME NEW h \in GoOf(t), h # <<"poll", t>>
      PROVE  Passive(h, go[h])
  <2>1. Agrees(h, go[h], rows[t], Running) /\ go[h].task = t /\ ~Holds(h, go[h])
    BY DEF TaskAgrees, GoOf, OneHolder
  <2>2. h \notin PollIds
    BY <2>1, <1>4 DEF Agrees
  <2>3. h \notin ExportIds /\ (h \in WaveIds => go[h].pc # "mem")
    BY <2>1 DEF Holds
  <2>4. h \in RequestIds => go[h].pc \notin {"push", "upsert"}
    BY <2>1, <1>3 DEF Agrees, RequestKnows
  <2> QED  BY <2>2, <2>3, <2>4 DEF Passive
<1> QED  BY <1>1, <1>4

\* While a goroutine holds a task, only it relies on the task's row and place.
LEMMA HeldTask ==
  ASSUME NEW t \in Tasks, TaskAgrees(t), NEW g \in GoOf(t), Holds(g, go[g])
  PROVE  /\ t \notin Running
         /\ \A h \in GoOf(t) : h # g => Passive(h, go[h])
<1>1. t \notin Running
  BY DEF TaskAgrees, OneHolder
<1>2. rows[t].status # "unstart"
  <2>1. Agrees(g, go[g], rows[t], Running)
    BY DEF TaskAgrees
  <2> QED  BY <2>1 DEF Holds, Agrees, WaveKnows, ExportKnows, Outcomes
<1>3. ASSUME NEW h \in GoOf(t), h # g
      PROVE  Passive(h, go[h])
  <2>1. Agrees(h, go[h], rows[t], Running) /\ go[h].task = t /\ ~Holds(h, go[h])
    BY <1>3 DEF TaskAgrees, GoOf, OneHolder
  <2>2. h \in PollIds => go[h].pc = "stop"
    BY <2>1, <1>1 DEF Agrees, PollKnows
  <2>3. h \notin ExportIds /\ (h \in WaveIds => go[h].pc # "mem")
    BY <2>1 DEF Holds
  <2>4. h \in RequestIds => go[h].pc \notin {"push", "upsert"}
    BY <2>1, <1>2 DEF Agrees, RequestKnows
  <2> QED  BY <2>2, <2>3, <2>4 DEF Passive
<1> QED  BY <1>1, <1>3

-----------------------------------------------------------------------------
(* Steps of goroutines that touch neither the row nor the running map.     *)

\* The goroutine ends, or gets somewhere short of the memory.
Quietly(g, r) ==
  \/ Exit(g)
  \/ \E q : /\ Goto(g, q) /\ q.task = r.task /\ q.pc # "mem"
            /\ Agrees(g, q, rows[r.task], Running)

LEMMA QuietAgrees ==
  ASSUME AllAgree, NEW g \in DOMAIN go, NEW r, r = go[g], \A t \in Tasks : SameTask(t),
         ~EntersMap(g, r), ~LeavesMap(g, r), Quietly(g, r)
  PROVE  AllAgree'
<1> SUFFICES ASSUME NEW t \in Tasks PROVE TaskAgrees(t)'
  BY DEF AllAgree
<1>1. QuietGo(t)
  <2>1. CASE Exit(g)
    <3>1. /\ DOMAIN go' = DOMAIN go \ {g}
          /\ \A h \in DOMAIN go' : go'[h] = go[h]
      BY <2>1 DEF Exit, Without, Restrict
    <3> QED  BY <3>1 DEF QuietGo, GoOf
  <2>2. ASSUME NEW q, Goto(g, q), q.task = r.task, q.pc # "mem",
               Agrees(g, q, rows[r.task], Running)
        PROVE  QuietGo(t)
    <3>1. /\ DOMAIN go' = DOMAIN go
          /\ \A h \in DOMAIN go' : go'[h] = IF h = g THEN q ELSE go[h]
      BY <2>2 DEF Goto, Put
    <3> QED  BY <2>2, <3>1 DEF QuietGo, GoOf
  <2> QED  BY <2>1, <2>2 DEF Quietly
<1> QED  BY <1>1, Untouched DEF AllAgree

\* What a goroutine knows and believes.
LEMMA Itself2 ==
  ASSUME Inv, AllAgree, NEW g \in DOMAIN go, NEW r, r = go[g]
  PROVE  /\ r.task \in Tasks /\ g \in GoOf(r.task) /\ TaskAgrees(r.task)
         /\ Agrees(g, r, rows[r.task], Running)
         /\ g \in WaveIds \/ g \in PollIds \/ g \in ExportIds \/ g \in RequestIds
         /\ r \in Goroutine /\ GoodCopy(r)
<1>1. r.task \in Tasks /\ r \in Goroutine /\ GoodCopy(r) /\ g \in GoIds
  BY Itself
<1> QED  BY <1>1 DEF GoIds, GoOf, AllAgree, TaskAgrees

LEMMA SameTasks ==
  ASSUME UNCHANGED <<rows, runningTaskMap, boot>>, NEW t
  PROVE  SameTask(t)
BY DEF SameTask, Running

\* A transition to be made by a poll goroutine or an export.
LEMMA TransitAgrees ==
  ASSUME NEW g, NEW r \in Goroutine, NEW row, NEW map, Agrees(g, r, row, map),
         r.pc \notin {"mem", "stop"}, NEW to \in RowStatus, NEW q, q = Transit(r, to),
         \/ g \in PollIds /\ to \in {"running", "exporting", "failed"} /\ ~r.late
         \/ g \in ExportIds /\ to \in Outcomes
  PROVE  q.task = r.task /\ q.pc # "mem" /\ Agrees(g, q, row, map)
<1>1. /\ q.pc = "sql" /\ q.to = to /\ q.st = r.st /\ q.task = r.task /\ q.late = r.late
  BY DEF Transit, Goroutine
<1>2. CASE g \in PollIds
  BY <1>1, <1>2, Kinds DEF Agrees, PollRole, PollKnows, Outcomes
<1>3. CASE g \in ExportIds
  BY <1>1, <1>3, Kinds DEF Agrees, ExportRole, ExportKnows
<1> QED  BY <1>2, <1>3

LEMMA StartJobQuietly ==
  ASSUME Inv, AllAgree, NEW g \in DOMAIN go, NEW r, r = go[g], StartJob(g, r)
  PROVE  Quietly(g, r)
<1>1. /\ Agrees(g, r, rows[r.task], Running) /\ r \in Goroutine /\ r.pc = "start"
      /\ r.to = "running" /\ (g \in WaveIds \/ g \in PollIds)
  BY Itself2 DEF StartJob, Agrees, ExportRole, RequestRole, GoodCopy
<1>2. ASSUME NEW w \in WorkIds,
             Goto(g, [r EXCEPT !.work = w, !.pc = IF g \in WaveIds THEN "limit" ELSE "sql"])
      PROVE  Quietly(g, r)
  <2> DEFINE q == [r EXCEPT !.work = w, !.pc = IF g \in WaveIds THEN "limit" ELSE "sql"]
  <2>1. /\ q.pc = IF g \in WaveIds THEN "limit" ELSE "sql"
        /\ q.task = r.task /\ q.st = r.st /\ q.to = r.to /\ q.late = r.late
    BY <1>1 DEF Goroutine
  <2>2. Goto(g, q)
    BY <1>2
  <2> HIDE DEF q
  <2>3. CASE g \in WaveIds
    <3>1. Agrees(g, q, rows[r.task], Running)
      BY <1>1, <2>1, <2>3, Kinds DEF Agrees, WaveRole, WaveKnows
    <3> QED  BY <2>1, <2>2, <2>3, <3>1 DEF Quietly
  <2>4. CASE g \in PollIds
    <3>1. Agrees(g, q, rows[r.task], Running)
      BY <1>1, <2>1, <2>4, Kinds DEF Agrees, PollRole, PollKnows
    <3> QED  BY <2>1, <2>2, <2>4, <3>1, Kinds DEF Quietly
  <2> QED  BY <1>1, <2>3, <2>4
<1>3. ASSUME g \notin WaveIds, Goto(g, Transit(r, "failed"))
      PROVE  Quietly(g, r)
  <2>1. ~r.late /\ g \in PollIds
    BY <1>1, <1>3 DEF Agrees, PollRole
  <2>2. Transit(r, "failed").task = r.task /\ Transit(r, "failed").pc # "mem"
        /\ Agrees(g, Transit(r, "failed"), rows[r.task], Running)
    BY <1>1, <2>1, TransitAgrees DEF RowStatus
  <2> QED  BY <1>3, <2>2 DEF Quietly
<1> QED  BY <1>2, <1>3 DEF StartJob, StartFails, Quietly

LEMMA LimitCheckQuietly ==
  ASSUME Inv, AllAgree, NEW g \in DOMAIN go, NEW r, r = go[g], LimitCheck(g, r)
  PROVE  Quietly(g, r)
<1>1. /\ Agrees(g, r, rows[r.task], Running) /\ r \in Goroutine /\ r.pc = "limit"
      /\ r.to = "running" /\ g \in WaveIds
  BY Itself2 DEF LimitCheck, Agrees, PollRole, ExportRole, RequestRole, GoodCopy
<1>2. ASSUME NEW q \in {[r EXCEPT !.pc = "stop", !.to = "none"], [r EXCEPT !.pc = "sql"]}
      PROVE  q.task = r.task /\ q.pc # "mem" /\ Agrees(g, q, rows[r.task], Running)
  <2>1. /\ q.pc = "stop" \/ (q.pc = "sql" /\ q.to = r.to)
        /\ q.task = r.task /\ q.st = r.st /\ q.late = r.late
    BY <1>1, <1>2 DEF Goroutine
  <2> QED  BY <1>1, <2>1, Kinds DEF Agrees, WaveRole, WaveKnows
<1> QED  BY <1>2 DEF LimitCheck, Quietly

LEMMA LearnQuietly ==
  ASSUME NEW g, NEW r \in Goroutine, Agrees(g, r, rows[r.task], Running), r.pc = "query",
         g \in PollIds, NEW s, Learn(g, r, s)
  PROVE  Quietly(g, r)
<1>1. ~r.late
  BY DEF Agrees, PollRole
<1>2. ASSUME NEW to \in {"exporting", "failed"}, Goto(g, Transit(r, to))
      PROVE  Quietly(g, r)
  <2>1. Transit(r, to).task = r.task /\ Transit(r, to).pc # "mem"
        /\ Agrees(g, Transit(r, to), rows[r.task], Running)
    BY <1>1, TransitAgrees DEF RowStatus
  <2> QED  BY <1>2, <2>1 DEF Quietly
<1>3. ASSUME Goto(g, [Transit(r, "failed") EXCEPT !.late = TRUE])
      PROVE  Quietly(g, r)
  <2> DEFINE q == [Transit(r, "failed") EXCEPT !.late = TRUE]
  <2>1. q.pc = "sql" /\ q.to = "failed" /\ q.st = r.st /\ q.task = r.task
    BY DEF Transit, Goroutine
  <2>2. Goto(g, q)
    BY <1>3
  <2> HIDE DEF q
  <2>3. Agrees(g, q, rows[r.task], Running)
    BY <2>1, Kinds DEF Agrees, PollRole, PollKnows
  <2> QED  BY <2>1, <2>2, <2>3 DEF Quietly
<1>4. ASSUME Goto(g, [r EXCEPT !.pc = "start", !.att = @ + 1, !.to = "running"])
      PROVE  Quietly(g, r)
  <2> DEFINE q == [r EXCEPT !.pc = "start", !.att = @ + 1, !.to = "running"]
  <2>1. q.pc = "start" /\ q.st = r.st /\ q.task = r.task /\ q.late = r.late
    BY DEF Goroutine
  <2>2. Goto(g, q)
    BY <1>4
  <2> HIDE DEF q
  <2>3. Agrees(g, q, rows[r.task], Running)
    BY <2>1, <1>1, Kinds DEF Agrees, PollRole, PollKnows
  <2> QED  BY <2>1, <2>2, <2>3 DEF Quietly
<1>5. Exit(g) => Quietly(g, r)
  BY DEF Quietly
<1> QED  BY <1>2, <1>3, <1>4, <1>5 DEF Learn

LEMMA QueryQuietly ==
  ASSUME Inv, AllAgree, NEW g \in DOMAIN go, NEW r, r = go[g], GetAsyncTaskStatus(g, r)
  PROVE  Quietly(g, r)
<1>1. /\ Agrees(g, r, rows[r.task], Running) /\ r \in Goroutine /\ r.pc = "query"
      /\ g \in PollIds
  BY Itself2 DEF GetAsyncTaskStatus, Agrees, WaveRole, ExportRole, RequestRole
<1> QED  BY <1>1, LearnQuietly DEF GetAsyncTaskStatus

LEMMA StopJobQuietly ==
  ASSUME Inv, AllAgree, NEW g \in DOMAIN go, NEW r, r = go[g], StopJob(g, r)
  PROVE  Quietly(g, r)
<1>1. /\ Agrees(g, r, rows[r.task], Running) /\ r \in Goroutine /\ GoodCopy(r) /\ r.pc = "stop"
      /\ (g \in WaveIds \/ g \in PollIds)
  BY Itself2 DEF StopJob, Agrees, ExportRole, RequestRole
<1>2. CASE r.to = "none"
  BY <1>2 DEF StopJob, Quietly
<1>3. CASE r.to # "none"
  <2>1. g \in WaveIds /\ r.to = "failed" /\ Goto(g, Transit(r, r.to))
    BY <1>1, <1>3 DEF Agrees, PollRole, GoodCopy, StopJob
  <2> DEFINE q == Transit(r, r.to)
  <2>2. q.pc = "sql" /\ q.to = "failed" /\ q.st = r.st /\ q.task = r.task /\ q.late = r.late
    BY <2>1, <1>1 DEF Transit, Goroutine
  <2>3. Goto(g, q)
    BY <2>1
  <2> HIDE DEF q
  <2>4. Agrees(g, q, rows[r.task], Running)
    BY <1>1, <2>1, <2>2, Kinds DEF Agrees, WaveRole, WaveKnows
  <2> QED  BY <2>2, <2>3, <2>4 DEF Quietly
<1> QED  BY <1>2, <1>3

LEMMA OutputQuietly ==
  ASSUME Inv, AllAgree, NEW g \in DOMAIN go, NEW r, r = go[g], GetOutput(g, r)
  PROVE  Quietly(g, r)
<1>1. /\ Agrees(g, r, rows[r.task], Running) /\ r \in Goroutine /\ r.pc = "output"
      /\ g \in ExportIds
  BY Itself2 DEF GetOutput, Agrees, WaveRole, PollRole, RequestRole
<1>2. ASSUME Goto(g, Transit(r, "failed"))
      PROVE  Quietly(g, r)
  <2>1. Transit(r, "failed").task = r.task /\ Transit(r, "failed").pc # "mem"
        /\ Agrees(g, Transit(r, "failed"), rows[r.task], Running)
    BY <1>1, TransitAgrees DEF RowStatus, Outcomes
  <2> QED  BY <1>2, <2>1 DEF Quietly
<1>3. ASSUME Goto(g, [r EXCEPT !.pc = "save"])
      PROVE  Quietly(g, r)
  <2> DEFINE q == [r EXCEPT !.pc = "save"]
  <2>1. q.pc = "save" /\ q.st = r.st /\ q.task = r.task /\ q.late = r.late
    BY <1>1 DEF Goroutine
  <2>2. Goto(g, q)
    BY <1>3
  <2> HIDE DEF q
  <2>3. Agrees(g, q, rows[r.task], Running)
    BY <1>1, <2>1, Kinds DEF Agrees, ExportRole, ExportKnows
  <2> QED  BY <2>1, <2>2, <2>3 DEF Quietly
<1> QED  BY <1>2, <1>3 DEF GetOutput

LEMMA SaveQuietly ==
  ASSUME Inv, AllAgree, NEW g \in DOMAIN go, NEW r, r = go[g], DataPersistence(g, r)
  PROVE  Quietly(g, r)
<1>1. /\ Agrees(g, r, rows[r.task], Running) /\ r \in Goroutine /\ r.pc = "save"
      /\ g \in ExportIds
  BY Itself2 DEF DataPersistence, Agrees, WaveRole, PollRole, RequestRole
<1>2. ASSUME NEW to \in Outcomes, Goto(g, Transit(r, to))
      PROVE  Quietly(g, r)
  <2>1. Transit(r, to).task = r.task /\ Transit(r, to).pc # "mem"
        /\ Agrees(g, Transit(r, to), rows[r.task], Running)
    BY <1>1, TransitAgrees DEF RowStatus, Outcomes
  <2> QED  BY <1>2, <2>1 DEF Quietly
<1> QED  BY <1>2 DEF DataPersistence, Outcomes

-----------------------------------------------------------------------------
(* Statements.                                                             *)

LEMMA UpdatedRow ==
  ASSUME TableTypeOK, NEW t \in Tasks, NEW to \in RowStatus, NEW w, Update(t, to, w)
  PROVE  /\ rows'[t].status = to /\ rows'[t].deleted = rows[t].deleted
         /\ rows'[t].work = IF to = "running" THEN w ELSE rows[t].work
         /\ \A u \in Tasks \ {t} : rows'[u] = rows[u]
<1> DEFINE v == [rows[t] EXCEPT !.status = to,
                                !.work = IF to = "running" THEN w ELSE rows[t].work]
<1>1. rows[t] \in Row /\ rows \in [Tasks -> Row]
  BY DEF TableTypeOK
<1>2. /\ v.status = to /\ v.deleted = rows[t].deleted
      /\ v.work = IF to = "running" THEN w ELSE rows[t].work
  BY <1>1 DEF Row
<1>3. rows' = [rows EXCEPT ![t] = v]
  BY DEF Update, RowStatus
<1> HIDE DEF v
<1> QED  BY <1>1, <1>2, <1>3

\* One task is touched.
LEMMA OneTouched ==
  ASSUME AllAgree, NEW t \in Tasks, \A u \in Tasks \ {t} : SameTask(u), TaskAgrees(t)',
         \A h \in DOMAIN go' : go'[h].task # t => h \in DOMAIN go /\ go'[h] = go[h],
         \A h \in DOMAIN go : go[h].task # t => h \in DOMAIN go' /\ go'[h] = go[h]
  PROVE  AllAgree'
<1>1. ASSUME NEW u \in Tasks, u # t
      PROVE  TaskAgrees(u)'
  <2>1. QuietGo(u)
    BY <1>1 DEF QuietGo, GoOf
  <2> QED  BY <2>1, <1>1, Untouched DEF AllAgree
<1> QED  BY <1>1 DEF AllAgree

\* The same, when all that happens to the goroutines is that one of the task moves on.
LEMMA OneMoves ==
  ASSUME AllAgree, NEW t \in Tasks, \A u \in Tasks \ {t} : SameTask(u), TaskAgrees(t)',
         NEW g \in GoOf(t), Exit(g) \/ \E q : q.task = t /\ Goto(g, q)
  PROVE  AllAgree'
<1>1. g \in DOMAIN go /\ go[g].task = t
  BY DEF GoOf
<1>2. CASE Exit(g)
  <2>1. DOMAIN go' = DOMAIN go \ {g} /\ \A h \in DOMAIN go' : go'[h] = go[h]
    BY <1>2 DEF Exit, Without, Restrict
  <2> QED  BY <1>1, <2>1, OneTouched
<1>3. ASSUME NEW q, q.task = t, Goto(g, q)
      PROVE  AllAgree'
  <2>1. DOMAIN go' = DOMAIN go /\ \A h \in DOMAIN go' : go'[h] = IF h = g THEN q ELSE go[h]
    BY <1>1, <1>3 DEF Goto, Put
  <2> QED  BY <1>1, <1>3, <2>1, OneTouched
<1> QED  BY <1>2, <1>3

\* A goroutine of a task that no other one relies on is all there is afterwards.
LEMMA MovesAlone ==
  ASSUME NEW t \in Tasks, NEW g \in GoOf(t), \A h \in GoOf(t) : h # g => Passive(h, go[h]),
         Exit(g) \/ \E q : q.task = t /\ Goto(g, q)
  PROVE  AloneWith(g, t)
<1>1. g \in DOMAIN go
  BY DEF GoOf
<1>2. \A h \in DOMAIN go' : h # g => h \in DOMAIN go /\ go'[h] = go[h]
  BY <1>1 DEF Exit, Without, Restrict, Goto, Put
<1> QED  BY <1>2 DEF AloneWith, GoOf

\* A poll goroutine that has not written to the table finds its row in it.
LEMMA PollFinds ==
  ASSUME Inv, AllAgree, NEW g \in DOMAIN go, NEW r, r = go[g], g \in PollIds, r.pc # "stop",
         ~LeavesMap(g, r)
  PROVE  RunsInTable(r.task) /\ r.task \in Running /\ g = <<"poll", r.task>>
<1>1. r.task \in Tasks /\ TaskAgrees(r.task) /\ Agrees(g, r, rows[r.task], Running)
  BY Itself2
<1>2. r.task \in Running /\ g = <<"poll", r.task>>
  BY <1>1 DEF Agrees, PollKnows
<1>3. ~Leaving(r.task)
  <2> SUFFICES ASSUME NEW h \in GoOf(r.task), LeavesMap(h, go[h]) PROVE FALSE
    BY DEF Leaving
  <2>1. Agrees(h, go[h], rows[r.task], Running) /\ go[h].task = r.task
    BY <1>1 DEF TaskAgrees, GoOf
  <2>2. h = g
    BY <2>1, <1>2 DEF Agrees, LeavesMap
  <2> QED  BY <2>2
<1> QED  BY <1>1, <1>2, <1>3, MapTask

\* A compare and set that fails.
LEMMA SqlFailsQuietly ==
  ASSUME Inv, AllAgree, NEW g \in DOMAIN go, NEW r, r = go[g], r.pc = "sql",
         ~Found(r.task, r.st), SqlFails(g, r)
  PROVE  Quietly(g, r)
<1>1. /\ Agrees(g, r, rows[r.task], Running) /\ r \in Goroutine
      /\ g \in WaveIds \/ g \in PollIds \/ g \in ExportIds \/ g \in RequestIds
  BY Itself2
<1>2. CASE g \in WaveIds
  <2>1. r.to \in {"running", "failed"} /\ r.st = "waiting" /\ ~r.late
    BY <1>1, <1>2 DEF Agrees, WaveRole
  <2>2. CASE r.to = "failed"
    BY <2>2 DEF SqlFails, Quietly
  <2>3. CASE r.to = "running"
    <3> DEFINE q == [r EXCEPT !.pc = "stop", !.to = "failed"]
    <3>1. q.pc = "stop" /\ q.st = r.st /\ q.task = r.task /\ q.late = r.late
      BY <1>1 DEF Goroutine
    <3>2. Goto(g, q)
      BY <2>3 DEF SqlFails
    <3> HIDE DEF q
    <3>3. Agrees(g, q, rows[r.task], Running)
      BY <1>1, <1>2, <3>1, Kinds DEF Agrees, WaveRole, WaveKnows
    <3> QED  BY <3>1, <3>2, <3>3 DEF Quietly
  <2> QED  BY <2>1, <2>2, <2>3
<1>3. CASE g \in PollIds
  <2>1. RunsInTable(r.task) /\ r.st = "running"
    BY <1>1, <1>3, PollFinds DEF LeavesMap, Agrees, PollRole
  <2> QED  BY <2>1 DEF RunsInTable, Found, Live
<1>4. CASE g \in ExportIds
  <2>1. r.to \in Outcomes
    BY <1>1, <1>4 DEF Agrees, ExportRole
  <2>2. CASE r.to = "failed"
    BY <2>2 DEF SqlFails, Quietly
  <2>3. CASE r.to = "success"
    <3>1. Transit(r, "failed").task = r.task /\ Transit(r, "failed").pc # "mem"
          /\ Agrees(g, Transit(r, "failed"), rows[r.task], Running)
      BY <1>1, <1>4, TransitAgrees DEF RowStatus, Outcomes
    <3> QED  BY <3>1, <2>3 DEF SqlFails, Quietly
  <2> QED  BY <2>1, <2>2, <2>3 DEF Outcomes
<1>5. CASE g \in RequestIds
  <2>1. r.to = "delete"
    BY <1>1, <1>5 DEF Agrees, RequestRole
  <2> QED  BY <2>1 DEF SqlFails, Quietly
<1> QED  BY <1>1, <1>2, <1>3, <1>4, <1>5

\* A compare and set that does not delete.
LEMMA SqlAgrees ==
  ASSUME Inv, AllAgree, NEW g \in DOMAIN go, NEW r, r = go[g], r.pc = "sql", r.to # "delete",
         Found(r.task, r.st), Update(r.task, r.to, r.work),
         Goto(g, [r EXCEPT !.pc = "mem", !.st = r.to]),
         UNCHANGED <<runningTaskMap, boot>>
  PROVE  AllAgree'
<1> DEFINE t == r.task
           q == [r EXCEPT !.pc = "mem", !.st = r.to]
<1>1. /\ Agrees(g, r, rows[t], Running) /\ r \in Goroutine /\ t \in Tasks /\ g \in GoOf(t)
      /\ g \in WaveIds \/ g \in PollIds \/ g \in ExportIds \/ g \in RequestIds
      /\ TaskAgrees(t)
  BY Itself2
<1>2. /\ q.pc = "mem" /\ q.to = r.to /\ q.st = r.to /\ q.task = t /\ q.work = r.work
      /\ q.late = r.late
  BY <1>1 DEF Goroutine
<1>3. /\ rows'[t].status = r.to /\ rows'[t].deleted = rows[t].deleted
      /\ rows'[t].work = IF r.to = "running" THEN r.work ELSE rows[t].work
      /\ \A u \in Tasks \ {t} : rows'[u] = rows[u]
  BY <1>1, UpdatedRow DEF Inv, Goroutine
<1>4. Running' = Running
  BY DEF Running
<1>5. rows[t].status = r.st /\ ~rows[t].deleted
  BY DEF Found, Live
<1>6. /\ DOMAIN go' = DOMAIN go /\ go'[g] = q /\ g \in GoOf(t)'
      /\ Goto(g, q)
  BY <1>1, <1>2 DEF Goto, Put, GoOf
<1> HIDE DEF q
<1>7. \A u \in Tasks \ {t} : SameTask(u)
  BY <1>3, <1>4 DEF SameTask
<1>8. CASE g \in WaveIds
  <2>1. r.to \in {"running", "failed"} /\ r.st = "waiting" /\ ~r.late
    BY <1>1, <1>8 DEF Agrees, WaveRole
  <2>2. t \notin Running /\ \A h \in GoOf(t) : Passive(h, go[h])
    BY <1>1, <1>5, <2>1, IdleTask
  <2>3. AloneWith(g, t)
    BY <1>1, <1>2, <1>6, <2>2, MovesAlone
  <2>4. Agrees(g, q, rows'[t], Running')
    BY <1>2, <1>3, <1>5, <1>8, <2>1, Kinds DEF Agrees, WaveRole, WaveKnows
  <2>5. RunsInTable(t)' => EntersMap(g, q)
    BY <1>2, <1>3, <1>8 DEF RunsInTable, EntersMap
  <2>6. TaskAgrees(t)'
    BY <1>1, <1>3, <1>4, <1>5, <1>6, <2>2, <2>3, <2>4, <2>5, AloneAgrees
  <2> QED  BY <1>1, <1>2, <1>6, <1>7, <2>6, OneMoves
<1>9. CASE g \in PollIds
  <2>1. r.to \in {"running", "exporting", "failed"} /\ t \in Running /\ g = <<"poll", t>>
    BY <1>1, <1>9 DEF Agrees, PollRole, PollKnows
  <2>2. AloneWith(g, t)
    BY <1>1, <1>2, <1>6, <2>1, MapTask, MovesAlone
  <2>3. Agrees(g, q, rows'[t], Running')
    BY <1>1, <1>2, <1>3, <1>4, <1>9, <2>1, Kinds DEF Agrees, PollRole, PollKnows
  <2>4. RunsInTable(t)' \/ LeavesMap(g, q)
    BY <1>2, <1>3, <1>5, <1>9 DEF RunsInTable, LeavesMap
  <2>5. ~Holds(g, q)
    BY <1>9, Kinds DEF Holds
  <2>6. TaskAgrees(t)'
    BY <1>1, <1>3, <1>4, <1>5, <1>6, <2>1, <2>2, <2>3, <2>4, <2>5, AloneAgrees
  <2> QED  BY <1>1, <1>2, <1>6, <1>7, <2>6, OneMoves
<1>10. CASE g \in ExportIds
  <2>1. r.to \in Outcomes
    BY <1>1, <1>10 DEF Agrees, ExportRole
  <2>2. t \notin Running /\ \A h \in GoOf(t) : h # g => Passive(h, go[h])
    BY <1>1, <1>10, HeldTask DEF Holds
  <2>3. AloneWith(g, t)
    BY <1>1, <1>2, <1>6, <2>2, MovesAlone
  <2>4. Agrees(g, q, rows'[t], Running')
    BY <1>1, <1>2, <1>3, <1>10, <2>1, Kinds DEF Agrees, ExportRole, ExportKnows
  <2>5. ~RunsInTable(t)'
    BY <1>3, <2>1 DEF RunsInTable, Outcomes
  <2>6. TaskAgrees(t)'
    BY <1>1, <1>3, <1>4, <1>5, <1>6, <2>2, <2>3, <2>4, <2>5, AloneAgrees
  <2> QED  BY <1>1, <1>2, <1>6, <1>7, <2>6, OneMoves
<1>11. CASE g \in RequestIds
  BY <1>1, <1>11 DEF Agrees, RequestRole
<1> QED  BY <1>1, <1>8, <1>9, <1>10, <1>11

\* Requests come one after the other.
LEMMA OneRequest ==
  ASSUME Calm, NEW g \in RequestIds, NEW h \in RequestIds
  PROVE  g = h
<1>1. g = <<"request", g[2]>> /\ h = <<"request", h[2]>> /\ g[2] \in 1..Clients /\ h[2] \in 1..Clients
  BY DEF RequestIds
<1>2. g[2] = 1 /\ h[2] = 1
  BY <1>1, WebAssumption DEF Calm
<1> QED  BY <1>1, <1>2

\* A row is deleted.
LEMMA DeleteAgrees ==
  ASSUME Calm, Inv, AllAgree, NEW g \in DOMAIN go, NEW r, r = go[g], r.pc = "sql",
         r.to = "delete", Found(r.task, r.st), Update(r.task, r.to, r.work), Exit(g),
         UNCHANGED <<runningTaskMap, boot>>
  PROVE  AllAgree'
<1> DEFINE t == r.task
<1>1. /\ Agrees(g, r, rows[t], Running) /\ r \in Goroutine /\ t \in Tasks /\ g \in GoOf(t)
      /\ g \in WaveIds \/ g \in PollIds \/ g \in ExportIds \/ g \in RequestIds
      /\ TaskAgrees(t)
  BY Itself2
<1>2. g \in RequestIds /\ r.st \in OverStatus
  BY <1>1, Kinds DEF Agrees, WaveRole, PollRole, ExportRole, RequestRole, Outcomes
<1>3. /\ rows'[t].status = rows[t].status /\ rows'[t].deleted = TRUE
      /\ rows[t].status = r.st
      /\ \A u \in Tasks \ {t} : rows'[u] = rows[u]
  <2>1. Arrow(r.st, r.to) /\ r.st \in RowStatus /\ r.work \in WorkIds \cup {NoWork}
        /\ r.to \in RowStatus \cup {"delete"}
    BY Itself DEF GoodCopy
  <2> QED  BY <1>1, <2>1, Updated DEF Inv, Found
<1>4. Running' = Running
  BY DEF Running
<1>5. \A u \in Tasks \ {t} : SameTask(u)
  BY <1>3, <1>4 DEF SameTask
<1>6. DOMAIN go' = DOMAIN go \ {g} /\ \A h \in DOMAIN go' : go'[h] = go[h]
  BY DEF Exit, Without, Restrict
<1>7. GoOf(t)' = GoOf(t) \ {g} /\ \A h \in GoOf(t)' : go'[h] = go[h]
  BY <1>6 DEF GoOf
<1>8. ASSUME NEW h \in GoOf(t)'
      PROVE  Agrees(h, go'[h], rows'[t], Running')
  <2>1. h \in GoOf(t) /\ go'[h] = go[h] /\ h \notin RequestIds
    BY <1>2, <1>7, OneRequest
  <2>2. Agrees(h, go[h], rows[t], Running)
    BY <1>1, <2>1 DEF TaskAgrees
  <2>3. WaveKnows(go[h], rows[t]) => WaveKnows(go[h], rows'[t])
    BY <1>2, <1>3 DEF WaveKnows, OverStatus
  <2>4. PollKnows(go[h], rows[t], Running) => PollKnows(go[h], rows'[t], Running')
    BY <1>3, <1>4 DEF PollKnows
  <2>5. ExportKnows(go[h], rows[t]) => ExportKnows(go[h], rows'[t])
    BY <1>2, <1>3 DEF ExportKnows, OverStatus
  <2> QED  BY <2>1, <2>2, <2>3, <2>4, <2>5 DEF Agrees
<1>9. OneHolder(t)'
  BY <1>1, <1>4, <1>7 DEF TaskAgrees, OneHolder, Holds
<1>10. ~RunsInTable(t) /\ ~RunsInTable(t)'
  BY <1>2, <1>3 DEF RunsInTable, OverStatus
<1>11. Leaving(t) => Leaving(t)'
  BY <1>2, <1>7, Kinds DEF Leaving, LeavesMap
<1>12. TaskAgrees(t)'
  BY <1>1, <1>2, <1>3, <1>4, <1>8, <1>9, <1>10, <1>11 DEF TaskAgrees
<1> QED  BY <1>1, <1>5, <1>12, OneMoves

LEMMA SqlStepAgrees ==
  ASSUME Calm, Inv, AllAgree, NEW g \in DOMAIN go, NEW r, r = go[g], Sql(g, r), UNCHANGED boot
  PROVE  AllAgree'
<1>1. runningTaskMap' = runningTaskMap /\ r.pc = "sql"
  BY DEF Sql, memoryVars
<1>2. CASE Found(r.task, r.st) /\ Update(r.task, r.to, r.work)
           /\ IF r.to = "delete" THEN Exit(g) ELSE Goto(g, [r EXCEPT !.pc = "mem", !.st = r.to])
  BY <1>1, <1>2, SqlAgrees, DeleteAgrees
<1>3. CASE ~Found(r.task, r.st) /\ UNCHANGED tableVars /\ SqlFails(g, r)
  <2>1. \A t \in Tasks : SameTask(t)
    BY <1>1, <1>3, SameTasks DEF tableVars
  <2>2. Quietly(g, r) /\ ~EntersMap(g, r) /\ ~LeavesMap(g, r)
    BY <1>1, <1>3, SqlFailsQuietly DEF EntersMap, LeavesMap
  <2> QED  BY <2>1, <2>2, QuietAgrees
<1> QED  BY <1>2, <1>3 DEF Sql, Fault, Calm

-----------------------------------------------------------------------------
(* The memory.                                                             *)

LEMMA EnteredMap ==
  ASSUME NEW t, NEW w, NEW a, EnterMemory(t, w, a)
  PROVE  Running' = Running \cup {t}
BY DEF EnterMemory, Put, Running

LEMMA LeftMap ==
  ASSUME NEW t, LeaveMemory(t)
  PROVE  Running' = Running \ {t}
BY DEF LeaveMemory, Without, Restrict, Running

LEMMA MemoryStepAgrees ==
  ASSUME Inv, AllAgree, NEW g \in DOMAIN go, NEW r, r = go[g], Memory(g, r), UNCHANGED boot
  PROVE  AllAgree'
<1> DEFINE t == r.task
           q == [r EXCEPT !.pc = "stop", !.to = "none"]
<1>1. /\ Agrees(g, r, rows[t], Running) /\ r \in Goroutine /\ t \in Tasks /\ g \in GoOf(t)
      /\ g \in WaveIds \/ g \in PollIds \/ g \in ExportIds \/ g \in RequestIds
      /\ TaskAgrees(t)
  BY Itself2
<1>2. r.pc = "mem" /\ rows' = rows
  BY DEF Memory, tableVars
<1>3. q.pc = "stop" /\ q.to = "none" /\ q.task = t
  BY <1>1 DEF Goroutine
<1>4. /\ r.to = "running" => EnterMemory(t, r.work, r.att) /\ Exit(g)
      /\ r.to \in {"failed", "success"} =>
           LeaveMemory(t) /\ IF r.late THEN Goto(g, q) ELSE Exit(g)
      /\ r.to = "exporting" =>
           /\ LeaveMemory(t)
           /\ \E e \in ExportIds :
                /\ e \notin DOMAIN go
                /\ go' = Put(Without(go, g), e, [r EXCEPT !.pc = "output", !.to = "success"])
  BY DEF Memory, Outcomes, Free
<1> HIDE DEF q
<1>5. \A u \in Tasks \ {t} : r.to \in {"running", "failed", "success", "exporting"} => SameTask(u)
  BY <1>2, <1>4, EnteredMap, LeftMap DEF SameTask
<1>6. CASE g \in WaveIds
  <2>1. r.to \in {"running", "failed"} /\ ~r.late
    BY <1>1, <1>2, <1>6 DEF Agrees, WaveRole
  <2>2. t \notin Running /\ \A h \in GoOf(t) : h # g => Passive(h, go[h])
    BY <1>1, <1>2, <1>6, HeldTask DEF Holds
  <2>3. Exit(g) /\ AloneWith(g, t) /\ g \notin GoOf(t)'
    <3>1. Exit(g)
      BY <1>4, <2>1
    <3>2. g \notin DOMAIN go'
      BY <3>1 DEF Exit, Without, Restrict
    <3> QED  BY <1>1, <2>2, <3>1, <3>2, MovesAlone DEF GoOf
  <2>4. CASE r.to = "running"
    <3>1. Running' = Running \cup {t} /\ RunsInTable(t)'
      BY <1>1, <1>2, <1>4, <1>6, <2>4, EnteredMap DEF Agrees, WaveKnows, RunsInTable
    <3>2. TaskAgrees(t)'
      BY <1>1, <1>2, <2>3, <3>1, AloneAgrees DEF RunsInTable
    <3> QED  BY <1>1, <1>5, <2>3, <2>4, <3>2, OneMoves
  <2>5. CASE r.to = "failed"
    <3>1. t \notin Running' /\ ~RunsInTable(t)'
      BY <1>1, <1>2, <1>4, <1>6, <2>5, LeftMap DEF Agrees, WaveKnows, RunsInTable
    <3>2. rows'[t].deleted => rows'[t].status \in OverStatus
      BY <1>1, <1>2 DEF TaskAgrees
    <3>3. TaskAgrees(t)'
      BY <1>1, <2>3, <3>1, <3>2, AloneAgrees
    <3> QED  BY <1>1, <1>5, <2>3, <2>5, <3>3, OneMoves
  <2> QED  BY <2>1, <2>4, <2>5
<1>7. CASE g \in ExportIds
  <2>1. r.to \in {"success", "failed"} /\ ~r.late
    BY <1>1, <1>2, <1>7 DEF Agrees, ExportRole, Outcomes
  <2>2. t \notin Running /\ \A h \in GoOf(t) : h # g => Passive(h, go[h])
    BY <1>1, <1>7, HeldTask DEF Holds
  <2>3. Exit(g) /\ AloneWith(g, t) /\ g \notin GoOf(t)'
    <3>1. Exit(g)
      BY <1>4, <2>1
    <3>2. g \notin DOMAIN go'
      BY <3>1 DEF Exit, Without, Restrict
    <3> QED  BY <1>1, <2>2, <3>1, <3>2, MovesAlone DEF GoOf
  <2>4. t \notin Running' /\ ~RunsInTable(t)'
    BY <1>1, <1>2, <1>4, <1>7, <2>1, LeftMap DEF Agrees, ExportKnows, RunsInTable, Outcomes
  <2>5. rows'[t].deleted => rows'[t].status \in OverStatus
    BY <1>1, <1>2 DEF TaskAgrees
  <2>6. TaskAgrees(t)'
    BY <1>1, <2>3, <2>4, <2>5, AloneAgrees
  <2> QED  BY <1>1, <1>5, <2>1, <2>3, <2>6, OneMoves
<1>8. CASE g \in PollIds
  <2>1. /\ r.to \in {"running", "exporting", "failed"} /\ t \in Running /\ g = <<"poll", t>>
        /\ rows[t].status = r.to
    BY <1>1, <1>2, <1>8 DEF Agrees, PollRole, PollKnows
  <2>2. /\ \A h \in GoOf(t) : h # g => Passive(h, go[h])
        /\ rows'[t].deleted => rows'[t].status \in OverStatus
    BY <1>1, <1>2, <2>1, MapTask DEF TaskAgrees
  <2>3. CASE r.to = "running"
    <3>1. RunsInTable(t)' /\ Running' = Running \cup {t} /\ Exit(g)
      BY <1>2, <1>4, <1>8, <2>3, PollFinds, EnteredMap DEF LeavesMap, RunsInTable
    <3>2. g \notin GoOf(t)'
      BY <3>1 DEF Exit, Without, Restrict, GoOf
    <3>3. AloneWith(g, t)
      BY <1>1, <2>2, <3>1, MovesAlone
    <3>4. TaskAgrees(t)'
      BY <1>1, <2>1, <2>2, <3>1, <3>2, <3>3, AloneAgrees
    <3> QED  BY <1>1, <1>5, <2>3, <3>1, <3>4, OneMoves
  <2>4. CASE r.to = "failed"
    <3>1. t \notin Running' /\ ~RunsInTable(t)'
      BY <1>2, <1>4, <2>1, <2>4, LeftMap DEF RunsInTable
    <3>2. Exit(g) \/ Goto(g, q)
      BY <1>4, <2>4
    <3>3. g \in GoOf(t)' => go'[g] = q
      BY <3>2 DEF GoOf, Exit, Without, Restrict, Goto, Put
    <3>4. Agrees(g, q, rows'[t], Running')
      BY <1>3, <1>8, <2>1, Kinds DEF Agrees, PollRole, PollKnows
    <3>5. AloneWith(g, t)
      BY <1>1, <1>3, <2>2, <3>2, MovesAlone
    <3>6. TaskAgrees(t)'
      BY <1>1, <2>2, <3>1, <3>3, <3>4, <3>5, AloneAgrees
    <3> QED  BY <1>1, <1>3, <1>5, <2>4, <3>2, <3>6, OneMoves
  <2>5. CASE r.to = "exporting"
    <3> DEFINE x == [r EXCEPT !.pc = "output", !.to = "success"]
    <3>1. /\ x.pc = "output" /\ x.task = t /\ x.st = r.st /\ x.late = r.late
          /\ r.st = r.to
      BY <1>1, <1>2, Itself2 DEF Goroutine, GoodCopy
    <3>2. PICK e \in ExportIds : e \notin DOMAIN go /\ go' = Put(Without(go, g), e, x)
      BY <1>4, <2>5
    <3> HIDE DEF x
    <3>3. /\ DOMAIN go' = (DOMAIN go \ {g}) \cup {e}
          /\ \A h \in DOMAIN go' : go'[h] = IF h = e THEN x ELSE go[h]
      BY <3>2 DEF Put, Without, Restrict
    <3>4. t \notin Running' /\ ~RunsInTable(t)'
      BY <1>2, <1>4, <2>1, <2>5, LeftMap DEF RunsInTable
    <3>5. ~r.late /\ ~rows[t].deleted
      BY <1>1, <1>2, <1>8, <2>1, <2>2, <2>5 DEF Agrees, PollRole, OverStatus
    <3>6. Agrees(e, x, rows'[t], Running')
      BY <1>2, <2>1, <2>5, <3>1, <3>2, <3>5, Kinds DEF Agrees, ExportRole, ExportKnows
    <3>7. AloneWith(e, t)
      BY <2>2, <3>3, <1>1 DEF AloneWith, GoOf
    <3>8. TaskAgrees(t)'
      BY <1>1, <2>2, <3>3, <3>4, <3>6, <3>7, AloneAgrees
    <3>9. /\ \A h \in DOMAIN go' : go'[h].task # t => h \in DOMAIN go /\ go'[h] = go[h]
          /\ \A h \in DOMAIN go : go[h].task # t => h \in DOMAIN go' /\ go'[h] = go[h]
      BY <1>1, <3>1, <3>2, <3>3
    <3> QED  BY <1>1, <1>5, <2>5, <3>8, <3>9, OneTouched
  <2> QED  BY <2>1, <2>3, <2>4, <2>5
<1>9. CASE g \in RequestIds
  BY <1>1, <1>2, <1>9 DEF Agrees, RequestRole
<1> QED  BY <1>1, <1>6, <1>7, <1>8, <1>9

-----------------------------------------------------------------------------
(* The other steps.                                                        *)

LEMMA AddTaskAgrees ==
  ASSUME Calm, Inv, AllAgree, NEW g \in DOMAIN go, NEW r, r = go[g], AddTask(g, r),
         UNCHANGED boot
  PROVE  AllAgree'
<1> DEFINE t == r.task
           q == [r EXCEPT !.pc = "upsert"]
<1>1. /\ Agrees(g, r, rows[t], Running) /\ r \in Goroutine /\ t \in Tasks /\ g \in GoOf(t)
      /\ g \in WaveIds \/ g \in PollIds \/ g \in ExportIds \/ g \in RequestIds
      /\ TaskAgrees(t)
  BY Itself2
<1>2. g \in RequestIds /\ r.pc \in {"push", "upsert"}
  BY <1>1, Kinds DEF Agrees, WaveRole, PollRole, ExportRole, RequestRole, AddTask
<1>3. q.pc = "upsert" /\ q.task = t
  BY <1>1 DEF Goroutine
<1>4. rows[t].status = "unstart" /\ ~rows[t].deleted
  BY <1>1, <1>2 DEF Agrees, RequestKnows
<1>5. /\ ~EntersMap(g, r) /\ ~LeavesMap(g, r)
      /\ Running' = Running
  BY <1>2 DEF EntersMap, LeavesMap, AddTask, memoryVars, AddMemory, StopMemory, Running
<1>6. \/ tableVars' = tableVars /\ Exit(g)
      \/ tableVars' = tableVars /\ r.pc = "push" /\ Goto(g, q)
      \/ Upsert(t) /\ Exit(g)
  BY <1>2 DEF AddTask, Fault, Calm
<1> HIDE DEF q
<1>7. CASE tableVars' = tableVars /\ (Exit(g) \/ Goto(g, q))
  <2>1. \A u \in Tasks : SameTask(u)
    BY <1>5, <1>7 DEF SameTask, tableVars
  <2>2. Agrees(g, q, rows[t], Running)
    BY <1>2, <1>3, <1>4, Kinds DEF Agrees, RequestRole, RequestKnows
  <2>3. Quietly(g, r)
    BY <1>3, <1>7, <2>2 DEF Quietly
  <2> QED  BY <1>5, <2>1, <2>3, QuietAgrees
<1>8. CASE Upsert(t) /\ Exit(g)
  <2>1. /\ rows'[t].status = "waiting" /\ ~rows'[t].deleted
        /\ \A u \in Tasks \ {t} : rows'[u] = rows[u]
    BY <1>1, <1>4, <1>8, Inserted DEF Upsert, Inv
  <2>2. t \notin Running /\ \A h \in GoOf(t) : h # g => Passive(h, go[h])
    BY <1>1, <1>2, <1>4, IdleTask, OneRequest
  <2>3. AloneWith(g, t) /\ g \notin GoOf(t)'
    <3>1. g \notin DOMAIN go'
      BY <1>8 DEF Exit, Without, Restrict
    <3> QED  BY <1>1, <1>8, <2>2, <3>1, MovesAlone DEF GoOf
  <2>4. ~RunsInTable(t)'
    BY <2>1 DEF RunsInTable
  <2>5. TaskAgrees(t)'
    BY <1>1, <1>5, <2>1, <2>2, <2>3, <2>4, AloneAgrees
  <2>6. \A u \in Tasks \ {t} : SameTask(u)
    BY <1>5, <2>1 DEF SameTask
  <2> QED  BY <1>1, <1>8, <2>5, <2>6, OneMoves
<1> QED  BY <1>6, <1>7, <1>8

LEMMA SavedRow ==
  ASSUME TableTypeOK, NEW t \in Tasks, NEW w, SaveOutput(t, w), NEW u \in Tasks
  PROVE  /\ rows'[u].status = rows[u].status /\ rows'[u].deleted = rows[u].deleted
         /\ rows'[u].work = rows[u].work
<1> DEFINE v == [rows[t] EXCEPT !.output = w]
<1>1. rows[t] \in Row /\ rows \in [Tasks -> Row]
  BY DEF TableTypeOK
<1>2. v.status = rows[t].status /\ v.deleted = rows[t].deleted /\ v.work = rows[t].work
  BY <1>1 DEF Row
<1>3. rows' = [rows EXCEPT ![t] = v]
  BY DEF SaveOutput
<1> HIDE DEF v
<1> QED  BY <1>1, <1>2, <1>3

LEMMA SaveStepAgrees ==
  ASSUME Inv, AllAgree, NEW g \in DOMAIN go, NEW r, r = go[g], DataPersistence(g, r),
         UNCHANGED boot
  PROVE  AllAgree'
<1>1. r.task \in Tasks /\ r.pc = "save"
  BY Itself2 DEF DataPersistence
<1>2. Running' = Running
  BY DEF DataPersistence, memoryVars, Running
<1>3. ASSUME NEW t \in Tasks
      PROVE  SameTask(t)
  <2>1. SaveOutput(r.task, r.work) \/ rows' = rows
    BY DEF DataPersistence, tableVars
  <2> QED  BY <1>1, <1>2, <2>1, SavedRow DEF SameTask, Inv
<1>4. Quietly(g, r) /\ ~EntersMap(g, r) /\ ~LeavesMap(g, r)
  BY <1>1, SaveQuietly DEF EntersMap, LeavesMap
<1> QED  BY <1>3, <1>4, QuietAgrees

LEMMA StepAgrees ==
  ASSUME Calm, Inv, AllAgree, NEW g \in GoIds, Step(g)
  PROVE  AllAgree'
<1> DEFINE r == go[g]
<1>1. g \in DOMAIN go /\ UNCHANGED boot
  BY DEF Step
<1>2. CASE StartJob(g, r) \/ LimitCheck(g, r) \/ GetAsyncTaskStatus(g, r) \/ StopJob(g, r)
           \/ GetOutput(g, r)
  <2>1. r.pc # "mem" /\ UNCHANGED <<rows, runningTaskMap>>
    BY <1>2 DEF StartJob, LimitCheck, GetAsyncTaskStatus, StopJob, GetOutput, tableVars, memoryVars
  <2>2. Quietly(g, r)
    BY <1>1, <1>2, StartJobQuietly, LimitCheckQuietly, QueryQuietly, StopJobQuietly, OutputQuietly
  <2>3. \A t \in Tasks : SameTask(t)
    BY <1>1, <2>1, SameTasks
  <2>4. ~EntersMap(g, r) /\ ~LeavesMap(g, r)
    BY <2>1 DEF EntersMap, LeavesMap
  <2> QED  BY <1>1, <2>2, <2>3, <2>4, QuietAgrees
<1>3. CASE DataPersistence(g, r)
  BY <1>1, <1>3, SaveStepAgrees
<1>4. CASE Sql(g, r)
  BY <1>1, <1>4, SqlStepAgrees
<1>5. CASE Memory(g, r)
  BY <1>1, <1>5, MemoryStepAgrees
<1>6. CASE AddTask(g, r)
  BY <1>1, <1>6, AddTaskAgrees
<1> QED  BY <1>2, <1>3, <1>4, <1>5, <1>6 DEF Step

\* Goroutines are launched, next to those that exist.
LEMMA SpawnAgrees ==
  ASSUME AllAgree, \A t \in Tasks : SameTask(t),
         \A h \in DOMAIN go : h \in DOMAIN go' /\ go'[h] = go[h],
         \A h \in DOMAIN go' \ DOMAIN go :
           /\ h \notin ExportIds /\ go'[h].pc # "mem"
           /\ Agrees(h, go'[h], rows[go'[h].task], Running)
  PROVE  AllAgree'
<1> SUFFICES ASSUME NEW t \in Tasks PROVE TaskAgrees(t)'
  BY DEF AllAgree
<1>1. QuietGo(t)
  BY DEF QuietGo, GoOf
<1> QED  BY <1>1, Untouched DEF AllAgree

LEMMA ScheduleOnceAgrees ==
  ASSUME Inv, AllAgree, ScheduleOnce
  PROVE  AllAgree'
<1> DEFINE k == IF FreeSlots < Len(waitingTasks) THEN FreeSlots ELSE Len(waitingTasks)
           wave == {"wave"} \X ((1..k) \ Ignored(k))
<1>1. /\ go' = [g \in DOMAIN go \cup wave |-> IF g \in DOMAIN go THEN go[g]
                  ELSE New("start", waitingTasks[g[2]], NoWork, 0, "waiting", "running")]
      /\ UNCHANGED <<rows, runningTaskMap, boot>>
  BY DEF ScheduleOnce, tableVars, TakeWaiting
<1>2. \A g \in wave : g \notin PollIds /\ g \notin ExportIds /\ g \notin RequestIds
  BY DEF PollIds, ExportIds, RequestIds
<1> HIDE DEF wave, k
<1>3. ASSUME NEW h \in DOMAIN go', h \notin DOMAIN go
      PROVE  /\ h \notin ExportIds /\ go'[h].pc # "mem"
             /\ Agrees(h, go'[h], rows[go'[h].task], Running)
  <2>1. h \in wave
    BY <1>1, <1>3
  <2>2. go'[h].pc = "start" /\ go'[h].st = "waiting" /\ ~go'[h].late
    BY <1>1, <1>3 DEF New
  <2> QED  BY <1>2, <2>1, <2>2 DEF Agrees, WaveRole, WaveKnows
<1>4. \A t \in Tasks : SameTask(t)
  BY <1>1, SameTasks
<1>5. \A h \in DOMAIN go : h \in DOMAIN go' /\ go'[h] = go[h]
  BY <1>1
<1> QED  BY <1>3, <1>4, <1>5, SpawnAgrees

LEMMA UpdateOnceAgrees ==
  ASSUME Inv, AllAgree, UpdateOnce
  PROVE  AllAgree'
<1> DEFINE S == {"poll"} \X Running
<1>1. /\ go' = [g \in DOMAIN go \cup S |-> IF g \in DOMAIN go THEN go[g]
                  ELSE New("query", g[2], runningTaskMap[g[2]].work, runningTaskMap[g[2]].att,
                           "running", "failed")]
      /\ UNCHANGED <<rows, runningTaskMap, boot>>
  BY DEF UpdateOnce, tableVars, memoryVars
<1>2. \A g \in S : /\ g \notin WaveIds /\ g \notin ExportIds /\ g \notin RequestIds
                   /\ g = <<"poll", g[2]>> /\ g[2] \in Running
  BY DEF WaveIds, ExportIds, RequestIds
<1> HIDE DEF S
<1>3. ASSUME NEW h \in DOMAIN go', h \notin DOMAIN go
      PROVE  /\ h \notin ExportIds /\ go'[h].pc # "mem"
             /\ Agrees(h, go'[h], rows[go'[h].task], Running)
  <2>1. h \in S
    BY <1>1, <1>3
  <2>2. go'[h].pc = "query" /\ go'[h].st = "running" /\ ~go'[h].late /\ go'[h].task = h[2]
    BY <1>1, <1>3 DEF New
  <2> QED  BY <1>2, <2>1, <2>2 DEF Agrees, PollRole, PollKnows
<1>4. \A t \in Tasks : SameTask(t)
  BY <1>1, SameTasks
<1>5. \A h \in DOMAIN go : h \in DOMAIN go' /\ go'[h] = go[h]
  BY <1>1
<1> QED  BY <1>3, <1>4, <1>5, SpawnAgrees

LEMMA RequestAgrees ==
  ASSUME Calm, Inv, AllAgree, NEW t \in Tasks, NEW op \in Operations, NEW g \in RequestIds,
         Request(t, op, g)
  PROVE  AllAgree'
<1> DEFINE q == Handler(op, t)
<1>1. /\ g \notin DOMAIN go /\ Goto(g, q) /\ Live(t) /\ rows[t].status \in Accepted(op)
      /\ UNCHANGED <<rows, runningTaskMap, boot>>
  BY DEF Request, tableVars, memoryVars, Free
<1>2. op \in {"start", "delete"}
  BY DEF Calm
<1>3. /\ q.task = t /\ q.pc \in {"push", "sql"}
      /\ q.pc = "push" => rows[t].status = "unstart" /\ ~rows[t].deleted
      /\ q.pc = "sql" => q.to = "delete" /\ q.st \in OverStatus
  <2>1. CASE op = "start"
    <3>1. q = New("push", t, rows[t].work, 0, rows[t].status, "waiting")
      BY <2>1 DEF Handler
    <3>2. q.task = t /\ q.pc = "push"
      BY <3>1 DEF New
    <3> QED  BY <1>1, <2>1, <3>2 DEF Accepted, Live
  <2>2. CASE op = "delete"
    <3>1. q = New("sql", t, rows[t].work, 0, rows[t].status, "delete")
      BY <2>2 DEF Handler
    <3>2. q.task = t /\ q.pc = "sql" /\ q.to = "delete" /\ q.st = rows[t].status
      BY <3>1 DEF New
    <3> QED  BY <1>1, <2>2, <3>2 DEF Accepted, OverStatus
  <2> QED  BY <1>2, <2>1, <2>2
<1> HIDE DEF q
<1>4. /\ DOMAIN go' = DOMAIN go \cup {g}
      /\ \A h \in DOMAIN go' : go'[h] = IF h = g THEN q ELSE go[h]
  BY <1>1 DEF Goto, Put
<1>5. g \notin ExportIds /\ q.pc # "mem" /\ Agrees(g, q, rows[q.task], Running)
  BY <1>3, Kinds DEF Agrees, RequestRole, RequestKnows
<1>6. \A u \in Tasks : SameTask(u)
  BY <1>1, SameTasks
<1> QED  BY <1>1, <1>4, <1>5, <1>6, SpawnAgrees

LEMMA CreateAgrees ==
  ASSUME Inv, AllAgree, NEW t \in Tasks, CreateTask(t)
  PROVE  AllAgree'
<1>1. /\ rows[t].status = "none" /\ rows'[t].status = "unstart"
      /\ \A u \in Tasks \ {t} : rows'[u] = rows[u]
  BY Inserted DEF CreateTask, Insert, Inv
<1>2. UNCHANGED <<go, runningTaskMap, boot>>
  BY DEF CreateTask, memoryVars
<1>3. Running' = Running
  BY <1>2 DEF Running
<1>4. t \notin Running /\ \A h \in GoOf(t) : Passive(h, go[h])
  BY <1>1, IdleTask DEF AllAgree
<1> DEFINE nobody == <<"nobody", 0>>
<1>5. AloneWith(nobody, t) /\ nobody \notin DOMAIN go
  <2>1. nobody \notin GoIds
    BY DEF GoIds, WaveIds, PollIds, ExportIds, RequestIds
  <2> QED  BY <1>2, <1>4, <2>1 DEF AloneWith, GoOf, Inv, GoOK
<1> HIDE DEF nobody
<1>6. nobody \notin GoOf(t)'
  BY <1>2, <1>5 DEF GoOf
<1>7. TaskAgrees(t)'
  BY <1>1, <1>3, <1>4, <1>5, <1>6, AloneAgrees DEF AllAgree, RunsInTable, OverStatus
<1>8. \A u \in Tasks \ {t} : SameTask(u)
  BY <1>1, <1>2, <1>3 DEF SameTask
<1> QED  BY <1>2, <1>7, <1>8, OneTouched

-----------------------------------------------------------------------------
(* Crash and restart.                                                      *)

\* no goroutine is left
LEMMA NobodyAgrees ==
  ASSUME NEW t \in Tasks, TaskAgrees(t), DOMAIN go' = {}, rows' = rows,
         t \in Running' => RunsInTable(t),
         boot' # "running" /\ RunsInTable(t) => t \in Running'
  PROVE  TaskAgrees(t)'
<1> DEFINE nobody == <<"nobody", 0>>
<1>1. AloneWith(nobody, t) /\ nobody \notin GoOf(t)'
  BY DEF AloneWith, GoOf
<1>2. RunsInTable(t)' <=> RunsInTable(t)
  BY DEF RunsInTable
<1>3. rows'[t].deleted => rows'[t].status \in OverStatus
  BY DEF TaskAgrees
<1> HIDE DEF nobody
<1> QED  BY <1>1, <1>2, <1>3, AloneAgrees

LEMMA CrashAgrees ==
  ASSUME Inv, AllAgree, Crash
  PROVE  AllAgree' /\ Running' = {}
<1>1. DOMAIN go' = {} /\ Running' = {} /\ rows' = rows /\ boot' = "running"
  BY DEF Crash, Empty, Running, tableVars
<1> QED  BY <1>1, NobodyAgrees DEF AllAgree

LEMMA InTable ==
  ASSUME NEW t \in Tasks
  PROVE  t \in Where("running") <=> RunsInTable(t)
BY DEF Where, Live, RunsInTable

LEMMA BootAgrees ==
  ASSUME Inv, AllAgree, Recovering, Boot
  PROVE  AllAgree'
<1>1. rows' = rows /\ go' = go /\ DOMAIN go = {}
  BY DEF Boot, tableVars, RecoverRunning, RecoverWaiting, Recovering
<1>2. CASE RecoverRunning
  <2>1. Running' = Where("running")
    BY <1>2 DEF RecoverRunning, Running
  <2>2. ASSUME NEW t \in Tasks
        PROVE  TaskAgrees(t)'
    BY <1>1, <2>1, InTable, NobodyAgrees DEF AllAgree
  <2> QED  BY <2>2 DEF AllAgree
<1>3. CASE boot = "waiting" /\ runningTaskMap' = runningTaskMap
  <2>1. \A t \in Tasks : SameTask(t)
    BY <1>1, <1>3 DEF SameTask, Running
  <2> QED  BY <1>1, <2>1, SpawnAgrees
<1> QED  BY <1>2, <1>3 DEF Boot, RecoverWaiting, memoryVars

LEMMA StillAgrees ==
  ASSUME Inv, AllAgree, UNCHANGED <<rows, runningTaskMap, boot, go>>
  PROVE  AllAgree'
<1>1. \A t \in Tasks : SameTask(t)
  BY SameTasks
<1> QED  BY <1>1, SpawnAgrees

LEMMA NextAgrees ==
  ASSUME Calm, Inv, AllAgree, Recovering, [Next]_vars
  PROVE  AllAgree'
<1>1. CASE UNCHANGED vars
  BY <1>1, StillAgrees DEF vars, tableVars, memoryVars
<1>2. ASSUME NEW w \in WorkIds, Cut(w)
      PROVE  AllAgree'
  BY <1>2, StillAgrees DEF Cut, tableVars, memoryVars
<1> QED
  BY <1>1, <1>2, ScheduleOnceAgrees, UpdateOnceAgrees, CrashAgrees, BootAgrees, CreateAgrees,
    RequestAgrees, StepAgrees DEF Next

-----------------------------------------------------------------------------
(* The slots.                                                              *)

LEMMA SlotsFinite ==
  ASSUME Inv
  PROVE  /\ IsFiniteSet(Running) /\ Cardinality(Running) \in Nat
         /\ IsFiniteSet(Of(WaveIds)) /\ Cardinality(Of(WaveIds)) \in Nat
<1>1. Running \subseteq Tasks /\ IsFiniteSet(Tasks)
  BY TaskAssumption DEF Inv, MemoryTypeOK
<1>2. Of(WaveIds) \subseteq GoIds
  BY DEF Of, GoIds
<1> QED  BY <1>1, <1>2, GoIdsFinite, FS_Subset, FS_CardinalityType

\* No slot is taken or set aside.
LEMMA BudgetShrinks ==
  ASSUME Inv, Budget, Running' \subseteq Running, Of(WaveIds)' \subseteq Of(WaveIds)
  PROVE  Budget'
<1>1. /\ Cardinality(Running') <= Cardinality(Running) /\ IsFiniteSet(Running')
      /\ Cardinality(Of(WaveIds)') <= Cardinality(Of(WaveIds)) /\ IsFiniteSet(Of(WaveIds)')
  BY SlotsFinite, FS_Subset
<1>2. /\ Cardinality(Running) \in Nat /\ Cardinality(Of(WaveIds)) \in Nat
      /\ Cardinality(Running') \in Nat /\ Cardinality(Of(WaveIds)') \in Nat
  BY <1>1, SlotsFinite, FS_CardinalityType
<1>3. TaskLimit \in Nat
  BY CombinationAssumption
<1> QED  BY <1>1, <1>2, <1>3 DEF Budget

\* A task is stored by a goroutine of the wave, which had a slot set aside for it.
LEMMA StoreBudget ==
  ASSUME Inv, Budget, NEW t, Running' = Running \cup {t}, NEW g \in Of(WaveIds),
         Of(WaveIds)' = Of(WaveIds) \ {g}
  PROVE  Budget'
<1>1. /\ Cardinality(Running') <= Cardinality(Running) + 1 /\ IsFiniteSet(Running')
  <2> DEFINE more == Running \cup {t}
  <2>1. IsFiniteSet(Running) /\ Cardinality(Running) \in Nat
    BY SlotsFinite
  <2>2. /\ IsFiniteSet(more)
        /\ Cardinality(more) = Cardinality(Running) \/ Cardinality(more) = Cardinality(Running) + 1
    BY <2>1, FS_AddElement
  <2>3. Running' = more
    OBVIOUS
  <2> HIDE DEF more
  <2> QED  BY <2>1, <2>2, <2>3
<1>2. /\ Cardinality(Of(WaveIds)') = Cardinality(Of(WaveIds)) - 1 /\ IsFiniteSet(Of(WaveIds)')
  BY SlotsFinite, FS_RemoveElement
<1>3. /\ Cardinality(Running) \in Nat /\ Cardinality(Of(WaveIds)) \in Nat
      /\ Cardinality(Running') \in Nat /\ Cardinality(Of(WaveIds)') \in Nat
  BY <1>1, <1>2, SlotsFinite, FS_CardinalityType
<1>4. TaskLimit \in Nat
  BY CombinationAssumption
<1> QED  BY <1>1, <1>2, <1>3, <1>4 DEF Budget

\* A wave sets aside no more slots than are free.
LEMMA ScheduleBudget ==
  ASSUME Inv, ScheduleOnce
  PROVE  Budget'
<1> DEFINE k == IF FreeSlots < Len(waitingTasks) THEN FreeSlots ELSE Len(waitingTasks)
           wave == {"wave"} \X ((1..k) \ Ignored(k))
<1>1. /\ k > 0 /\ Of(WaveIds) = {} /\ Running' = Running
      /\ DOMAIN go' = DOMAIN go \cup wave
  BY DEF ScheduleOnce, TakeWaiting, Running
<1>2. /\ Cardinality(Running) \in Nat /\ TaskLimit \in Nat /\ Len(waitingTasks) \in Nat
      /\ IsFiniteSet(Running)
  BY SlotsFinite, CombinationAssumption DEF Inv, MemoryTypeOK
<1>3. k \in Nat /\ k + Cardinality(Running) <= TaskLimit
  BY <1>1, <1>2 DEF FreeSlots
<1>4. Of(WaveIds)' \subseteq {"wave"} \X (1..k)
  BY <1>1 DEF Of
<1> HIDE DEF k, wave
<1>5. /\ IsFiniteSet({"wave"} \X (1..k)) /\ Cardinality({"wave"} \X (1..k)) = k
  <2>1. k \in Nat /\ k > 0 /\ k \in Int /\ 1 \in Int
    BY <1>1, <1>3 DEF k
  <2>2. IsFiniteSet(1..k) /\ Cardinality(1..k) = IF 1 > k THEN 0 ELSE k - 1 + 1
    BY <2>1, FS_Interval
  <2>3. IsFiniteSet({"wave"}) /\ Cardinality({"wave"}) = 1
    BY FS_Singleton
  <2>4. /\ IsFiniteSet({"wave"} \X (1..k))
        /\ Cardinality({"wave"} \X (1..k)) = Cardinality({"wave"}) * Cardinality(1..k)
    BY <2>2, <2>3, FS_Product
  <2> QED  BY <2>1, <2>2, <2>3, <2>4
<1>6. Cardinality(Of(WaveIds)') <= k /\ Cardinality(Of(WaveIds)') \in Nat
  BY <1>4, <1>5, FS_Subset, FS_CardinalityType
<1> QED  BY <1>1, <1>2, <1>3, <1>6 DEF Budget

LEMMA RunningStays ==
  ASSUME runningTaskMap' = runningTaskMap
  PROVE  Running' = Running
BY DEF Running

LEMMA GoroutineGone ==
  ASSUME NEW g \in DOMAIN go
  PROVE  /\ Exit(g) => DOMAIN go' = DOMAIN go \ {g}
         /\ \A q : Goto(g, q) => DOMAIN go' = DOMAIN go
BY DEF Exit, Without, Restrict, Goto, Put

LEMMA StepBudget ==
  ASSUME Calm, Inv, AllAgree, Budget, NEW g \in GoIds, Step(g)
  PROVE  Budget'
<1> DEFINE r == go[g]
<1>1. g \in DOMAIN go
  BY DEF Step
<1>2. /\ Agrees(g, r, rows[r.task], Running) /\ r.task \in Tasks
      /\ g \in WaveIds \/ g \in PollIds \/ g \in ExportIds \/ g \in RequestIds
  BY <1>1, Itself2
<1>3. ASSUME Exit(g) \/ \E q : Goto(g, q)
      PROVE  Of(WaveIds)' \subseteq Of(WaveIds)
  BY <1>1, <1>3, GoroutineGone DEF Of
<1>4. CASE StartJob(g, r) \/ LimitCheck(g, r) \/ StopJob(g, r) \/ GetOutput(g, r)
           \/ DataPersistence(g, r) \/ Sql(g, r)
  <2>1. Exit(g) \/ \E q : Goto(g, q)
    BY <1>4 DEF StartJob, StartFails, LimitCheck, StopJob, GetOutput, DataPersistence, Sql, SqlFails
  <2>2. runningTaskMap' = runningTaskMap
    BY <1>4 DEF StartJob, LimitCheck, StopJob, GetOutput, DataPersistence, Sql, memoryVars
  <2> QED  BY <1>3, <2>1, <2>2, RunningStays, BudgetShrinks
<1>5. CASE GetAsyncTaskStatus(g, r)
  <2>1. Exit(g) \/ \E q : Goto(g, q)
    BY <1>5 DEF GetAsyncTaskStatus, Learn
  <2>2. runningTaskMap' = runningTaskMap
    BY <1>5 DEF GetAsyncTaskStatus, memoryVars
  <2> QED  BY <1>3, <2>1, <2>2, RunningStays, BudgetShrinks
<1>6. CASE AddTask(g, r)
  <2>1. Exit(g) \/ \E q : Goto(g, q)
    BY <1>6 DEF AddTask
  <2>2. Running' \subseteq Running
    BY <1>6 DEF AddTask, AddMemory, StopMemory, memoryVars, Running, Without, Restrict
  <2> QED  BY <1>3, <2>1, <2>2, BudgetShrinks
<1>7. CASE Memory(g, r)
  <2>1. r.pc = "mem"
    BY <1>7 DEF Memory
  <2>2. CASE r.to = "running"
    <3>1. EnterMemory(r.task, r.work, r.att) /\ Exit(g)
      BY <1>7, <2>2 DEF Memory, Outcomes
    <3>2. Running' = Running \cup {r.task} /\ DOMAIN go' = DOMAIN go \ {g}
      BY <1>1, <3>1, EnteredMap, GoroutineGone
    <3>3. CASE g \in WaveIds
      <4>1. g \in Of(WaveIds) /\ Of(WaveIds)' = Of(WaveIds) \ {g}
        BY <1>1, <3>2, <3>3 DEF Of
      <4> QED  BY <3>2, <4>1, StoreBudget
    <3>4. CASE g \in PollIds
      <4>1. r.task \in Running /\ Of(WaveIds)' \subseteq Of(WaveIds)
        BY <1>2, <2>1, <3>2, <3>4 DEF Agrees, PollKnows, Of
      <4>2. Running' \subseteq Running
        BY <3>2, <4>1
      <4> QED  BY <4>1, <4>2, BudgetShrinks
    <3>5. g \notin ExportIds /\ g \notin RequestIds
      BY <1>2, <2>1, <2>2 DEF Agrees, ExportRole, RequestRole, Outcomes
    <3> QED  BY <1>2, <3>3, <3>4, <3>5
  <2>3. CASE r.to # "running"
    <3>1. Running' \subseteq Running
      BY <1>7, <2>3 DEF Memory, StopMemory, LeaveMemory, Without, Restrict, Running
    <3>2. Of(WaveIds)' \subseteq Of(WaveIds)
      <4>1. CASE Exit(g) \/ \E q : Goto(g, q)
        BY <1>3, <4>1
      <4>2. ASSUME NEW e \in ExportIds, NEW q, go' = Put(Without(go, g), e, q)
            PROVE  Of(WaveIds)' \subseteq Of(WaveIds)
        <5>1. DOMAIN go' = (DOMAIN go \ {g}) \cup {e} /\ e \notin WaveIds
          BY <4>2, Kinds DEF Put, Without, Restrict
        <5> QED  BY <5>1 DEF Of
      <4> QED  BY <1>7, <2>3, <4>1, <4>2 DEF Memory
    <3> QED  BY <3>1, <3>2, BudgetShrinks
  <2> QED  BY <2>2, <2>3
<1> QED  BY <1>4, <1>5, <1>6, <1>7 DEF Step

\* The table holds no more RUNNING rows than there are slots taken or set aside.
LEMMA TableLimit ==
  ASSUME Inv, OwnInv
  PROVE  Cardinality(Where("running")) <= TaskLimit
<1>1. CASE boot = "running"
  BY <1>1 DEF OwnInv, Recovering
<1>2. CASE boot # "running"
  <2> DEFINE W == Of(WaveIds)
             f == [g \in W |-> go[g].task]
             T == {f[g] : g \in W}
  <2>1. Where("running") \subseteq Running \cup T
    <3> SUFFICES ASSUME NEW t \in Where("running"), t \notin Running PROVE t \in T
      OBVIOUS
    <3>1. t \in Tasks /\ TaskAgrees(t) /\ RunsInTable(t)
      BY InTable DEF Where, OwnInv, AllAgree
    <3>2. Entering(t)
      BY <1>2, <3>1 DEF TaskAgrees
    <3>3. PICK g \in GoOf(t) : EntersMap(g, go[g])
      BY <3>2 DEF Entering
    <3>4. g \in W /\ f[g] = t
      BY <3>3 DEF GoOf, EntersMap, Of
    <3> QED  BY <3>4
  <2>2. f \in Surjection(W, T)
    BY DEF Surjection
  <2> HIDE DEF f, T
  <2>3. IsFiniteSet(T) /\ Cardinality(T) <= Cardinality(W)
    BY <2>2, SlotsFinite, FS_Surjection
  <2>4. /\ IsFiniteSet(Running \cup T)
        /\ Cardinality(Running \cup T) =
             Cardinality(Running) + Cardinality(T) - Cardinality(Running \cap T)
        /\ IsFiniteSet(Running \cap T)
    BY <2>3, SlotsFinite, FS_Union, FS_Intersection
  <2>5. /\ Cardinality(Running) \in Nat /\ Cardinality(T) \in Nat /\ Cardinality(W) \in Nat
        /\ Cardinality(Running \cap T) \in Nat /\ Cardinality(Running \cup T) \in Nat
    BY <2>3, <2>4, SlotsFinite, FS_CardinalityType
  <2>6. Cardinality(Where("running")) <= Cardinality(Running \cup T)
        /\ Cardinality(Where("running")) \in Nat
    BY <2>1, <2>4, FS_Subset, FS_CardinalityType
  <2>7. TaskLimit \in Nat /\ Cardinality(Running) + Cardinality(W) <= TaskLimit
    BY CombinationAssumption DEF OwnInv, Budget
  <2> QED  BY <2>3, <2>4, <2>5, <2>6, <2>7
<1> QED  BY <1>1, <1>2

LEMMA NextBudget ==
  ASSUME Calm, Inv, OwnInv, [Next]_vars
  PROVE  Budget'
<1>1. AllAgree /\ Budget /\ Recovering
  BY DEF OwnInv
<1>2. ASSUME UNCHANGED <<runningTaskMap, go>>
      PROVE  Budget'
  BY <1>1, <1>2, BudgetShrinks DEF Of, Running
<1>3. CASE UpdateOnce
  <2>1. DOMAIN go' = DOMAIN go \cup ({"poll"} \X Running) /\ runningTaskMap' = runningTaskMap
    BY <1>3 DEF UpdateOnce, memoryVars
  <2>2. Of(WaveIds)' \subseteq Of(WaveIds)
    BY <2>1 DEF Of, WaveIds
  <2> QED  BY <1>1, <2>1, <2>2, RunningStays, BudgetShrinks
<1>4. CASE Crash
  <2>1. Running' = {} /\ Of(WaveIds)' = {}
    BY <1>4 DEF Crash, Empty, Running, Of
  <2> QED  BY <1>1, <2>1, BudgetShrinks
<1>5. CASE Boot
  <2>1. CASE RecoverRunning
    <3>1. Running' = Where("running") /\ Of(WaveIds)' = {}
      BY <1>1, <1>5, <2>1 DEF RecoverRunning, Running, Boot, Of, Recovering
    <3>2. Cardinality(Where("running")) <= TaskLimit /\ Cardinality({}) = 0
      BY TableLimit, FS_EmptySet
    <3>3. Cardinality(Where("running")) \in Nat
      BY TaskAssumption, FS_Subset, FS_CardinalityType DEF Where
    <3> QED  BY <3>1, <3>2, <3>3, CombinationAssumption DEF Budget
  <2>2. CASE ~RecoverRunning
    BY <1>2, <1>5, <2>2 DEF Boot, RecoverWaiting, memoryVars
  <2> QED  BY <2>1, <2>2
<1>6. ASSUME NEW t \in Tasks, NEW op \in Operations, NEW g \in RequestIds, Request(t, op, g)
      PROVE  Budget'
  <2>1. DOMAIN go' = DOMAIN go \cup {g} /\ runningTaskMap' = runningTaskMap
    BY <1>6 DEF Request, Goto, Put, memoryVars
  <2>2. Of(WaveIds)' \subseteq Of(WaveIds)
    BY <2>1, Kinds DEF Of
  <2> QED  BY <1>1, <2>1, <2>2, RunningStays, BudgetShrinks
<1>7. ASSUME NEW t \in Tasks, CreateTask(t)
      PROVE  Budget'
  BY <1>2, <1>7 DEF CreateTask, memoryVars
<1>8. ASSUME NEW w \in WorkIds, Cut(w)
      PROVE  Budget'
  BY <1>2, <1>8 DEF Cut, memoryVars
<1>9. CASE UNCHANGED vars
  BY <1>2, <1>9 DEF vars, memoryVars
<1> QED
  BY <1>1, <1>3, <1>4, <1>5, <1>6, <1>7, <1>8, <1>9, ScheduleBudget, StepBudget DEF Next

LEMMA NextRecovering ==
  ASSUME Inv, OwnInv, [Next]_vars
  PROVE  Recovering'
<1>1. AllAgree /\ Budget /\ Recovering
  BY DEF OwnInv
<1>2. rows' = rows => Where("running")' = Where("running")
  BY DEF Where, Live
<1>3. ASSUME boot = "up", boot' = boot
      PROVE  Recovering'
  BY <1>3 DEF Recovering
<1>4. ASSUME UNCHANGED <<rows, runningTaskMap, go, boot>>
      PROVE  Recovering'
  BY <1>1, <1>2, <1>4 DEF Recovering, Running
<1>5. CASE Crash
  <2>1. Running' = {} /\ DOMAIN go' = {} /\ rows' = rows
    BY <1>5 DEF Crash, Empty, Running, tableVars
  <2> QED  BY <1>2, <2>1, TableLimit DEF Recovering
<1>6. CASE Boot
  <2>1. boot' \in {"waiting", "up"} /\ go' = go /\ boot # "up"
    BY <1>6 DEF Boot, RecoverRunning, RecoverWaiting
  <2> QED  BY <1>1, <2>1 DEF Recovering
<1>7. ASSUME NEW g \in GoIds, Step(g)
      PROVE  Recovering'
  BY <1>1, <1>3, <1>7 DEF Step, Recovering
<1>8. CASE ScheduleOnce \/ UpdateOnce \/ (\E t \in Tasks : CreateTask(t))
           \/ (\E t \in Tasks, op \in Operations, g \in RequestIds : Request(t, op, g))
  BY <1>3, <1>8 DEF ScheduleOnce, UpdateOnce, CreateTask, Request
<1>9. ASSUME NEW w \in WorkIds, Cut(w)
      PROVE  Recovering'
  BY <1>4, <1>9 DEF Cut, tableVars, memoryVars
<1>10. CASE UNCHANGED vars
  BY <1>4, <1>10 DEF vars, tableVars, memoryVars
<1> QED  BY <1>5, <1>6, <1>7, <1>8, <1>9, <1>10 DEF Next

LEMMA InitOwn == Init => OwnInv
<1> SUFFICES ASSUME Init PROVE OwnInv
  OBVIOUS
<1>1. DOMAIN go = {} /\ Running = {} /\ boot = "up"
  BY DEF Init, MemoryInit, Empty, Running
<1>2. \A t \in Tasks : rows[t].status = "none" /\ ~rows[t].deleted
  BY DEF Init, TableInit
<1>3. AllAgree
  BY <1>1, <1>2 DEF AllAgree, TaskAgrees, OneHolder, GoOf, RunsInTable
<1>4. Budget
  <2>1. Of(WaveIds) = {} /\ Cardinality({}) = 0
    BY <1>1, FS_EmptySet DEF Of
  <2> QED  BY <1>1, <2>1, CombinationAssumption DEF Budget
<1>5. Recovering
  BY <1>1 DEF Recovering
<1> QED  BY <1>3, <1>4, <1>5 DEF OwnInv

LEMMA NextOwn ==
  ASSUME Calm, Inv, OwnInv, [Next]_vars
  PROVE  OwnInv'
BY NextAgrees, NextBudget, NextRecovering DEF OwnInv

LEMMA OwnHolds ==
  ASSUME Calm
  PROVE  Safety => []OwnInv
<1>1. Inv /\ OwnInv /\ [Next]_vars => OwnInv'
  BY NextOwn
<1> QED  BY <1>1, InitOwn, InvHolds, PTL DEF Safety

\* While statements succeed, requests come one after the other and none stops a task or
\* starts it again: neither the running map nor the table, which a crash does not clear,
\* ever holds more RUNNING tasks than TaskLimit; so what the constructor puts back fits.
THEOREM LimitSurvives ==
  ASSUME Calm
  PROVE  Safety => []TableWithinLimit
<1>1. Inv /\ OwnInv => TableWithinLimit
  <2> SUFFICES ASSUME Inv, OwnInv PROVE TableWithinLimit
    OBVIOUS
  <2>1. Cardinality(Running) \in Nat /\ Cardinality(Of(WaveIds)) \in Nat /\ TaskLimit \in Nat
    BY SlotsFinite, CombinationAssumption
  <2> QED  BY <2>1, TableLimit DEF OwnInv, Budget, TableWithinLimit
<1> QED  BY <1>1, OwnHolds, InvHolds, PTL

-----------------------------------------------------------------------------
(* The jobs of the running map.                                            *)

\* A failed job is not tried again: the running map would keep the old one.
NoRetry == MaxFailedAttempts = 0

\* A poll goroutine has the job of the row, and starts none.
PollsJob(r, w) == r.pc # "stop" =>
  r.work = w /\ r.pc # "start" /\ (r.pc # "query" => r.to # "running")

WorksAgree ==
  /\ \A t \in Running : runningTaskMap[t].work = rows[t].work
  /\ \A g \in DOMAIN go : g \in PollIds => PollsJob(go[g], rows[go[g].task].work)

\* Nothing else is brought into the map or put into the table.
LEMMA KeepsWorks ==
  ASSUME Inv, WorksAgree, NEW T \in SUBSET Tasks,
         \A t \in Tasks \ T : rows'[t].work = rows[t].work,
         \A t \in Running' : \/ t \in Running /\ t \notin T /\ runningTaskMap'[t] = runningTaskMap[t]
                             \/ runningTaskMap'[t].work = rows'[t].work,
         \A h \in DOMAIN go' : h \in PollIds =>
           \/ h \in DOMAIN go /\ go'[h] = go[h] /\ go[h].task \in Tasks \ T
           \/ PollsJob(go'[h], rows'[go'[h].task].work)
  PROVE  WorksAgree'
<1>1. Running \subseteq Tasks
  BY DEF Inv, MemoryTypeOK
<1>2. \A t \in Running' : runningTaskMap'[t].work = rows'[t].work
  BY <1>1 DEF WorksAgree
<1>3. ASSUME NEW h \in DOMAIN go', h \in PollIds
      PROVE  PollsJob(go'[h], rows'[go'[h].task].work)
  BY <1>3 DEF WorksAgree
<1> QED  BY <1>2, <1>3 DEF WorksAgree

\* Nothing at all is.
LEMMA KeepsAllWorks ==
  ASSUME Inv, WorksAgree,
         \A t \in Tasks : rows'[t].work = rows[t].work,
         \A t \in Running' : t \in Running /\ runningTaskMap'[t] = runningTaskMap[t],
         \A h \in DOMAIN go' : h \in PollIds =>
           \/ h \in DOMAIN go /\ go'[h] = go[h]
           \/ PollsJob(go'[h], rows'[go'[h].task].work)
  PROVE  WorksAgree'
<1> DEFINE T == {}
<1>1. T \in SUBSET Tasks /\ Tasks \ T = Tasks /\ \A t \in Running' : t \notin T
  OBVIOUS
<1>2. \A h \in DOMAIN go : go[h].task \in Tasks \ T
  BY <1>1, Itself
<1> HIDE DEF T
<1> QED  BY <1>1, <1>2, KeepsWorks

\* A goroutine moves on, and neither map nor table change.
LEMMA WorksMove ==
  ASSUME Inv, WorksAgree, NEW g \in DOMAIN go,
         \A t \in Tasks : rows'[t].work = rows[t].work, UNCHANGED runningTaskMap,
         Exit(g) \/ \E q : /\ Goto(g, q)
                           /\ g \in PollIds => q.task = go[g].task /\ PollsJob(q, rows[q.task].work)
  PROVE  WorksAgree'
<1>1. go[g].task \in Tasks /\ \A h \in DOMAIN go : go[h].task \in Tasks
  BY Itself
<1>2. \A t \in Running' : t \in Running /\ runningTaskMap'[t] = runningTaskMap[t]
  BY DEF Running
<1>3. CASE Exit(g)
  <2>1. \A h \in DOMAIN go' : h \in DOMAIN go /\ go'[h] = go[h]
    BY <1>3 DEF Exit, Without, Restrict
  <2> QED  BY <1>2, <2>1, KeepsAllWorks
<1>4. ASSUME NEW q, Goto(g, q), g \in PollIds => q.task = go[g].task /\ PollsJob(q, rows[q.task].work)
      PROVE  WorksAgree'
  <2>1. \A h \in DOMAIN go' : h \in DOMAIN go /\ go'[h] = IF h = g THEN q ELSE go[h]
    BY <1>4 DEF Goto, Put
  <2> QED  BY <1>1, <1>2, <1>4, <2>1, KeepsAllWorks
<1> QED  BY <1>3, <1>4

LEMMA LearnWorks ==
  ASSUME NoRetry, NEW g, NEW r \in Goroutine, r.pc = "query", NEW s, Learn(g, r, s)
  PROVE  Exit(g) \/ \E q : /\ Goto(g, q) /\ q.task = r.task /\ q.work = r.work
                           /\ q.pc = "sql" /\ q.to \in {"exporting", "failed"}
<1>1. ~MayRetry(r)
  BY DEF NoRetry, MayRetry, Goroutine, Attempts
<1>2. ASSUME NEW to \in {"exporting", "failed"}
      PROVE  /\ Transit(r, to).task = r.task /\ Transit(r, to).work = r.work
             /\ Transit(r, to).pc = "sql" /\ Transit(r, to).to = to
  BY DEF Transit, Goroutine
<1>3. /\ [Transit(r, "failed") EXCEPT !.late = TRUE].task = r.task
      /\ [Transit(r, "failed") EXCEPT !.late = TRUE].work = r.work
      /\ [Transit(r, "failed") EXCEPT !.late = TRUE].pc = "sql"
      /\ [Transit(r, "failed") EXCEPT !.late = TRUE].to = "failed"
  BY DEF Transit, Goroutine
<1> QED  BY <1>1, <1>2, <1>3 DEF Learn

LEMMA LocalWorks ==
  ASSUME NoRetry, Inv, AllAgree, WorksAgree, NEW g \in DOMAIN go, NEW r, r = go[g],
         \/ StartJob(g, r) \/ LimitCheck(g, r) \/ GetAsyncTaskStatus(g, r) \/ StopJob(g, r)
         \/ GetOutput(g, r) \/ DataPersistence(g, r)
  PROVE  WorksAgree'
<1>1. /\ Agrees(g, r, rows[r.task], Running) /\ r \in Goroutine /\ GoodCopy(r) /\ r.task \in Tasks
      /\ g \in PollIds => PollsJob(r, rows[r.task].work)
  BY Itself2 DEF WorksAgree
<1>2. runningTaskMap' = runningTaskMap
  BY DEF StartJob, LimitCheck, GetAsyncTaskStatus, StopJob, GetOutput, DataPersistence, memoryVars
<1>3. \A t \in Tasks : rows'[t].work = rows[t].work
  <2>1. rows' = rows \/ SaveOutput(r.task, r.work)
    BY DEF StartJob, LimitCheck, GetAsyncTaskStatus, StopJob, GetOutput, DataPersistence, tableVars
  <2> QED  BY <1>1, <2>1, SavedRow DEF Inv
<1>4. CASE g \notin PollIds
  <2>1. Exit(g) \/ \E q : Goto(g, q)
    BY <1>4, <1>1, Kinds DEF StartJob, StartFails, LimitCheck, GetAsyncTaskStatus, Learn, StopJob,
      GetOutput, DataPersistence
  <2> QED  BY <1>2, <1>3, <1>4, <2>1, WorksMove
<1>5. CASE g \in PollIds
  <2>1. ~StartJob(g, r) /\ ~LimitCheck(g, r) /\ ~GetOutput(g, r) /\ ~DataPersistence(g, r)
    BY <1>1, <1>5 DEF Agrees, PollRole, PollsJob, StartJob, LimitCheck, GetOutput, DataPersistence
  <2>2. CASE StopJob(g, r)
    <3>1. Exit(g)
      BY <1>1, <1>5, <2>2 DEF StopJob, Agrees, PollRole
    <3> QED  BY <1>2, <1>3, <3>1, WorksMove
  <2>3. CASE GetAsyncTaskStatus(g, r)
    <3>1. r.pc = "query"
      BY <2>3 DEF GetAsyncTaskStatus
    <3>2. Exit(g) \/ \E q : /\ Goto(g, q) /\ q.task = r.task /\ q.work = r.work
                            /\ q.pc = "sql" /\ q.to \in {"exporting", "failed"}
      BY <1>1, <2>3, <3>1, LearnWorks DEF GetAsyncTaskStatus
    <3>3. r.work = rows[r.task].work
      BY <1>1, <1>5, <3>1 DEF PollsJob
    <3>4. ASSUME NEW q, q.task = r.task, q.work = r.work, q.pc = "sql", q.to \in {"exporting", "failed"}
          PROVE  PollsJob(q, rows[q.task].work)
      BY <3>3, <3>4 DEF PollsJob
    <3> QED  BY <1>2, <1>3, <3>2, <3>4, WorksMove
  <2> QED  BY <2>1, <2>2, <2>3
<1> QED  BY <1>4, <1>5

\* Only the transition to "running" writes a job.
LEMMA WorkColumn ==
  ASSUME TableTypeOK, NEW t \in Tasks, NEW to, NEW w, NEW u \in Tasks,
         \/ Update(t, to, w) /\ (u # t \/ to # "running")
         \/ Upsert(t) \/ Insert(t)
  PROVE  rows'[u].work = rows[u].work
<1>1. rows[t] \in Row /\ rows \in [Tasks -> Row]
  BY DEF TableTypeOK
<1>2. ASSUME NEW v, rows' = [rows EXCEPT ![t] = v], u # t \/ v.work = rows[t].work
      PROVE  rows'[u].work = rows[u].work
  BY <1>1, <1>2
<1>3. CASE Update(t, to, w) /\ (u # t \/ to # "running")
  <2> DEFINE a == [rows[t] EXCEPT !.deleted = TRUE]
             b == [rows[t] EXCEPT !.status = to,
                                  !.work = IF to = "running" THEN w ELSE rows[t].work]
  <2>1. a.work = rows[t].work /\ (to # "running" => b.work = rows[t].work)
    BY <1>1 DEF Row
  <2>2. rows' = [rows EXCEPT ![t] = a] \/ rows' = [rows EXCEPT ![t] = b]
    BY <1>3 DEF Update
  <2> HIDE DEF a, b
  <2> QED  BY <1>2, <1>3, <2>1, <2>2
<1>4. ASSUME NEW s, rows' = [rows EXCEPT ![t].status = s]
      PROVE  rows'[u].work = rows[u].work
  <2> DEFINE a == [rows[t] EXCEPT !.status = s]
  <2>1. a.work = rows[t].work
    BY <1>1 DEF Row
  <2>2. rows' = [rows EXCEPT ![t] = a]
    BY <1>4
  <2> HIDE DEF a
  <2> QED  BY <1>2, <2>1, <2>2
<1> QED  BY <1>3, <1>4 DEF Upsert, Insert

LEMMA SqlWorks ==
  ASSUME Calm, Inv, AllAgree, WorksAgree, NEW g \in DOMAIN go, NEW r, r = go[g], Sql(g, r)
  PROVE  WorksAgree'
<1> DEFINE t == r.task
           q == [r EXCEPT !.pc = "mem", !.st = r.to]
<1>1. /\ Agrees(g, r, rows[t], Running) /\ r \in Goroutine /\ GoodCopy(r) /\ t \in Tasks
      /\ g \in WaveIds \/ g \in PollIds \/ g \in ExportIds \/ g \in RequestIds
      /\ g \in PollIds => PollsJob(r, rows[t].work)
      /\ TaskAgrees(t) /\ g \in GoOf(t)
  BY Itself2 DEF WorksAgree
<1>2. runningTaskMap' = runningTaskMap /\ r.pc = "sql" /\ Running' = Running
  BY DEF Sql, memoryVars, Running
<1>3. q.pc = "mem" /\ q.to = r.to /\ q.task = t /\ q.work = r.work
  BY <1>1 DEF Goroutine
<1>4. \/ /\ Found(t, r.st) /\ Update(t, r.to, r.work)
         /\ IF r.to = "delete" THEN Exit(g) ELSE Goto(g, q)
      \/ ~Found(t, r.st) /\ UNCHANGED tableVars /\ SqlFails(g, r)
  BY DEF Sql, Fault, Calm
<1> HIDE DEF q
<1>5. CASE ~Found(t, r.st) /\ UNCHANGED tableVars /\ SqlFails(g, r)
  <2>1. g \notin PollIds
    <3> SUFFICES ASSUME g \in PollIds PROVE FALSE
      OBVIOUS
    <3>1. RunsInTable(t) /\ r.st = "running"
      BY <1>1, <1>2, PollFinds DEF LeavesMap, Agrees, PollRole
    <3> QED  BY <1>5, <3>1 DEF RunsInTable, Found, Live
  <2>2. Exit(g) \/ \E p : Goto(g, p)
    BY <1>5 DEF SqlFails
  <2> QED  BY <1>2, <1>5, <2>1, <2>2, WorksMove DEF tableVars
<1>6. CASE /\ Update(t, r.to, r.work) /\ r.to # "running"
           /\ IF r.to = "delete" THEN Exit(g) ELSE Goto(g, q)
  <2>1. ASSUME NEW u \in Tasks
        PROVE  rows'[u].work = rows[u].work
    <3>1. Update(t, r.to, r.work) /\ r.to # "running" /\ TableTypeOK /\ t \in Tasks
      BY <1>1, <1>6 DEF Inv
    <3> QED  BY <3>1, WorkColumn
  <2>2. g \in PollIds => PollsJob(q, rows[q.task].work)
    BY <1>1, <1>2, <1>3, <1>6 DEF PollsJob
  <2> QED  BY <1>2, <1>3, <1>6, <2>1, <2>2, WorksMove
<1>7. CASE Found(t, r.st) /\ Update(t, r.to, r.work) /\ r.to = "running" /\ Goto(g, q)
  <2>1. g \in WaveIds /\ g \notin PollIds
    BY <1>1, <1>2, <1>7, Kinds DEF PollsJob, Agrees, ExportRole, RequestRole, Outcomes
  <2>2. rows[t].status = "waiting"
    BY <1>1, <1>2, <1>7, <2>1 DEF Agrees, WaveRole, Found
  <2>3. t \notin Running /\ \A h \in GoOf(t) : Passive(h, go[h])
    BY <1>1, <2>2, IdleTask
  <2>4. \A u \in Tasks \ {t} : rows'[u].work = rows[u].work
    BY <1>1, <1>7, WorkColumn DEF Inv
  <2>5. \A h \in DOMAIN go' : h \in DOMAIN go /\ go'[h] = IF h = g THEN q ELSE go[h]
    BY <1>7 DEF Goto, Put
  <2>6. ASSUME NEW h \in DOMAIN go', h \in PollIds
        PROVE  \/ h \in DOMAIN go /\ go'[h] = go[h] /\ go[h].task \in Tasks \ {t}
               \/ PollsJob(go'[h], rows'[go'[h].task].work)
    <3>1. h \in DOMAIN go /\ go'[h] = go[h] /\ go[h].task \in Tasks
      BY <2>1, <2>5, <2>6, Itself
    <3>2. CASE go[h].task = t
      BY <2>3, <2>6, <3>1, <3>2 DEF GoOf, Passive, PollsJob
    <3> QED  BY <3>1, <3>2
  <2>7. \A u \in Running' : u \in Running /\ u \notin {t} /\ runningTaskMap'[u] = runningTaskMap[u]
    BY <1>2, <2>3
  <2>8. {t} \in SUBSET Tasks
    BY <1>1
  <2> QED  BY <2>4, <2>6, <2>7, <2>8, KeepsWorks
<1> QED  BY <1>4, <1>5, <1>6, <1>7

LEMMA MemoryWorks ==
  ASSUME Inv, AllAgree, WorksAgree, NEW g \in DOMAIN go, NEW r, r = go[g], Memory(g, r)
  PROVE  WorksAgree'
<1> DEFINE t == r.task
           q == [r EXCEPT !.pc = "stop", !.to = "none"]
<1>1. /\ Agrees(g, r, rows[t], Running) /\ r \in Goroutine /\ t \in Tasks
      /\ g \in WaveIds \/ g \in PollIds \/ g \in ExportIds \/ g \in RequestIds
      /\ g \in PollIds => PollsJob(r, rows[t].work)
      /\ TaskAgrees(t) /\ g \in GoOf(t)
  BY Itself2 DEF WorksAgree
<1>2. r.pc = "mem" /\ rows' = rows
  BY DEF Memory, tableVars
<1>3. q.pc = "stop"
  BY <1>1 DEF Goroutine
<1>4. \/ r.to = "running" /\ EnterMemory(t, r.work, r.att) /\ Exit(g)
      \/ LeaveMemory(t) /\ (Goto(g, q) \/ Exit(g))
      \/ /\ LeaveMemory(t)
         /\ \E e \in ExportIds : \E x : go' = Put(Without(go, g), e, x)
  <2>1. r.to # "stoped"
    BY <1>1, <1>2 DEF Agrees, WaveRole, PollRole, ExportRole, RequestRole, Outcomes
  <2> QED  BY <2>1 DEF Memory
<1> HIDE DEF q
<1>5. \A h \in DOMAIN go' : h \in PollIds =>
        (h \in DOMAIN go /\ go'[h] = go[h]) \/ PollsJob(go'[h], rows'[go'[h].task].work)
  <2>1. CASE Exit(g)
    BY <2>1 DEF Exit, Without, Restrict
  <2>2. CASE Goto(g, q)
    <3>1. \A h \in DOMAIN go' : go'[h] = IF h = g THEN q ELSE go[h]
      BY <2>2 DEF Goto, Put
    <3> QED  BY <1>3, <2>2, <3>1 DEF PollsJob, Goto, Put
  <2>3. ASSUME NEW e \in ExportIds, NEW x, go' = Put(Without(go, g), e, x)
        PROVE  \A h \in DOMAIN go' : h \in PollIds => h \in DOMAIN go /\ go'[h] = go[h]
    BY <2>3, Kinds DEF Put, Without, Restrict
  <2> QED  BY <1>4, <2>1, <2>2, <2>3
<1>6. \A u \in Tasks : rows'[u].work = rows[u].work
  BY <1>2
<1>7. CASE LeaveMemory(t)
  <2>1. \A u \in Running' : u \in Running /\ runningTaskMap'[u] = runningTaskMap[u]
    BY <1>7 DEF LeaveMemory, Without, Restrict, Running
  <2> QED  BY <1>5, <1>6, <2>1, KeepsAllWorks
<1>8. CASE r.to = "running" /\ EnterMemory(t, r.work, r.att)
  <2>1. g \in WaveIds
    BY <1>1, <1>2, <1>8 DEF PollsJob, Agrees, ExportRole, RequestRole, Outcomes
  <2>2. t \notin Running /\ rows[t].work = r.work
    BY <1>1, <1>2, <1>8, <2>1, HeldTask DEF Holds, Agrees, WaveKnows
  <2>3. \A u \in Running' : runningTaskMap'[u].work = rows'[u].work
    BY <1>2, <1>8, <2>2 DEF EnterMemory, Put, Running, WorksAgree
  <2>4. \A h \in DOMAIN go' : h \in PollIds => PollsJob(go'[h], rows'[go'[h].task].work)
    BY <1>2, <1>5 DEF WorksAgree
  <2> QED  BY <2>3, <2>4 DEF WorksAgree
<1> QED  BY <1>4, <1>7, <1>8

LEMMA AddTaskWorks ==
  ASSUME Inv, AllAgree, WorksAgree, NEW g \in DOMAIN go, NEW r, r = go[g], AddTask(g, r)
  PROVE  WorksAgree'
<1>1. g \in RequestIds /\ r.pc \in {"push", "upsert"} /\ r.task \in Tasks
  BY Itself2 DEF Agrees, WaveRole, PollRole, ExportRole, RequestRole, AddTask
<1>2. runningTaskMap' = runningTaskMap
  BY <1>1 DEF AddTask, AddMemory, memoryVars
<1>3. \A u \in Tasks : rows'[u].work = rows[u].work
  <2>1. rows' = rows \/ Upsert(r.task)
    BY <1>1 DEF AddTask, tableVars
  <2> QED  BY <1>1, <2>1, WorkColumn DEF Inv
<1>4. Exit(g) \/ \E q : Goto(g, q)
  BY DEF AddTask
<1>5. g \notin PollIds
  BY <1>1, Kinds
<1> QED  BY <1>2, <1>3, <1>4, <1>5, WorksMove

LEMMA StepWorks ==
  ASSUME Calm, NoRetry, Inv, AllAgree, WorksAgree, NEW g \in GoIds, Step(g)
  PROVE  WorksAgree'
BY LocalWorks, SqlWorks, MemoryWorks, AddTaskWorks DEF Step

LEMMA NextWorks ==
  ASSUME Calm, NoRetry, Inv, OwnInv, WorksAgree, [Next]_vars
  PROVE  WorksAgree'
<1>1. AllAgree
  BY DEF OwnInv
<1>2. ASSUME \A t \in Tasks : rows'[t].work = rows[t].work, UNCHANGED runningTaskMap,
             \A h \in DOMAIN go' : h \in PollIds =>
               (h \in DOMAIN go /\ go'[h] = go[h]) \/ PollsJob(go'[h], rows'[go'[h].task].work)
      PROVE  WorksAgree'
  BY <1>2, KeepsAllWorks DEF Running
<1>3. CASE ScheduleOnce
  <2> DEFINE k == IF FreeSlots < Len(waitingTasks) THEN FreeSlots ELSE Len(waitingTasks)
             wave == {"wave"} \X ((1..k) \ Ignored(k))
  <2>1. /\ DOMAIN go' = DOMAIN go \cup wave
        /\ \A h \in DOMAIN go : go'[h] = go[h]
        /\ rows' = rows /\ runningTaskMap' = runningTaskMap
    BY <1>3 DEF ScheduleOnce, TakeWaiting, tableVars
  <2>2. \A h \in wave : h \notin PollIds
    BY DEF PollIds
  <2> HIDE DEF wave
  <2> QED  BY <1>2, <2>1, <2>2
<1>4. CASE UpdateOnce
  <2>1. /\ rows' = rows /\ runningTaskMap' = runningTaskMap
        /\ DOMAIN go' = DOMAIN go \cup ({"poll"} \X Running)
        /\ \A h \in DOMAIN go : go'[h] = go[h]
    BY <1>4 DEF UpdateOnce, memoryVars, tableVars
  <2>2. ASSUME NEW h \in {"poll"} \X Running, h \notin DOMAIN go
        PROVE  PollsJob(go'[h], rows'[go'[h].task].work)
    <3>1. go'[h] = New("query", h[2], runningTaskMap[h[2]].work, runningTaskMap[h[2]].att,
                       "running", "failed")
      BY <1>4, <2>2 DEF UpdateOnce
    <3>2. /\ go'[h].pc = "query" /\ go'[h].task = h[2] /\ go'[h].work = runningTaskMap[h[2]].work
          /\ h[2] \in Running
      BY <3>1, <2>2 DEF New
    <3> QED  BY <2>1, <3>2 DEF PollsJob, WorksAgree
  <2>3. \A h \in DOMAIN go' :
          (h \in DOMAIN go /\ go'[h] = go[h]) \/ PollsJob(go'[h], rows'[go'[h].task].work)
    BY <2>1, <2>2
  <2> QED  BY <1>2, <2>1, <2>3
<1>5. CASE Crash
  BY <1>5 DEF Crash, Empty, WorksAgree, Running
<1>6. CASE Boot
  <2>1. rows' = rows /\ go' = go
    BY <1>6 DEF Boot, tableVars
  <2>2. CASE RecoverRunning
    <3>1. \A t \in Running' : runningTaskMap'[t].work = rows'[t].work
      BY <2>1, <2>2 DEF RecoverRunning, Running
    <3> QED  BY <2>1, <3>1 DEF WorksAgree
  <2>3. CASE runningTaskMap' = runningTaskMap
    BY <1>2, <2>1, <2>3
  <2> QED  BY <1>6, <2>2, <2>3 DEF Boot, RecoverWaiting, memoryVars
<1>7. ASSUME NEW t \in Tasks, CreateTask(t)
      PROVE  WorksAgree'
  <2>1. \A u \in Tasks : rows'[u].work = rows[u].work
    BY <1>7, WorkColumn DEF CreateTask, Inv
  <2> QED  BY <1>2, <1>7, <2>1 DEF CreateTask, memoryVars
<1>8. ASSUME NEW t \in Tasks, NEW op \in Operations, NEW g \in RequestIds, Request(t, op, g)
      PROVE  WorksAgree'
  <2>1. /\ \A h \in DOMAIN go' : h = g \/ (h \in DOMAIN go /\ go'[h] = go[h])
        /\ rows' = rows /\ runningTaskMap' = runningTaskMap
    BY <1>8 DEF Request, Goto, Put, memoryVars, tableVars
  <2>2. g \notin PollIds
    BY Kinds
  <2> QED  BY <1>2, <2>1, <2>2
<1>9. ASSUME NEW w \in WorkIds, Cut(w)
      PROVE  WorksAgree'
  BY <1>2, <1>9 DEF Cut, memoryVars, tableVars
<1>10. CASE UNCHANGED vars
  BY <1>2, <1>10 DEF vars, memoryVars, tableVars
<1> QED
  BY <1>1, <1>3, <1>4, <1>5, <1>6, <1>7, <1>8, <1>9, <1>10, StepWorks DEF Next

LEMMA WorksHold ==
  ASSUME Calm, NoRetry
  PROVE  Safety => []WorksAgree
<1>1. Init => WorksAgree
  BY DEF Init, MemoryInit, Empty, WorksAgree, Running
<1>2. Inv /\ OwnInv /\ WorksAgree /\ [Next]_vars => WorksAgree'
  BY NextWorks
<1> QED  BY <1>1, <1>2, InvHolds, OwnHolds, PTL DEF Safety

\* A task nobody is at work on is in the running map exactly while its row is RUNNING.
MapFollowsTable == \A t \in Tasks :
  boot # "running" /\ ~Engaged(t) => (t \in Running <=> Found(t, "running"))

LEMMA NobodyEngaged ==
  ASSUME AllAgree
  PROVE  MapFollowsTable
<1> SUFFICES ASSUME NEW t \in Tasks, boot # "running", ~Engaged(t)
             PROVE  t \in Running <=> Found(t, "running")
  BY DEF MapFollowsTable
<1>1. GoOf(t) = {}
  BY DEF GoOf, Engaged
<1>2. TaskAgrees(t) /\ (Found(t, "running") <=> RunsInTable(t))
  BY DEF AllAgree, Found, Live, RunsInTable
<1> QED  BY <1>1, <1>2 DEF TaskAgrees, Leaving, Entering

\* The scheduler counts, polls and reports exactly the tasks that are RUNNING in the
\* table, after a crash as before, also when a failed job is tried again.
THEOREM RunningIsInTable ==
  ASSUME Calm
  PROVE  Safety => []MapFollowsTable
<1>1. OwnInv => MapFollowsTable
  BY NobodyEngaged DEF OwnInv
<1> QED  BY <1>1, OwnHolds, PTL

\* And it polls them under the job that the table names, as long as it does not start
\* another one: of an entry that is there ToRunningStatus of the queue container changes
\* only the attempts, while the table gets the new job.
THEOREM MemoryAgreesWithTable ==
  ASSUME Calm, NoRetry
  PROVE  Safety => []MemoryFollowsTable
<1>1. OwnInv /\ WorksAgree => MemoryFollowsTable
  BY NobodyEngaged DEF OwnInv, WorksAgree, MapFollowsTable, MemoryFollowsTable
<1> QED  BY <1>1, OwnHolds, WorksHold, PTL

-----------------------------------------------------------------------------
(* The jobs of the service.                                                *)

\* The calls of the actuator do not fail: an answer of videoCut that is lost leaves a
\* job nobody knows.
CallsWork == "call" \notin Faulty

\* A goroutine will store the job, or stop it.
Minds(r, w) ==
  /\ r.work = w
  /\ \/ r.pc \in {"limit", "stop"}
     \/ r.pc \in {"sql", "mem"} /\ (r.to = "running" \/ (r.to = "failed" /\ r.late))

RowHas(t, w) == rows[t].status = "running" /\ rows[t].work = w
Minded(t, w) == (\E g \in GoOf(t) : Minds(go[g], w)) \/ RowHas(t, w)

\* A poll goroutine that takes its task away has seen the end of the job, or will stop it.
Settled(r, status) ==
  r.pc \in {"sql", "mem"} /\ ~r.late /\ r.work # NoWork => status[r.work] # "running"

JobsMinded ==
  /\ \A w \in WorkIds, t \in Tasks : jobs[w] = "running" /\ t \in madeFor[w] => Minded(t, w)
  /\ \A g \in DOMAIN go : g \in PollIds => Settled(go[g], jobs)

\* no job is started
NoneStarts == \A w \in WorkIds : jobs'[w] = "running" =>
  jobs[w] = "running" /\ madeFor'[w] = madeFor[w]

LEMMA MindedBy ==
  ASSUME NEW t, NEW w, NEW g \in DOMAIN go', go'[g].task = t, Minds(go'[g], w)
  PROVE  Minded(t, w)'
BY DEF Minded, GoOf, Minds

\* A goroutine moves on.
LEMMA JobsMove ==
  ASSUME Inv, JobsMinded, NoneStarts, NEW g \in DOMAIN go, NEW t, t = go[g].task,
         Exit(g) \/ \E q : Goto(g, q) /\ q.task = t /\ (g \in PollIds => Settled(q, jobs')),
         \A w \in WorkIds : jobs'[w] = "running" /\ Minds(go[g], w) => Minded(t, w)',
         \A w \in WorkIds, u \in Tasks :
           jobs'[w] = "running" /\ RowHas(u, w) => Minded(u, w)'
  PROVE  JobsMinded'
<1>1. ASSUME NEW h \in DOMAIN go', h # g
      PROVE  h \in DOMAIN go /\ go'[h] = go[h]
  BY <1>1 DEF Exit, Without, Restrict, Goto, Put
<1>2. \A h \in DOMAIN go : h # g => h \in DOMAIN go' /\ go'[h] = go[h]
  BY DEF Exit, Without, Restrict, Goto, Put
<1>3. ASSUME NEW w \in WorkIds, NEW u \in Tasks, jobs'[w] = "running", u \in madeFor'[w]
      PROVE  Minded(u, w)'
  <2>1. Minded(u, w)
    BY <1>3 DEF NoneStarts, JobsMinded
  <2>2. CASE RowHas(u, w)
    BY <1>3, <2>2
  <2>3. ASSUME NEW h \in GoOf(u), Minds(go[h], w)
        PROVE  Minded(u, w)'
    <3>1. h \in DOMAIN go /\ go[h].task = u
      BY DEF GoOf
    <3>2. CASE h = g
      <4>1. u = t /\ Minds(go[g], w)
        BY <2>3, <3>1, <3>2
      <4> QED  BY <1>3, <4>1
    <3>3. CASE h # g
      BY <1>2, <2>3, <3>1, <3>3, MindedBy
    <3> QED  BY <3>2, <3>3
  <2> QED  BY <2>1, <2>2, <2>3 DEF Minded
<1>4. ASSUME NEW h \in DOMAIN go', h \in PollIds
      PROVE  Settled(go'[h], jobs')
  <2>1. CASE h = g
    <3>1. PICK q : Goto(g, q) /\ Settled(q, jobs')
      BY <1>4, <2>1 DEF Exit, Without, Restrict
    <3>2. go'[h] = q
      BY <2>1, <3>1 DEF Goto, Put
    <3> QED  BY <3>1, <3>2
  <2>2. CASE h # g
    <3>1. h \in DOMAIN go /\ go'[h] = go[h] /\ go[h].work \in WorkIds \cup {NoWork}
      BY <1>1, <2>2, Itself DEF Goroutine
    <3>2. Settled(go[h], jobs)
      BY <1>4, <3>1 DEF JobsMinded
    <3> QED  BY <3>1, <3>2 DEF Settled, NoneStarts
  <2> QED  BY <2>1, <2>2
<1> QED  BY <1>3, <1>4 DEF JobsMinded

\* The rows keep what they know.
LEMMA RowsMind ==
  ASSUME NEW w, NEW u, rows'[u].status = rows[u].status, rows'[u].work = rows[u].work, RowHas(u, w)
  PROVE  Minded(u, w)'
BY DEF RowHas, Minded

\* A goroutine that goes on with the same job minds it as before.
LEMMA StillMinds ==
  ASSUME NEW g \in DOMAIN go, NEW q, Goto(g, q), NEW w, Minds(q, w), NEW t, q.task = t
  PROVE  Minded(t, w)'
<1>1. g \in DOMAIN go' /\ go'[g] = q
  BY DEF Goto, Put
<1> QED  BY <1>1, MindedBy

LEMMA StartJobMinded ==
  ASSUME CallsWork, Inv, TruthInv, AllAgree, WorksAgree, JobsMinded, NEW g \in DOMAIN go, NEW r,
         r = go[g], StartJob(g, r)
  PROVE  JobsMinded'
<1> DEFINE t == r.task
<1>1. /\ Agrees(g, r, rows[t], Running) /\ r \in Goroutine /\ t \in Tasks
      /\ g \in WaveIds \/ g \in PollIds \/ g \in ExportIds \/ g \in RequestIds
      /\ g \in PollIds => PollsJob(r, rows[t].work)
      /\ r.pc = "start" /\ rows' = rows
  BY Itself2 DEF WorksAgree, StartJob, tableVars
<1>2. g \in WaveIds /\ g \notin PollIds
  BY <1>1, Kinds DEF Agrees, ExportRole, RequestRole, PollsJob
<1>3. PICK v \in WorkIds : Accept(v, t) /\ Goto(g, [r EXCEPT !.work = v, !.pc = "limit"])
  BY <1>2 DEF StartJob, Fault, CallsWork
<1> DEFINE q == [r EXCEPT !.work = v, !.pc = "limit"]
<1>4. q.work = v /\ q.pc = "limit" /\ q.task = t /\ Goto(g, q)
  BY <1>1, <1>3 DEF Goroutine
<1>5. /\ madeFor[v] = {} /\ jobs' = [jobs EXCEPT ![v] = "running"]
      /\ madeFor' = [madeFor EXCEPT ![v] = {t}]
      /\ jobs \in [WorkIds -> JobStatus] /\ madeFor \in [WorkIds -> SUBSET Tasks]
  BY <1>3 DEF Accept, Fresh, Inv, ServiceTypeOK
<1> HIDE DEF q
<1>6. \A w \in WorkIds \ {v} : jobs'[w] = jobs[w] /\ madeFor'[w] = madeFor[w]
  BY <1>5
<1>7. DOMAIN go' = DOMAIN go /\ \A h \in DOMAIN go' : go'[h] = IF h = g THEN q ELSE go[h]
  BY <1>4 DEF Goto, Put
<1>8. ASSUME NEW w \in WorkIds, NEW u \in Tasks, jobs'[w] = "running", u \in madeFor'[w]
      PROVE  Minded(u, w)'
  <2>1. CASE w = v
    <3>1. u = t
      BY <1>5, <1>8, <2>1
    <3>2. Minds(q, w)
      BY <1>4, <2>1 DEF Minds
    <3> QED  BY <1>4, <3>1, <3>2, StillMinds
  <2>2. CASE w # v
    <3>1. Minded(u, w)
      BY <1>6, <1>8, <2>2 DEF JobsMinded
    <3>2. CASE RowHas(u, w)
      BY <1>1, <3>2 DEF RowHas, Minded
    <3>3. ASSUME NEW h \in GoOf(u), Minds(go[h], w)
          PROVE  Minded(u, w)'
      <4>1. h \in DOMAIN go /\ go[h].task = u /\ h # g
        BY <1>1, <3>3 DEF GoOf, Minds
      <4>2. h \in DOMAIN go' /\ go'[h] = go[h]
        BY <1>7, <4>1
      <4> QED  BY <3>3, <4>1, <4>2, MindedBy
    <3> QED  BY <3>1, <3>2, <3>3 DEF Minded
  <2> QED  BY <2>1, <2>2
<1>9. ASSUME NEW h \in DOMAIN go', h \in PollIds
      PROVE  Settled(go'[h], jobs')
  <2>1. /\ h \in DOMAIN go /\ go'[h] = go[h] /\ Truthful(go[h]) /\ Settled(go[h], jobs)
        /\ go[h].work \in WorkIds \cup {NoWork}
    BY <1>2, <1>7, <1>9, Itself DEF TruthInv, GoTrue, JobsMinded, Goroutine
  <2>2. go[h].work # v
    <3>1. go[h].work # NoWork => madeFor[go[h].work] = {go[h].task}
      BY <2>1 DEF Truthful, IsOf
    <3>2. v # NoWork
      BY DEF WorkIds, NoWork
    <3> QED  BY <1>5, <3>1, <3>2
  <2> QED  BY <1>6, <2>1, <2>2 DEF Settled
<1> QED  BY <1>8, <1>9 DEF JobsMinded

LEMMA LimitCheckMinded ==
  ASSUME Inv, AllAgree, JobsMinded, NEW g \in DOMAIN go, NEW r, r = go[g], LimitCheck(g, r)
  PROVE  JobsMinded'
<1>1. /\ r \in Goroutine /\ r.pc = "limit" /\ r.to = "running" /\ g \notin PollIds /\ rows' = rows
      /\ r.task \in Tasks
  BY Itself2, Kinds DEF LimitCheck, Agrees, PollRole, ExportRole, RequestRole, GoodCopy, tableVars
<1>2. NoneStarts
  BY DEF LimitCheck, serviceVars, NoneStarts
<1>3. PICK q : /\ Goto(g, q) /\ q.task = r.task /\ q.work = r.work
               /\ q.pc = "stop" \/ (q.pc = "sql" /\ q.to = "running")
  <2>1. /\ [r EXCEPT !.pc = "stop", !.to = "none"].task = r.task
        /\ [r EXCEPT !.pc = "stop", !.to = "none"].work = r.work
        /\ [r EXCEPT !.pc = "stop", !.to = "none"].pc = "stop"
    BY <1>1 DEF Goroutine
  <2>2. /\ [r EXCEPT !.pc = "sql"].task = r.task /\ [r EXCEPT !.pc = "sql"].work = r.work
        /\ [r EXCEPT !.pc = "sql"].pc = "sql" /\ [r EXCEPT !.pc = "sql"].to = "running"
    BY <1>1 DEF Goroutine
  <2> QED  BY <2>1, <2>2 DEF LimitCheck
<1>4. \A w \in WorkIds : Minds(r, w) => Minded(r.task, w)'
  BY <1>3, StillMinds DEF Minds
<1>5. \A w \in WorkIds, u \in Tasks : RowHas(u, w) => Minded(u, w)'
  BY <1>1, RowsMind
<1> QED  BY <1>1, <1>2, <1>3, <1>4, <1>5, JobsMove

LEMMA QueryMinded ==
  ASSUME NoRetry, CallsWork, Inv, AllAgree, JobsMinded, NEW g \in DOMAIN go, NEW r, r = go[g],
         GetAsyncTaskStatus(g, r)
  PROVE  JobsMinded'
<1>1. /\ r \in Goroutine /\ r.pc = "query" /\ rows' = rows /\ r.task \in Tasks
      /\ DropIfEnded(r.work) /\ Learn(g, r, Answer(r.work))
  BY Itself DEF GetAsyncTaskStatus, tableVars, Fault, CallsWork
<1>2. NoneStarts
  BY <1>1 DEF DropIfEnded, NoneStarts
<1>3. ASSUME NEW to \in {"exporting", "failed"}
      PROVE  /\ Transit(r, to).task = r.task /\ Transit(r, to).work = r.work
  BY <1>1 DEF Transit, Goroutine
<1>4. /\ [Transit(r, "failed") EXCEPT !.late = TRUE].task = r.task
      /\ [Transit(r, "failed") EXCEPT !.late = TRUE].late = TRUE
  BY <1>1 DEF Transit, Goroutine
<1>5. ~MayRetry(r)
  BY <1>1 DEF NoRetry, MayRetry, Goroutine, Attempts
<1>6. Exit(g) \/ \E q : Goto(g, q) /\ q.task = r.task /\ Settled(q, jobs')
  <2>1. CASE Answer(r.work) = "running"
    <3>1. Settled([Transit(r, "failed") EXCEPT !.late = TRUE], jobs')
      BY <1>4 DEF Settled
    <3> QED  BY <1>1, <1>4, <2>1, <3>1 DEF Learn
  <2>2. CASE Answer(r.work) # "running"
    <3>1. PICK to \in {"exporting", "failed"} : Goto(g, Transit(r, to))
      BY <1>1, <1>5, <2>2 DEF Learn
    <3>2. r.work # NoWork => r.work \in WorkIds /\ jobs'[r.work] = "none"
      BY <1>1, <2>2 DEF DropIfEnded, Goroutine
    <3>3. Settled(Transit(r, to), jobs')
      BY <1>3, <3>2 DEF Settled
    <3> QED  BY <1>3, <3>1, <3>3
  <2> QED  BY <2>1, <2>2
<1>7. \A w \in WorkIds : ~Minds(r, w)
  BY <1>1 DEF Minds
<1>8. \A w \in WorkIds, u \in Tasks : RowHas(u, w) => Minded(u, w)'
  BY <1>1, RowsMind
<1> QED  BY <1>1, <1>2, <1>6, <1>7, <1>8, JobsMove

LEMMA StopJobMinded ==
  ASSUME CallsWork, Inv, AllAgree, JobsMinded, NEW g \in DOMAIN go, NEW r, r = go[g], StopJob(g, r)
  PROVE  JobsMinded'
<1>1. /\ r \in Goroutine /\ r.pc = "stop" /\ rows' = rows /\ r.task \in Tasks /\ Cancel(r.work)
      /\ Agrees(g, r, rows[r.task], Running)
  BY Itself2 DEF StopJob, tableVars, Fault, CallsWork
<1>2. jobs \in [WorkIds -> JobStatus]
  BY DEF Inv, ServiceTypeOK
<1>3. NoneStarts
  BY <1>1, <1>2 DEF Cancel, NoneStarts, JobStatus
<1>4. \A w \in WorkIds : jobs'[w] = "running" => ~Minds(r, w)
  <2> SUFFICES ASSUME NEW w \in WorkIds, r.work = w PROVE jobs'[w] # "running"
    BY DEF Minds
  <2>1. w # NoWork
    BY DEF WorkIds, NoWork
  <2> QED  BY <1>1, <1>2, <2>1 DEF Cancel, Answer
<1>5. Exit(g) \/ \E q : Goto(g, q) /\ q.task = r.task /\ (g \in PollIds => Settled(q, jobs'))
  <2>1. CASE r.to = "none"
    BY <2>1 DEF StopJob
  <2>2. CASE r.to # "none"
    <3>1. g \notin PollIds /\ Goto(g, Transit(r, r.to))
      BY <1>1, <2>2 DEF StopJob, Agrees, PollRole
    <3>2. Transit(r, r.to).task = r.task
      BY <1>1 DEF Transit, Goroutine
    <3> QED  BY <3>1, <3>2
  <2> QED  BY <2>1, <2>2
<1>6. \A w \in WorkIds, u \in Tasks : RowHas(u, w) => Minded(u, w)'
  BY <1>1, RowsMind
<1> QED  BY <1>1, <1>3, <1>4, <1>5, <1>6, JobsMove

LEMMA ExportMinded ==
  ASSUME Inv, AllAgree, JobsMinded, NEW g \in DOMAIN go, NEW r, r = go[g],
         GetOutput(g, r) \/ DataPersistence(g, r)
  PROVE  JobsMinded'
<1>1. /\ r \in Goroutine /\ r.pc \in {"output", "save"} /\ r.task \in Tasks
      /\ g \notin PollIds
  BY Itself2, Kinds DEF GetOutput, DataPersistence, Agrees, WaveRole, PollRole, RequestRole
<1>2. NoneStarts
  BY DEF GetOutput, DataPersistence, serviceVars, NoneStarts
<1>3. \E q : Goto(g, q) /\ q.task = r.task
  <2>1. /\ \A to \in Outcomes : Transit(r, to).task = r.task
        /\ [r EXCEPT !.pc = "save"].task = r.task
    BY <1>1 DEF Transit, Goroutine
  <2> QED  BY <2>1 DEF GetOutput, DataPersistence, Outcomes
<1>4. \A w \in WorkIds : ~Minds(r, w)
  BY <1>1 DEF Minds
<1>5. \A u \in Tasks : rows'[u].status = rows[u].status /\ rows'[u].work = rows[u].work
  <2>1. rows' = rows \/ SaveOutput(r.task, r.work)
    BY DEF GetOutput, DataPersistence, tableVars
  <2> QED  BY <1>1, <2>1, SavedRow DEF Inv
<1>6. \A w \in WorkIds, u \in Tasks : RowHas(u, w) => Minded(u, w)'
  BY <1>5, RowsMind
<1> QED  BY <1>1, <1>2, <1>3, <1>4, <1>6, JobsMove

LEMMA SqlMinded ==
  ASSUME Calm, Inv, AllAgree, WorksAgree, JobsMinded, NEW g \in DOMAIN go, NEW r, r = go[g],
         Sql(g, r)
  PROVE  JobsMinded'
<1> DEFINE t == r.task
           q == [r EXCEPT !.pc = "mem", !.st = r.to]
<1>1. /\ Agrees(g, r, rows[t], Running) /\ r \in Goroutine /\ GoodCopy(r) /\ t \in Tasks
      /\ g \in WaveIds \/ g \in PollIds \/ g \in ExportIds \/ g \in RequestIds
      /\ g \in PollIds => PollsJob(r, rows[t].work) /\ Settled(r, jobs)
  BY Itself2 DEF WorksAgree, JobsMinded
<1>2. r.pc = "sql" /\ jobs' = jobs /\ NoneStarts
  BY DEF Sql, serviceVars, NoneStarts
<1>3. q.pc = "mem" /\ q.to = r.to /\ q.task = t /\ q.work = r.work /\ q.late = r.late
  BY <1>1 DEF Goroutine
<1>4. \/ /\ Found(t, r.st) /\ Update(t, r.to, r.work)
         /\ IF r.to = "delete" THEN Exit(g) ELSE Goto(g, q)
      \/ ~Found(t, r.st) /\ UNCHANGED tableVars /\ SqlFails(g, r)
  BY DEF Sql, Fault, Calm
<1> HIDE DEF q
<1>5. CASE ~Found(t, r.st) /\ UNCHANGED tableVars /\ SqlFails(g, r)
  <2>1. g \notin PollIds
    <3> SUFFICES ASSUME g \in PollIds PROVE FALSE
      OBVIOUS
    <3>1. RunsInTable(t) /\ r.st = "running"
      BY <1>1, <1>2, PollFinds DEF LeavesMap, Agrees, PollRole
    <3> QED  BY <1>5, <3>1 DEF RunsInTable, Found, Live
  <2>2. \A w \in WorkIds, u \in Tasks : RowHas(u, w) => Minded(u, w)'
    BY <1>5, RowsMind DEF tableVars
  <2>3. CASE r.to = "running"
    <3> DEFINE p == [r EXCEPT !.pc = "stop", !.to = "failed"]
    <3>1. p.pc = "stop" /\ p.task = t /\ p.work = r.work
      BY <1>1 DEF Goroutine
    <3>2. Goto(g, p)
      BY <1>5, <2>3 DEF SqlFails
    <3> HIDE DEF p
    <3>3. \A w \in WorkIds : Minds(r, w) => Minded(t, w)'
      BY <3>1, <3>2, StillMinds DEF Minds
    <3> QED  BY <1>1, <1>2, <2>1, <2>2, <3>1, <3>2, <3>3, JobsMove
  <2>4. CASE r.to # "running"
    <3>1. \A w \in WorkIds : ~Minds(r, w)
      BY <1>1, <1>2, <2>1, <2>4 DEF Agrees, WaveRole, ExportRole, RequestRole, Minds
    <3>2. Exit(g) \/ Goto(g, Transit(r, "failed"))
      BY <1>5, <2>4 DEF SqlFails
    <3>3. Transit(r, "failed").task = t
      BY <1>1 DEF Transit, Goroutine
    <3>4. Exit(g) \/ \E p : Goto(g, p) /\ p.task = t
      BY <3>2, <3>3
    <3> QED  BY <1>1, <1>2, <2>1, <2>2, <3>1, <3>4, JobsMove
  <2> QED  BY <2>3, <2>4
<1>6. CASE Found(t, r.st) /\ Update(t, r.to, r.work) /\ r.to # "delete" /\ Goto(g, q)
  <2>1. /\ rows'[t].status = r.to
        /\ \A u \in Tasks \ {t} : rows'[u] = rows[u]
    BY <1>1, <1>6, UpdatedRow DEF Inv, Goroutine
  <2>2. \A w \in WorkIds : Minds(r, w) => Minded(t, w)'
    <3>1. \A w \in WorkIds : Minds(r, w) => Minds(q, w)
      BY <1>2, <1>3 DEF Minds
    <3> QED  BY <1>3, <1>6, <3>1, StillMinds
  <2>3. ASSUME NEW w \in WorkIds, RowHas(t, w), jobs'[w] = "running"
        PROVE  Minded(t, w)'
    <3>1. r.st = "running" /\ g \in PollIds /\ r.to \in {"exporting", "failed"}
      BY <1>1, <1>2, <1>6, <2>3 DEF RowHas, Found, Agrees, WaveRole, PollRole, ExportRole,
        RequestRole, OverStatus, PollsJob
    <3>2. r.work = w /\ w # NoWork
      BY <1>1, <1>2, <2>3, <3>1 DEF PollsJob, RowHas, WorkIds, NoWork
    <3>3. r.late /\ r.to = "failed"
      BY <1>1, <1>2, <2>3, <3>1, <3>2 DEF Settled, Agrees, PollRole
    <3>4. Minds(r, w)
      BY <1>2, <3>2, <3>3 DEF Minds
    <3> QED  BY <2>2, <3>4
  <2>4. \A w \in WorkIds, u \in Tasks : jobs'[w] = "running" /\ RowHas(u, w) => Minded(u, w)'
    <3> SUFFICES ASSUME NEW w \in WorkIds, NEW u \in Tasks, jobs'[w] = "running", RowHas(u, w)
                 PROVE  Minded(u, w)'
      OBVIOUS
    <3>1. CASE u = t
      BY <2>3, <3>1
    <3>2. CASE u # t
      BY <2>1, <3>2, RowsMind
    <3> QED  BY <3>1, <3>2
  <2>5. g \in PollIds => Settled(q, jobs')
    BY <1>1, <1>2, <1>3 DEF Settled
  <2> QED  BY <1>1, <1>2, <1>3, <1>6, <2>2, <2>4, <2>5, JobsMove
<1>7. CASE Found(t, r.st) /\ Update(t, "delete", r.work) /\ r.to = "delete" /\ Exit(g)
  <2>1. g \in RequestIds
    BY <1>1, <1>2, <1>7 DEF Agrees, WaveRole, PollRole, ExportRole, Outcomes
  <2>2. \A w \in WorkIds : ~Minds(r, w)
    BY <1>2, <1>7 DEF Minds
  <2>3. \A u \in Tasks : rows'[u].status = rows[u].status /\ rows'[u].work = rows[u].work
    <3>1. rows[t] \in Row /\ rows \in [Tasks -> Row]
      BY <1>1 DEF Inv, TableTypeOK
    <3> DEFINE v == [rows[t] EXCEPT !.deleted = TRUE]
    <3>2. v.status = rows[t].status /\ v.work = rows[t].work
      BY <3>1 DEF Row
    <3>3. rows' = [rows EXCEPT ![t] = v]
      BY <1>7 DEF Update
    <3> HIDE DEF v
    <3> QED  BY <3>1, <3>2, <3>3
  <2>4. \A w \in WorkIds, u \in Tasks : RowHas(u, w) => Minded(u, w)'
    BY <2>3, RowsMind
  <2> QED  BY <1>1, <1>2, <1>7, <2>2, <2>4, JobsMove
<1> QED  BY <1>4, <1>5, <1>6, <1>7

LEMMA MemoryMinded ==
  ASSUME Inv, AllAgree, WorksAgree, JobsMinded, NEW g \in DOMAIN go, NEW r, r = go[g], Memory(g, r)
  PROVE  JobsMinded'
<1> DEFINE t == r.task
           q == [r EXCEPT !.pc = "stop", !.to = "none"]
<1>1. /\ Agrees(g, r, rows[t], Running) /\ r \in Goroutine /\ t \in Tasks
      /\ g \in WaveIds \/ g \in PollIds \/ g \in ExportIds \/ g \in RequestIds
      /\ g \in PollIds => PollsJob(r, rows[t].work)
  BY Itself2 DEF WorksAgree
<1>2. r.pc = "mem" /\ rows' = rows /\ jobs' = jobs /\ NoneStarts
  BY DEF Memory, tableVars, serviceVars, NoneStarts
<1>3. q.pc = "stop" /\ q.task = t /\ q.work = r.work
  BY <1>1 DEF Goroutine
<1>4. \/ r.to = "running" /\ Exit(g)
      \/ r.to \in Outcomes /\ IF r.late THEN Goto(g, q) ELSE Exit(g)
      \/ /\ r.to = "exporting"
         /\ \E e \in ExportIds :
              /\ e \notin DOMAIN go
              /\ go' = Put(Without(go, g), e, [r EXCEPT !.pc = "output", !.to = "success"])
  <2>1. r.to # "stoped"
    BY <1>1, <1>2 DEF Agrees, WaveRole, PollRole, ExportRole, RequestRole, Outcomes
  <2> QED  BY <2>1 DEF Memory, Free
<1> HIDE DEF q
<1>5. \A w \in WorkIds, u \in Tasks : RowHas(u, w) => Minded(u, w)'
  BY <1>2, RowsMind
<1>6. CASE r.to = "running" /\ Exit(g)
  <2>1. g \in WaveIds
    BY <1>1, <1>2, <1>6 DEF PollsJob, Agrees, ExportRole, RequestRole, Outcomes
  <2>2. rows[t].status = "running" /\ rows[t].work = r.work
    BY <1>1, <1>2, <1>6, <2>1 DEF Agrees, WaveKnows
  <2>3. \A w \in WorkIds : Minds(r, w) => RowHas(t, w)
    BY <2>2 DEF Minds, RowHas
  <2>4. \A w \in WorkIds : Minds(r, w) => Minded(t, w)'
    BY <1>1, <1>5, <2>3
  <2> QED  BY <1>1, <1>2, <1>5, <1>6, <2>4, JobsMove
<1>7. CASE r.to \in Outcomes /\ r.late /\ Goto(g, q)
  <2>1. \A w \in WorkIds : Minds(r, w) => Minds(q, w)
    BY <1>3 DEF Minds
  <2>2. \A w \in WorkIds : Minds(r, w) => Minded(t, w)'
    BY <1>3, <1>7, <2>1, StillMinds
  <2>3. Settled(q, jobs')
    BY <1>3 DEF Settled
  <2> QED  BY <1>1, <1>2, <1>3, <1>5, <1>7, <2>2, <2>3, JobsMove
<1>8. CASE r.to \in Outcomes /\ ~r.late /\ Exit(g)
  <2>1. \A w \in WorkIds : ~Minds(r, w)
    BY <1>2, <1>8 DEF Minds, Outcomes
  <2> QED  BY <1>1, <1>2, <1>5, <1>8, <2>1, JobsMove
<1>9. ASSUME r.to = "exporting", NEW e \in ExportIds, e \notin DOMAIN go, NEW x,
             go' = Put(Without(go, g), e, x)
      PROVE  JobsMinded'
  <2>1. /\ \A h \in DOMAIN go : h # g => h \in DOMAIN go' /\ go'[h] = go[h]
        /\ \A h \in DOMAIN go' : h # e => h \in DOMAIN go /\ go'[h] = go[h]
    BY <1>9 DEF Put, Without, Restrict
  <2>2. ASSUME NEW w \in WorkIds, NEW u \in Tasks, jobs'[w] = "running", u \in madeFor'[w]
        PROVE  Minded(u, w)'
    <3>1. Minded(u, w)
      BY <1>2, <2>2 DEF NoneStarts, JobsMinded
    <3>2. CASE RowHas(u, w)
      BY <1>5, <3>2
    <3>3. ASSUME NEW h \in GoOf(u), Minds(go[h], w)
          PROVE  Minded(u, w)'
      <4>1. h \in DOMAIN go /\ go[h].task = u /\ h # g
        BY <1>2, <1>9, <3>3 DEF GoOf, Minds
      <4> QED  BY <2>1, <3>3, <4>1, MindedBy
    <3> QED  BY <3>1, <3>2, <3>3 DEF Minded
  <2>3. \A h \in DOMAIN go' : h \in PollIds => Settled(go'[h], jobs')
    BY <1>2, <2>1, Kinds DEF JobsMinded
  <2> QED  BY <2>2, <2>3 DEF JobsMinded
<1> QED  BY <1>4, <1>6, <1>7, <1>8, <1>9

LEMMA AddTaskMinded ==
  ASSUME Calm, Inv, AllAgree, JobsMinded, NEW g \in DOMAIN go, NEW r, r = go[g], AddTask(g, r)
  PROVE  JobsMinded'
<1>1. /\ g \in RequestIds /\ r.pc \in {"push", "upsert"} /\ r.task \in Tasks /\ r \in Goroutine
      /\ rows[r.task].status = "unstart"
  BY Itself2 DEF Agrees, WaveRole, PollRole, ExportRole, RequestRole, RequestKnows, AddTask
<1>2. NoneStarts /\ g \notin PollIds
  BY <1>1, Kinds DEF AddTask, serviceVars, NoneStarts
<1>3. Exit(g) \/ \E q : Goto(g, q) /\ q.task = r.task
  <2>1. [r EXCEPT !.pc = "upsert"].task = r.task /\ [r EXCEPT !.pc = "undo"].task = r.task
    BY <1>1 DEF Goroutine
  <2> QED  BY <2>1 DEF AddTask
<1>4. \A w \in WorkIds : ~Minds(r, w)
  BY <1>1 DEF Minds
<1>5. \A u \in Tasks : u # r.task => rows'[u] = rows[u]
  <2>1. rows' = rows \/ Upsert(r.task)
    BY <1>1 DEF AddTask, tableVars
  <2> QED  BY <1>1, <2>1, Inserted DEF Upsert, Inv
<1>6. ASSUME NEW w \in WorkIds, NEW u \in Tasks, RowHas(u, w)
      PROVE  Minded(u, w)'
  <2>1. u # r.task
    BY <1>1, <1>6 DEF RowHas
  <2> QED  BY <1>5, <1>6, <2>1, RowsMind
<1> QED  BY <1>1, <1>2, <1>3, <1>4, <1>6, JobsMove

LEMMA StepMinded ==
  ASSUME Calm, NoRetry, CallsWork, Inv, TruthInv, AllAgree, WorksAgree, JobsMinded,
         NEW g \in GoIds, Step(g)
  PROVE  JobsMinded'
BY StartJobMinded, LimitCheckMinded, QueryMinded, StopJobMinded, ExportMinded, SqlMinded,
  MemoryMinded, AddTaskMinded DEF Step

\* No goroutine moves, though some may be launched.
LEMMA JobsStay ==
  ASSUME Inv, JobsMinded, NoneStarts,
         \A w \in WorkIds, u \in Tasks : RowHas(u, w) => Minded(u, w)',
         \A h \in DOMAIN go : h \in DOMAIN go' /\ go'[h] = go[h],
         \A h \in DOMAIN go' : h \in PollIds =>
           h \in DOMAIN go \/ go'[h].pc \notin {"sql", "mem"}
  PROVE  JobsMinded'
<1>1. ASSUME NEW w \in WorkIds, NEW u \in Tasks, jobs'[w] = "running", u \in madeFor'[w]
      PROVE  Minded(u, w)'
  <2>1. Minded(u, w)
    BY <1>1 DEF NoneStarts, JobsMinded
  <2>2. ASSUME NEW h \in GoOf(u), Minds(go[h], w)
        PROVE  Minded(u, w)'
    BY <2>2, MindedBy DEF GoOf
  <2> QED  BY <2>1, <2>2 DEF Minded
<1>2. ASSUME NEW h \in DOMAIN go', h \in PollIds
      PROVE  Settled(go'[h], jobs')
  <2>1. CASE h \in DOMAIN go
    <3>1. go'[h] = go[h] /\ go[h].work \in WorkIds \cup {NoWork} /\ Settled(go[h], jobs)
      BY <1>2, <2>1, Itself DEF Goroutine, JobsMinded
    <3> QED  BY <3>1 DEF Settled, NoneStarts
  <2>2. CASE h \notin DOMAIN go
    BY <1>2, <2>2 DEF Settled
  <2> QED  BY <2>1, <2>2
<1> QED  BY <1>1, <1>2 DEF JobsMinded

LEMMA NextMinded ==
  ASSUME Calm, NoRetry, CallsWork, Inv, TruthInv, OwnInv, WorksAgree, JobsMinded, [Next]_vars
  PROVE  JobsMinded'
<1>1. AllAgree
  BY DEF OwnInv
<1>2. rows' = rows => \A w \in WorkIds, u \in Tasks : RowHas(u, w) => Minded(u, w)'
  BY RowsMind
<1>3. UNCHANGED serviceVars => NoneStarts
  BY DEF serviceVars, NoneStarts
<1>4. ASSUME rows' = rows, go' = go, NoneStarts
      PROVE  JobsMinded'
  BY <1>2, <1>4, JobsStay
<1>5. CASE ScheduleOnce
  <2> DEFINE k == IF FreeSlots < Len(waitingTasks) THEN FreeSlots ELSE Len(waitingTasks)
             wave == {"wave"} \X ((1..k) \ Ignored(k))
  <2>1. /\ DOMAIN go' = DOMAIN go \cup wave
        /\ \A h \in DOMAIN go : go'[h] = go[h]
        /\ rows' = rows /\ UNCHANGED serviceVars
    BY <1>5 DEF ScheduleOnce, tableVars
  <2>2. \A h \in wave : h \notin PollIds
    BY DEF PollIds
  <2> HIDE DEF wave
  <2> QED  BY <1>2, <1>3, <2>1, <2>2, JobsStay
<1>6. CASE UpdateOnce
  <2>1. /\ rows' = rows /\ UNCHANGED serviceVars
        /\ DOMAIN go' = DOMAIN go \cup ({"poll"} \X Running)
        /\ \A h \in DOMAIN go : go'[h] = go[h]
    BY <1>6 DEF UpdateOnce, tableVars
  <2>2. ASSUME NEW h \in DOMAIN go', h \notin DOMAIN go
        PROVE  go'[h].pc \notin {"sql", "mem"}
    BY <1>6, <2>2 DEF UpdateOnce, New
  <2> QED  BY <1>2, <1>3, <2>1, <2>2, JobsStay
<1>7. CASE Crash
  <2>1. (\A w \in WorkIds : jobs'[w] = "none") /\ DOMAIN go' = {}
    BY <1>7 DEF Crash, ServiceDies, Empty
  <2> QED  BY <2>1 DEF JobsMinded
<1>8. CASE Boot
  BY <1>3, <1>4, <1>8 DEF Boot, tableVars
<1>9. ASSUME NEW t \in Tasks, CreateTask(t)
      PROVE  JobsMinded'
  <2>1. rows[t].status = "none" /\ \A u \in Tasks \ {t} : rows'[u] = rows[u]
    BY <1>9, Inserted DEF CreateTask, Insert, Inv
  <2>2. ASSUME NEW w \in WorkIds, NEW u \in Tasks, RowHas(u, w)
        PROVE  Minded(u, w)'
    <3>1. u # t
      BY <2>1, <2>2 DEF RowHas
    <3> QED  BY <2>1, <2>2, <3>1, RowsMind
  <2>3. NoneStarts /\ go' = go
    BY <1>3, <1>9 DEF CreateTask
  <2> QED  BY <2>2, <2>3, JobsStay
<1>10. ASSUME NEW t \in Tasks, NEW op \in Operations, NEW g \in RequestIds, Request(t, op, g)
       PROVE  JobsMinded'
  <2>1. /\ \A h \in DOMAIN go' : h = g \/ h \in DOMAIN go
        /\ \A h \in DOMAIN go : h \in DOMAIN go' /\ go'[h] = go[h]
        /\ rows' = rows /\ UNCHANGED serviceVars
    BY <1>10 DEF Request, Free, Goto, Put, tableVars
  <2>2. g \notin PollIds
    BY Kinds
  <2> QED  BY <1>2, <1>3, <2>1, <2>2, JobsStay
<1>11. ASSUME NEW w \in WorkIds, Cut(w)
       PROVE  JobsMinded'
  <2>1. jobs \in [WorkIds -> JobStatus]
    BY DEF Inv, ServiceTypeOK
  <2>2. NoneStarts
    BY <1>11, <2>1 DEF Cut, CutStep, CutFails, CutReturns, CutStore, CutPath, NoneStarts
  <2> QED  BY <1>4, <1>11, <2>2 DEF Cut, tableVars
<1>12. CASE UNCHANGED vars
  BY <1>3, <1>4, <1>12 DEF vars, tableVars
<1> QED
  BY <1>1, <1>5, <1>6, <1>7, <1>8, <1>9, <1>10, <1>11, <1>12, StepMinded DEF Next

\* While calls work as well, ffmpeg runs for a task nobody is at work on only as the job
\* its row names: neither a timeout, nor a full limit, nor a crash in between, leaves a
\* job that is never stored, polled or stopped.
THEOREM NoJobIsLost ==
  ASSUME Calm, NoRetry, CallsWork
  PROVE  Safety => []JobsAreKnown
<1>1. Init => JobsMinded
  BY DEF Init, ServiceInit, Empty, JobsMinded
<1>2. Inv /\ TruthInv /\ OwnInv /\ WorksAgree /\ JobsMinded /\ [Next]_vars => JobsMinded'
  BY NextMinded
<1>3. JobsMinded => JobsAreKnown
  BY DEF JobsMinded, Minded, GoOf, RowHas, Engaged, JobsAreKnown
<1> QED  BY <1>1, <1>2, <1>3, InvHolds, TruthHolds, OwnHolds, WorksHold, PTL DEF Safety
=============================================================================
