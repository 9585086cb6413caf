-------------------------- MODULE AttemptsProofs ----------------------------
(***************************************************************************)
(* Poll mode without stops, on top of PollModeProofs: every start of a     *)
(* function is counted, and the scheduler implements TaskLifecycle; and,   *)
(* without timeout, a function that is executed holds one of the TaskLimit *)
(* slots, and a failure is reported only when the attempts are used up.    *)
(***************************************************************************)
EXTENDS PollModeProofs

-----------------------------------------------------------------------------
(* What one place of a task excludes.                                      *)

LEMMA Exclusive ==
  ASSUME Core, NEW t \in Tasks
  PROVE  /\ t \in Running =>
              /\ ~Fresh(t)
              /\ \A g \in WaveIds \cup ExportIds : workers[g].pc \notin Loose => workers[g].task # t
         /\ \A g \in WaveIds \cup ExportIds :
              workers[g].task = t /\ workers[g].pc \notin Loose =>
                /\ ~Fresh(t) /\ t \notin Running
                /\ \A h \in WaveIds \cup ExportIds :
                     workers[h].task = t /\ workers[h].pc \notin Loose => h = g
<1>1. \A p, q \in Place[t] : p = q
  BY DEF Core, OnePlace
<1>2. Fresh(t) => Outside \in Place[t] \/ Queue \in Place[t] \/ Hand \in Place[t]
  BY AtPlace DEF Fresh
<1>3. t \in Running => Slot \in Place[t]
  BY AtPlace
<1>4. \A g \in WaveIds \cup ExportIds :
        workers[g].task = t /\ workers[g].pc \notin Loose => g \in Place[t]
  BY AtPlace
<1> QED
  BY <1>1, <1>2, <1>3, <1>4, Places

\* A task that its poll goroutine has let go of is neither fresh nor with a wave.
LEMMA EndsApart ==
  ASSUME Core, NEW t \in Tasks, workers[<<"poll", t>>].pc \in PollEnds
  PROVE  /\ ~Fresh(t) /\ t \notin Running
         /\ \A g \in WaveIds \cup ExportIds : workers[g].pc \notin Loose => workers[g].task # t
<1>1. \A p, q \in Place[t] : p = q
  BY DEF Core, OnePlace
<1>2. Fresh(t) => Outside \in Place[t] \/ Queue \in Place[t] \/ Hand \in Place[t]
  BY AtPlace DEF Fresh
<1>3. Slot \in Place[t]
  BY AtPlace
<1>4. \A g \in WaveIds \cup ExportIds :
        workers[g].task = t /\ workers[g].pc \notin Loose => g \in Place[t]
  BY AtPlace
<1>5. t \notin Running
  BY Kinds DEF Core, WorkerShape
<1> QED
  BY <1>1, <1>2, <1>3, <1>4, <1>5, Places

\* A task that a goroutine of a wave is about to store has an idle poll goroutine.
LEMMA PollAway ==
  ASSUME Core, NEW t \in Tasks, t \notin Running, workers[<<"poll", t>>].pc \notin PollEnds
  PROVE  workers[<<"poll", t>>].pc \in {"idle", "stop"}
BY Kinds DEF Core, WorkerShape, PollPC

\* the types the proofs below look at
LEMMA Types ==
  ASSUME TypeInv
  PROVE  /\ workers \in [WorkerIds -> Worker] /\ runningTaskMap \in [Tasks -> Entry]
         /\ starts \in [Tasks -> Nat] /\ runningTask \in [Tasks -> CacheStatus]
         /\ runs \in SUBSET Run /\ waitingTasks \in Seq(Tasks)
         /\ finshedTask \in [Tasks -> Seq({"success", "failed"})]
         /\ sched \in Sched /\ client \in [Tasks -> Client]
         /\ \A g \in WorkerIds : workers[g].pc # "idle" => workers[g].task \in Tasks
         /\ \A t \in Tasks : runningTaskMap[t].att \in Attempts
         /\ \A g \in WorkerIds : workers[g].att \in Attempts
         /\ MaxFailedAttempts \in Nat /\ \A a \in Attempts : a \in Nat /\ a <= MaxFailedAttempts
BY TaskAssumption DEF TypeInv, TypeOK, ContainerTypeOK, ActuatorTypeOK, SchedulerTypeOK, BusyOK,
                      Entry, Worker, Attempts

-----------------------------------------------------------------------------
(* StartsCounted.                                                          *)

\* a step that starts nothing
LEMMA CountedFrame ==
  ASSUME StartsCounted, UNCHANGED starts, stopedTaskMap' = {},
         \A t \in Tasks : Fresh(t)' => Fresh(t),
         \A g \in WaveIds : workers'[g] = workers[g]
                            \/ WaveCounts(workers'[g], starts[workers'[g].task]),
         \A t \in Running' :
           \/ /\ t \in Running /\ runningTaskMap'[t].att = runningTaskMap[t].att
              /\ workers'[<<"poll", t>>] = workers[<<"poll", t>>]
           \/ /\ starts[t] > 0
              /\ PollCounts(workers'[<<"poll", t>>], starts[t], runningTaskMap'[t].att),
         \A t \in Tasks : runningTask'[t] # "none" => starts[t] > 0,
         \A r \in runs' : starts[r.task] > 0
  PROVE  StartsCounted'
<1>1. \A g \in WaveIds : WaveCounts(workers'[g], starts'[workers'[g].task])
  BY DEF StartsCounted
<1>2. \A t \in Running' :
        starts'[t] > 0 /\ PollCounts(workers'[<<"poll", t>>], starts'[t], runningTaskMap'[t].att)
  BY DEF StartsCounted
<1> QED
  BY <1>1, <1>2 DEF StartsCounted

\* a step of one goroutine that leaves the container's map and the runs alone
LEMMA CountedOne ==
  ASSUME TypeInv, StartsCounted,
         UNCHANGED <<starts, client, sched, waitingTasks, stopedTaskMap, runningTaskMap, runs>>,
         \A t \in Tasks : runningTask'[t] # "none" => runningTask[t] # "none",
         NEW g \in WorkerIds, NEW w, Become(g, w),
         g \in WaveIds => WaveCounts(w, starts[w.task]),
         \A t \in Running : g = <<"poll", t>> => PollCounts(w, starts[t], runningTaskMap[t].att)
  PROVE  StartsCounted'
<1>1. workers'[g] = w /\ \A h \in WorkerIds : h # g => workers'[h] = workers[h]
  BY Types DEF Become
<1>2. Running' = Running /\ Running \subseteq Tasks
  BY DEF Running
<1>3. \A t \in Tasks : Fresh(t)' => Fresh(t)
  BY DEF Fresh, Waits
<1>4. stopedTaskMap' = {}
  BY DEF StartsCounted
<1>5. \A h \in WaveIds : workers'[h] = workers[h] \/ WaveCounts(workers'[h], starts[workers'[h].task])
  BY <1>1, Kinds
<1>6. ASSUME NEW t \in Running'
      PROVE  \/ /\ t \in Running /\ runningTaskMap'[t].att = runningTaskMap[t].att
                /\ workers'[<<"poll", t>>] = workers[<<"poll", t>>]
             \/ /\ starts[t] > 0
                /\ PollCounts(workers'[<<"poll", t>>], starts[t], runningTaskMap'[t].att)
  <2>1. <<"poll", t>> \in WorkerIds /\ t \in Running
    BY <1>2, Kinds
  <2> QED
    BY <1>1, <2>1 DEF StartsCounted
<1>7. \A t \in Tasks : runningTask'[t] # "none" => starts[t] > 0
  BY DEF StartsCounted
<1>8. \A r \in runs' : starts[r.task] > 0
  BY DEF StartsCounted
<1> QED
  BY <1>3, <1>4, <1>5, <1>6, <1>7, <1>8, CountedFrame

\* the poll goroutine of a running task, and its task
LEMMA PollOf ==
  ASSUME Core, NEW g \in PollIds, workers[g].pc # "idle"
  PROVE  /\ workers[g].task = g[2] /\ g = <<"poll", workers[g].task>>
         /\ \A t \in Tasks : g = <<"poll", t>> => t = workers[g].task
BY Kinds DEF Core, WorkerShape

\* the goroutines that let go of their task, or never come near the function
LEMMA CountedAway ==
  ASSUME TypeInv, Core, StartsCounted,
         UNCHANGED <<starts, client, sched, waitingTasks, stopedTaskMap, runningTaskMap, runs>>,
         \A t \in Tasks : runningTask'[t] # "none" => runningTask[t] # "none",
         NEW g \in WorkerIds, NEW w, Become(g, w),
         w.pc \in {"idle", "inc", "remove", "dec", "finish", "stop", "spawn", "output", "clear", "persist"},
         \A t \in Running : g = <<"poll", t>> =>
           workers[g].pc \in {"idle", "stop", "query", "forget", "ready"} \/ w.pc = "remove"
  PROVE  StartsCounted'
<1>1. g \in WaveIds => WaveCounts(w, starts[w.task])
  BY DEF WaveCounts
<1>2. ASSUME NEW t \in Running, g = <<"poll", t>>
      PROVE  PollCounts(w, starts[t], runningTaskMap[t].att)
  <2>1. PollCounts(workers[g], starts[t], runningTaskMap[t].att)
    BY <1>2 DEF StartsCounted
  <2>2. CASE w.pc = "remove"
    BY <2>2 DEF PollCounts
  <2>3. CASE workers[g].pc \in {"idle", "stop", "query", "forget", "ready"}
    <3>1. starts[t] = runningTaskMap[t].att + 1
      BY <2>1, <2>3 DEF PollCounts
    <3> QED
      BY <3>1 DEF PollCounts
  <2> QED
    BY <1>2, <2>2, <2>3
<1> QED
  BY <1>1, <1>2, CountedOne

\* a goroutine starts the function
LEMMA CountedLaunch ==
  ASSUME TypeInv, Core, StartsCounted, NEW g \in WorkerIds, StartLaunch(g)
  PROVE  StartsCounted'
<1> DEFINE w == workers[g]
           t == w.task
           v == [w EXCEPT !.pc = IF g \in WaveIds THEN "limit" ELSE "store"]
           r == [task |-> t, n |-> starts[t] + 1, att |-> w.att, pc |-> "run", ok |-> FALSE]
<1>0. w.pc = "launch" /\ w \in Worker /\ t \in Tasks
  BY Busy DEF StartLaunch, At
<1>1. /\ starts' = [starts EXCEPT ![t] = starts[t] + 1]
      /\ runningTask' = [runningTask EXCEPT ![t] = "running"]
      /\ runs' = runs \cup {r} /\ r.task = t
      /\ Become(g, v)
      /\ UNCHANGED <<containerVars, client, sched>>
  BY DEF StartLaunch, Launch, Goto, loopVars
<1>2. v.pc = (IF g \in WaveIds THEN "limit" ELSE "store") /\ v.task = t /\ v.att = w.att
  BY <1>0 DEF Worker
<1> HIDE DEF v, r
<1>3. /\ UNCHANGED <<waitingTasks, stopedTaskMap, runningTaskMap>> /\ Running' = Running
      /\ \A u \in Tasks : Fresh(u)' = Fresh(u)
      /\ stopedTaskMap' = {}
  BY <1>1 DEF containerVars, Running, Fresh, Waits, StartsCounted
<1>4. workers'[g] = v /\ \A h \in WorkerIds : h # g => workers'[h] = workers[h]
  BY <1>1, Types DEF Become
<1>5. g \in WaveIds \cup PollIds
  BY <1>0, Whose
<1>6. \A u \in Tasks : starts'[u] = IF u = t THEN starts[t] + 1 ELSE starts[u]
  BY <1>0, <1>1, Types
<1>7. \A u \in Tasks : starts[u] \in Nat
  BY Types
<1>8. \A u \in Tasks : runningTask'[u] # "none" => starts'[u] > 0
  BY <1>0, <1>1, <1>6, <1>7, Types DEF StartsCounted
<1>9. \A x \in runs' : starts'[x.task] > 0
  <2>1. \A x \in runs : x.task \in Tasks /\ starts[x.task] > 0
    BY Types DEF Run, StartsCounted
  <2> QED
    BY <1>0, <1>1, <1>6, <1>7, <2>1
<1>10. CASE g \in WaveIds
  <2>1. w.att = 0 /\ starts[t] = 0
    BY <1>0, <1>10 DEF StartsCounted, WaveCounts
  <2>2. /\ ~Fresh(t) /\ t \notin Running
        /\ \A h \in WaveIds : h # g /\ workers[h].pc \notin Loose => workers[h].task # t
    BY <1>0, <1>10, Exclusive DEF Loose
  <2>3. \A u \in Tasks : starts'[u] <= 1 + MaxFailedAttempts
    <3>1. MaxFailedAttempts \in Nat /\ \A u \in Tasks : starts[u] <= 1 + MaxFailedAttempts
      BY Types DEF StartsCounted
    <3> QED
      BY <1>6, <2>1, <3>1
  <2>4. \A u \in Tasks : Fresh(u)' => starts'[u] = 0
    BY <1>3, <1>6, <2>2 DEF StartsCounted
  <2>5. ASSUME NEW h \in WaveIds PROVE WaveCounts(workers'[h], starts'[workers'[h].task])
    <3>1. CASE h = g
      BY <1>0, <1>2, <1>4, <1>6, <1>10, <2>1, <3>1 DEF WaveCounts
    <3>2. CASE h # g
      <4>1. workers'[h] = workers[h] /\ WaveCounts(workers[h], starts[workers[h].task])
        BY <1>4, <3>2, Kinds DEF StartsCounted
      <4>2. CASE workers[h].pc \in Loose
        BY <4>1, <4>2 DEF WaveCounts, Loose
      <4>3. CASE workers[h].pc \notin Loose
        <5>1. workers[h].task \in Tasks /\ workers[h].task # t
          BY <2>2, <3>2, <4>3, Types, Kinds DEF Loose
        <5> QED
          BY <1>6, <4>1, <5>1
      <4> QED
        BY <4>2, <4>3
    <3> QED
      BY <3>1, <3>2
  <2>6. ASSUME NEW u \in Running'
        PROVE  starts'[u] > 0 /\ PollCounts(workers'[<<"poll", u>>], starts'[u], runningTaskMap'[u].att)
    <3>1. u \in Running /\ u \in Tasks /\ u # t
      BY <1>3, <2>2 DEF Running
    <3>2. <<"poll", u>> \in WorkerIds /\ <<"poll", u>> # g
      BY <1>10, <3>1, Kinds
    <3> QED
      BY <1>3, <1>4, <1>6, <3>1, <3>2 DEF StartsCounted
  <2> QED
    BY <1>3, <1>8, <1>9, <2>3, <2>4, <2>5, <2>6 DEF StartsCounted
<1>11. CASE g \in PollIds
  <2>1. g \notin WaveIds /\ g = <<"poll", t>> /\ t \in Running
    BY <1>0, <1>11, PollOf, Kinds DEF Core, WorkerShape, PollHolds
  <2>2. starts[t] = runningTaskMap[t].att + 1 /\ w.att = runningTaskMap[t].att + 1
    BY <1>0, <2>1 DEF StartsCounted, PollCounts
  <2>3. ~Fresh(t) /\ \A h \in WaveIds : workers[h].pc \notin Loose => workers[h].task # t
    BY <1>0, <2>1, Exclusive
  <2>4. \A u \in Tasks : starts'[u] <= 1 + MaxFailedAttempts
    <3>1. MaxFailedAttempts \in Nat /\ \A u \in Tasks : starts[u] <= 1 + MaxFailedAttempts
      BY Types DEF StartsCounted
    <3>2. w.att \in Nat /\ w.att <= MaxFailedAttempts /\ starts[t] = w.att
      BY <2>2, Types
    <3> QED
      BY <1>6, <3>1, <3>2
  <2>5. \A u \in Tasks : Fresh(u)' => starts'[u] = 0
    BY <1>3, <1>6, <2>3 DEF StartsCounted
  <2>6. ASSUME NEW h \in WaveIds PROVE WaveCounts(workers'[h], starts'[workers'[h].task])
    <3>1. workers'[h] = workers[h] /\ WaveCounts(workers[h], starts[workers[h].task])
      BY <1>4, <2>1, Kinds DEF StartsCounted
    <3>2. CASE workers[h].pc \in Loose
      BY <3>1, <3>2 DEF WaveCounts, Loose
    <3>3. CASE workers[h].pc \notin Loose
      <4>1. workers[h].task \in Tasks /\ workers[h].task # t
        BY <2>3, <3>3, Types, Kinds DEF Loose
      <4> QED
        BY <1>6, <3>1, <4>1
    <3> QED
      BY <3>2, <3>3
  <2>7. ASSUME NEW u \in Running'
        PROVE  starts'[u] > 0 /\ PollCounts(workers'[<<"poll", u>>], starts'[u], runningTaskMap'[u].att)
    <3>1. u \in Running /\ u \in Tasks /\ <<"poll", u>> \in WorkerIds
      BY <1>3, Kinds DEF Running
    <3>2. CASE u = t
      <4>1. v.pc = "store" /\ v.att = w.att
        BY <1>2, <2>1
      <4>2. starts'[t] = runningTaskMap[t].att + 2 /\ starts'[t] > 0
        BY <1>0, <1>6, <2>2, Types
      <4>3. PollCounts(v, starts'[t], runningTaskMap'[t].att)
        BY <1>3, <2>2, <4>1, <4>2 DEF PollCounts
      <4> QED
        BY <1>4, <2>1, <3>2, <4>2, <4>3
    <3>3. CASE u # t
      <4>1. <<"poll", u>> # g
        BY <2>1, <3>3
      <4> QED
        BY <1>3, <1>4, <1>6, <3>1, <3>3, <4>1 DEF StartsCounted
    <3> QED
      BY <3>2, <3>3
  <2> QED
    BY <1>3, <1>8, <1>9, <2>4, <2>5, <2>6, <2>7 DEF StartsCounted
<1> QED
  BY <1>5, <1>10, <1>11

\* a goroutine of a wave stores its task, one of a poll round finds it stored
LEMMA CountedStore ==
  ASSUME TypeInv, Core, StartsCounted, NEW g \in WorkerIds, ToRunning(g)
  PROVE  StartsCounted'
<1> DEFINE w == workers[g]
           t == w.task
           v == [w EXCEPT !.pc = IF runningTaskMap[t].in THEN "restore" ELSE "inc"]
           e == IF runningTaskMap[t].in THEN runningTaskMap[t] ELSE Present(w.att)
<1>0. w.pc = "store" /\ w \in Worker /\ t \in Tasks
  BY Busy DEF ToRunning, At
<1>1. /\ runningTaskMap' = [runningTaskMap EXCEPT ![t] = e]
      /\ Become(g, v)
      /\ UNCHANGED <<starts, runningTask, runs, client, sched, waitingTasks, stopedTaskMap>>
  BY DEF ToRunning, LoadOrStore, Goto, loopVars, actuatorVars
<1>2. /\ v.pc = (IF runningTaskMap[t].in THEN "restore" ELSE "inc")
      /\ v.task = t /\ v.att = w.att
  BY <1>0 DEF Worker
<1>3. e.in /\ e.att = IF runningTaskMap[t].in THEN runningTaskMap[t].att ELSE w.att
  BY DEF Present
<1> HIDE DEF v, e
<1>4. workers'[g] = v /\ \A h \in WorkerIds : h # g => workers'[h] = workers[h]
  BY <1>1, Types DEF Become
<1>5. /\ runningTaskMap'[t] = e
      /\ \A u \in Tasks : u # t => runningTaskMap'[u] = runningTaskMap[u]
  BY <1>0, <1>1, Types
<1>6. g \in WaveIds \cup PollIds
  BY <1>0, Whose
<1>7. \A h \in WaveIds : workers'[h] = workers[h] \/ WaveCounts(workers'[h], starts[workers'[h].task])
  BY <1>2, <1>4, Kinds DEF WaveCounts
<1>8. (t \in Running <=> runningTaskMap[t].in) /\ starts[t] \in Nat
  BY <1>0, Types DEF Running
<1>9. ASSUME NEW u \in Running'
      PROVE  \/ /\ u \in Running /\ runningTaskMap'[u].att = runningTaskMap[u].att
                /\ workers'[<<"poll", u>>] = workers[<<"poll", u>>]
             \/ /\ starts[u] > 0
                /\ PollCounts(workers'[<<"poll", u>>], starts[u], runningTaskMap'[u].att)
  <2>1. u \in Tasks /\ <<"poll", u>> \in WorkerIds /\ <<"poll", u>> \in PollIds
    BY Kinds DEF Running
  <2>2. CASE u # t
    <3>1. g # <<"poll", u>>
      BY <1>0, <1>6, <2>1, <2>2, PollOf, Kinds
    <3>2. u \in Running
      BY <1>5, <2>1, <2>2 DEF Running
    <3> QED
      BY <1>4, <1>5, <2>1, <2>2, <3>1, <3>2
  <2>3. CASE u = t /\ g \in WaveIds
    <3>1. t \notin Running /\ workers[<<"poll", t>>].pc \notin PollEnds
      BY <1>0, <2>3, HeldApart DEF Loose
    <3>2. workers[<<"poll", t>>].pc \in {"idle", "stop"}
      BY <1>0, <3>1, PollAway
    <3>3. w.att = 0 /\ starts[t] = 1
      BY <1>0, <2>3 DEF StartsCounted, WaveCounts
    <3>4. runningTaskMap'[t].att = 0
      BY <1>3, <1>5, <1>8, <3>1, <3>3
    <3>5. workers'[<<"poll", t>>] = workers[<<"poll", t>>]
      BY <1>4, <2>1, <2>3, Kinds
    <3> QED
      BY <2>3, <3>2, <3>3, <3>4, <3>5 DEF PollCounts
  <2>4. CASE u = t /\ g \in PollIds
    <3>1. g = <<"poll", t>> /\ t \in Running
      BY <1>0, <2>4, PollOf, Kinds DEF Core, WorkerShape, PollHolds
    <3>2. /\ starts[t] > 0 /\ starts[t] = runningTaskMap[t].att + 2
          /\ w.att = runningTaskMap[t].att + 1
      BY <1>0, <3>1 DEF StartsCounted, PollCounts
    <3>3. v.pc = "restore" /\ v.att = w.att /\ runningTaskMap'[t].att = runningTaskMap[t].att
      BY <1>2, <1>3, <1>5, <1>8, <3>1
    <3>4. PollCounts(v, starts[t], runningTaskMap'[t].att)
      BY <3>2, <3>3 DEF PollCounts
    <3> QED
      BY <1>4, <2>4, <3>1, <3>2, <3>4
  <2> QED
    BY <1>6, <2>2, <2>3, <2>4
<1>10. \A u \in Tasks : Fresh(u)' => Fresh(u)
  BY <1>1 DEF Fresh, Waits
<1> QED
  BY <1>1, <1>7, <1>9, <1>10, CountedFrame DEF StartsCounted

\* the second Store of a poll goroutine
LEMMA CountedRestore ==
  ASSUME TypeInv, Core, StartsCounted, NEW g \in WorkerIds, ToRunningStore(g)
  PROVE  StartsCounted'
<1> DEFINE w == workers[g]
           t == w.task
           e == [runningTaskMap[t] EXCEPT !.in = TRUE, !.att = w.att]
<1>0. w.pc = "restore" /\ w \in Worker /\ t \in Tasks /\ g \in PollIds
  BY Busy, Whose DEF ToRunningStore, At
<1>1. /\ runningTaskMap' = [runningTaskMap EXCEPT ![t] = e]
      /\ Become(g, Idle)
      /\ UNCHANGED <<starts, runningTask, runs, client, sched, waitingTasks, stopedTaskMap>>
  BY DEF ToRunningStore, Restore, loopVars, actuatorVars
<1>2. e.att = w.att
  BY <1>0, Types DEF Entry
<1> HIDE DEF e
<1>3. workers'[g] = Idle /\ \A h \in WorkerIds : h # g => workers'[h] = workers[h]
  BY <1>1, Types DEF Become
<1>4. /\ runningTaskMap'[t].att = w.att
      /\ \A u \in Tasks : u # t => runningTaskMap'[u] = runningTaskMap[u]
  BY <1>0, <1>1, <1>2, Types
<1>5. g = <<"poll", t>> /\ t \in Running
  BY <1>0, PollOf, Kinds DEF Core, WorkerShape, PollHolds
<1>6. starts[t] > 0 /\ starts[t] = runningTaskMap[t].att + 2 /\ w.att = runningTaskMap[t].att + 1
  BY <1>0, <1>5 DEF StartsCounted, PollCounts
<1>7. \A h \in WaveIds : workers'[h] = workers[h]
  BY <1>0, <1>3, Kinds
<1>8. ASSUME NEW u \in Running'
      PROVE  \/ /\ u \in Running /\ runningTaskMap'[u].att = runningTaskMap[u].att
                /\ workers'[<<"poll", u>>] = workers[<<"poll", u>>]
             \/ /\ starts[u] > 0
                /\ PollCounts(workers'[<<"poll", u>>], starts[u], runningTaskMap'[u].att)
  <2>1. u \in Tasks /\ <<"poll", u>> \in WorkerIds
    BY Kinds DEF Running
  <2>2. CASE u # t
    BY <1>3, <1>4, <1>5, <2>1, <2>2 DEF Running
  <2>3. CASE u = t
    <3>1. starts[t] = w.att + 1
      BY <1>0, <1>6, Types
    <3>2. PollCounts(Idle, starts[t], w.att)
      BY <3>1 DEF PollCounts, Idle
    <3> QED
      BY <1>3, <1>4, <1>5, <1>6, <2>3, <3>2
  <2> QED
    BY <2>2, <2>3
<1>9. \A u \in Tasks : Fresh(u)' => Fresh(u)
  BY <1>1 DEF Fresh, Waits
<1> QED
  BY <1>1, <1>7, <1>8, <1>9, CountedFrame DEF StartsCounted

\* a task leaves the running map
LEMMA CountedLeave ==
  ASSUME TypeInv, Core, StartsCounted, NEW g \in WorkerIds, LeaveRunning(g)
  PROVE  StartsCounted'
<1> DEFINE w == workers[g]
           t == w.task
<1>0. w.pc = "remove" /\ w \in Worker /\ t \in Tasks
  BY Busy DEF LeaveRunning, At
<1>1. /\ runningTaskMap' = [runningTaskMap EXCEPT ![t] = Absent]
      /\ UNCHANGED <<starts, runningTask, runs, client, sched, waitingTasks, stopedTaskMap>>
  BY DEF LeaveRunning, LoadAndDelete, loopVars, actuatorVars
<1>2. PICK v \in {Left(w), [w EXCEPT !.pc = "dec"]} : Become(g, v)
  BY DEF LeaveRunning
<1>3. v.pc \in {"dec", "finish", "spawn"}
  BY <1>0, LeftForm DEF Worker
<1>4. workers'[g] = v /\ \A h \in WorkerIds : h # g => workers'[h] = workers[h]
  BY <1>2, Types DEF Become
<1>5. \A h \in WaveIds : workers'[h] = workers[h] \/ WaveCounts(workers'[h], starts[workers'[h].task])
  BY <1>3, <1>4, Kinds DEF WaveCounts
<1>6. ASSUME NEW u \in Running'
      PROVE  \/ /\ u \in Running /\ runningTaskMap'[u].att = runningTaskMap[u].att
                /\ workers'[<<"poll", u>>] = workers[<<"poll", u>>]
             \/ /\ starts[u] > 0
                /\ PollCounts(workers'[<<"poll", u>>], starts[u], runningTaskMap'[u].att)
  <2>1. u \in Tasks /\ <<"poll", u>> \in WorkerIds /\ <<"poll", u>> \in PollIds
    BY Kinds DEF Running
  <2>2. u # t /\ runningTaskMap'[u] = runningTaskMap[u] /\ u \in Running
    BY <1>0, <1>1, <2>1, Types DEF Running, Absent
  <2>3. g # <<"poll", u>>
    BY <1>0, <2>1, <2>2, PollOf
  <2> QED
    BY <1>4, <2>1, <2>2, <2>3
<1>7. \A u \in Tasks : Fresh(u)' => Fresh(u)
  BY <1>1 DEF Fresh, Waits
<1> QED
  BY <1>1, <1>5, <1>6, <1>7, CountedFrame DEF StartsCounted

LEMMA CountedWorker ==
  ASSUME TypeInv, Core, StartsCounted, NEW g \in WorkerIds, WorkerStep(g)
  PROVE  StartsCounted'
<1> DEFINE w == workers[g]
<1>0. w.pc # "idle"
  BY DEF WorkerStep, StartCheck, StartLaunch, LimitCheck, ToRunning, ToRunningCount,
         ToRunningStore, LeaveRunning, LeaveRunningCount, Finish, StopActuator,
         SpawnExport, FetchOutput, ClearOutput, Persist, At
<1>1. w \in Worker /\ w.task \in Tasks
  BY <1>0, Busy
<1>2. \A t \in Running : g = <<"poll", t>> => t \in Tasks /\ g \in PollIds /\ w.task = t
  BY <1>0, PollOf, Kinds DEF Running
<1>3. CASE StartCheck(g)
  <2> DEFINE c == [w EXCEPT !.pc = "launch"]
             l == Leaving(w, "failed")
  <2>1. /\ Become(g, c) \/ Become(g, l)
        /\ UNCHANGED <<starts, client, sched, waitingTasks, stopedTaskMap, runningTaskMap, runs,
                       runningTask>>
    BY <1>3 DEF StartCheck, containerVars, actuatorVars, loopVars
  <2>2. c.pc = "launch" /\ c.task = w.task /\ c.att = w.att /\ w.pc = "start"
    BY <1>1, <1>3 DEF Worker, StartCheck, At
  <2>3. l.pc = "remove"
    BY <1>1, OutcomeForms
  <2> HIDE DEF c, l
  <2>4. CASE Become(g, c)
    <3>1. g \in WaveIds => WaveCounts(c, starts[c.task])
      BY <2>2 DEF StartsCounted, WaveCounts
    <3>2. \A t \in Running : g = <<"poll", t>> => PollCounts(c, starts[t], runningTaskMap[t].att)
      BY <2>2 DEF StartsCounted, PollCounts
    <3> QED
      BY <2>1, <2>4, <3>1, <3>2, CountedOne
  <2>5. CASE Become(g, l)
    BY <2>1, <2>3, <2>5, CountedAway
  <2> QED
    BY <2>1, <2>4, <2>5
<1>4. CASE LimitCheck(g)
  <2>1. PICK pc \in {"stop", "store"} : Goto(g, pc)
    BY <1>4 DEF LimitCheck
  <2> DEFINE c == [w EXCEPT !.pc = pc]
  <2>2. /\ c.pc = pc /\ c.task = w.task /\ c.att = w.att /\ w.pc = "limit"
        /\ Become(g, c)
        /\ UNCHANGED <<starts, client, sched, waitingTasks, stopedTaskMap, runningTaskMap, runs,
                       runningTask>>
    BY <1>1, <1>4, <2>1 DEF Worker, LimitCheck, At, Goto, containerVars, actuatorVars, loopVars
  <2> HIDE DEF c
  <2>3. g \in WaveIds => WaveCounts(c, starts[c.task])
    BY <2>2 DEF StartsCounted, WaveCounts
  <2>4. \A t \in Running : g # <<"poll", t>>
    BY <1>2, <2>2, Whose, Kinds
  <2> QED
    BY <2>2, <2>3, <2>4, CountedOne
<1>5. CASE ToRunningCount(g)
  <2>1. /\ Become(g, Idle) /\ Idle.pc = "idle" /\ w.pc = "inc"
        /\ UNCHANGED <<starts, client, sched, waitingTasks, stopedTaskMap, runningTaskMap, runs,
                       runningTask>>
    BY <1>5, WorkerForms DEF ToRunningCount, AddCount, At, actuatorVars, loopVars
  <2>2. \A t \in Running : g # <<"poll", t>>
    BY <1>2, <2>1, Whose, Kinds
  <2> QED
    BY <2>1, <2>2, CountedAway
<1>6. CASE LeaveRunningCount(g)
  <2>1. /\ Become(g, Left(w)) /\ w.pc = "dec"
        /\ UNCHANGED <<starts, client, sched, waitingTasks, stopedTaskMap, runningTaskMap, runs,
                       runningTask>>
    BY <1>6 DEF LeaveRunningCount, AddCount, At, actuatorVars, loopVars
  <2>2. Left(w).pc \in {"spawn", "finish"}
    BY <1>1, LeftForm
  <2>3. \A t \in Running : g # <<"poll", t>>
    BY <1>2, <2>1, EndsApart DEF PollEnds
  <2> QED
    BY <2>1, <2>2, <2>3, CountedAway
<1>7. CASE Finish(g)
  <2> DEFINE v == IF w.after = "timeout" THEN [w EXCEPT !.pc = "stop"] ELSE Idle
  <2>1. /\ Become(g, v) /\ w.pc = "finish"
        /\ UNCHANGED <<starts, client, sched, waitingTasks, stopedTaskMap, runningTaskMap, runs,
                       runningTask>>
    BY <1>7 DEF Finish, At, containerVars, actuatorVars
  <2>2. v.pc \in {"stop", "idle"}
    BY <1>1, WorkerForms DEF Worker
  <2>3. \A t \in Running : g # <<"poll", t>>
    BY <1>2, <2>1, EndsApart DEF PollEnds
  <2> HIDE DEF v
  <2> QED
    BY <2>1, <2>2, <2>3, CountedAway
<1>8. CASE StopActuator(g)
  <2>1. /\ Become(g, Idle) /\ Idle.pc = "idle" /\ w.pc = "stop"
        /\ runningTask' = [runningTask EXCEPT ![w.task] = "none"]
        /\ UNCHANGED <<starts, client, sched, waitingTasks, stopedTaskMap, runningTaskMap, runs>>
    BY <1>8, WorkerForms DEF StopActuator, Clear, At, containerVars, loopVars
  <2>2. \A t \in Tasks : runningTask'[t] # "none" => runningTask[t] # "none"
    BY <1>1, <2>1, Types
  <2> QED
    BY <2>1, <2>2, CountedAway
<1>9. CASE SpawnExport(g)
  <2>1. PICK i \in 1..ExportWorkers :
          workers' = [workers EXCEPT ![g] = Idle, ![<<"export", i>>] = Holding("output", w.task, w.att)]
    BY <1>9 DEF SpawnExport
  <2>2. /\ w.pc = "spawn"
        /\ UNCHANGED <<starts, client, sched, waitingTasks, stopedTaskMap, runningTaskMap, runs,
                       runningTask>>
    BY <1>9 DEF SpawnExport, At, containerVars, actuatorVars, loopVars
  <2>3. \A h \in WorkerIds : h # g /\ h \notin ExportIds => workers'[h] = workers[h]
    BY <2>1, Types, Kinds
  <2>4. g \notin ExportIds => workers'[g] = Idle
    BY <2>1, Types, Kinds
  <2>5. \A h \in WaveIds : workers'[h] = workers[h] \/ WaveCounts(workers'[h], starts[workers'[h].task])
    <3>1. \A s : WaveCounts(Idle, s)
      BY DEF WaveCounts, Idle
    <3> QED
      BY <2>3, <2>4, <3>1, Kinds
  <2>6. ASSUME NEW u \in Running'
        PROVE  /\ u \in Running /\ runningTaskMap'[u].att = runningTaskMap[u].att
               /\ workers'[<<"poll", u>>] = workers[<<"poll", u>>]
    <3>1. u \in Running /\ u \in Tasks
      BY <2>2 DEF Running
    <3>2. g # <<"poll", u>>
      BY <1>2, <2>2, <3>1, EndsApart DEF PollEnds
    <3> QED
      BY <2>2, <2>3, <3>1, <3>2, Kinds
  <2>7. \A u \in Tasks : Fresh(u)' => Fresh(u)
    BY <2>2 DEF Fresh, Waits
  <2> QED
    BY <2>2, <2>5, <2>6, <2>7, CountedFrame DEF StartsCounted
<1>10. CASE FetchOutput(g) \/ ClearOutput(g) \/ Persist(g)
  <2>1. w.pc \in {"output", "clear", "persist"}
    BY <1>10 DEF FetchOutput, ClearOutput, Persist, At
  <2>2. \E v \in {[w EXCEPT !.pc = "clear"], [w EXCEPT !.pc = "persist"],
                  Leaving(w, "failed"), Leaving(w, "success")} : Become(g, v)
    BY <1>10 DEF FetchOutput, ClearOutput, Persist, Goto
  <2>3. \E v : Become(g, v) /\ v.pc \in {"clear", "persist", "remove"}
    <3>1. [w EXCEPT !.pc = "clear"].pc = "clear" /\ [w EXCEPT !.pc = "persist"].pc = "persist"
      BY <1>1 DEF Worker
    <3>2. Leaving(w, "failed").pc = "remove" /\ Leaving(w, "success").pc = "remove"
      BY <1>1, OutcomeForms
    <3> QED
      BY <2>2, <3>1, <3>2
  <2>4. UNCHANGED <<starts, client, sched, waitingTasks, stopedTaskMap, runningTaskMap, runs>>
    BY <1>10 DEF FetchOutput, ClearOutput, Persist, Clear, containerVars, actuatorVars, loopVars
  <2>5. \A t \in Tasks : runningTask'[t] # "none" => runningTask[t] # "none"
    <3>1. runningTask' = runningTask \/ runningTask' = [runningTask EXCEPT ![w.task] = "none"]
      BY <1>10 DEF FetchOutput, ClearOutput, Persist, Clear, actuatorVars
    <3> QED
      BY <1>1, <3>1, Types
  <2>6. \A t \in Running : g # <<"poll", t>>
    BY <1>2, <2>1, Whose, Kinds
  <2> QED
    BY <2>3, <2>4, <2>5, <2>6, CountedAway
<1> QED
  BY <1>3, <1>4, <1>5, <1>6, <1>7, <1>8, <1>9, <1>10, CountedLaunch, CountedStore,
     CountedRestore, CountedLeave DEF WorkerStep

\* the steps of the polling loop, for a task t of the running map
LEMMA CountedPoll ==
  ASSUME TypeInv, Core, StartsCounted, PollStep
  PROVE  StartsCounted'
<1>0. UNCHANGED <<starts, client, sched, waitingTasks, stopedTaskMap, runningTaskMap, runs>>
  BY DEF PollStep, PollSnapshot, PollLaunch, PollQuery, PollForget, Forget,
         containerVars, actuatorVars, loopVars
<1>1. \A u \in Tasks : Fresh(u)' => Fresh(u)
  BY <1>0 DEF Fresh, Waits
<1>2. Running' = Running /\ Running \subseteq Tasks
  BY <1>0 DEF Running
<1>3. ASSUME UNCHANGED runningTask, \A g \in WaveIds : workers'[g] = workers[g],
             \A t \in Running :
               \/ workers'[<<"poll", t>>] = workers[<<"poll", t>>]
               \/ PollCounts(workers'[<<"poll", t>>], starts[t], runningTaskMap[t].att)
      PROVE  StartsCounted'
  <2>1. \A t \in Running' :
          \/ /\ t \in Running /\ runningTaskMap'[t].att = runningTaskMap[t].att
             /\ workers'[<<"poll", t>>] = workers[<<"poll", t>>]
          \/ /\ starts[t] > 0
             /\ PollCounts(workers'[<<"poll", t>>], starts[t], runningTaskMap'[t].att)
    BY <1>0, <1>2, <1>3 DEF StartsCounted
  <2> QED
    BY <1>0, <1>1, <1>3, <2>1, CountedFrame DEF StartsCounted
<1>4. CASE PollSnapshot
  <2>1. UNCHANGED runningTask
    BY <1>4 DEF PollSnapshot, actuatorVars
  <2>2. \A g \in WaveIds : workers'[g] = workers[g]
    BY <1>4, Kinds DEF PollSnapshot
  <2>3. ASSUME NEW t \in Running
        PROVE  PollCounts(workers'[<<"poll", t>>], starts[t], runningTaskMap[t].att)
    <3>1. t \in Tasks /\ <<"poll", t>> \in PollIds /\ <<"poll", t>> \in WorkerIds
      BY Kinds DEF Running
    <3>2. workers[<<"poll", t>>].pc = "idle"
      BY <1>4, <3>1 DEF PollSnapshot, Active
    <3>3. starts[t] = runningTaskMap[t].att + 1
      BY <3>2 DEF StartsCounted, PollCounts
    <3> DEFINE h == Holding("query", t, runningTaskMap[t].att)
    <3>4. workers'[<<"poll", t>>] = [h EXCEPT !.late = runningTaskMap[t].late]
      BY <1>4, <3>1 DEF PollSnapshot
    <3>5. h \in Worker /\ h.pc = "query" /\ h.att = runningTaskMap[t].att
      <4>1. "query" \in WorkerPC
        BY DEF WorkerPC
      <4> QED
        BY <3>1, <4>1, WorkerForms, Types
    <3> HIDE DEF h
    <3>6. workers'[<<"poll", t>>].pc = "query" /\ workers'[<<"poll", t>>].att = runningTaskMap[t].att
      BY <3>4, <3>5 DEF Worker
    <3> QED
      BY <3>3, <3>6 DEF PollCounts
  <2> QED
    BY <1>3, <2>1, <2>2, <2>3
<1>5. CASE PollLaunch
  <2>1. UNCHANGED runningTask
    BY <1>5 DEF PollLaunch, actuatorVars
  <2>2. PICK expired \in SUBSET (IF TaskTimeoutOn THEN Tasks ELSE {}) :
          workers' = [g \in WorkerIds |->
                        IF g \in Active(PollIds)
                        THEN PollBody(workers[g], workers[g].task \in expired)
                        ELSE workers[g]]
    BY <1>5 DEF PollLaunch
  <2>3. \A g \in WaveIds : workers'[g] = workers[g]
    BY <2>2, Kinds DEF Active
  <2>4. ASSUME NEW t \in Running
        PROVE  \/ workers'[<<"poll", t>>] = workers[<<"poll", t>>]
               \/ PollCounts(workers'[<<"poll", t>>], starts[t], runningTaskMap[t].att)
    <3> DEFINE g == <<"poll", t>>
               w == workers[g]
    <3>1. t \in Tasks /\ g \in PollIds /\ g \in WorkerIds
      BY Kinds DEF Running
    <3>2. CASE g \in Active(PollIds)
      <4>1. w.pc = "ready" /\ w \in Worker /\ w.task \in Tasks
        BY <1>5, <3>1, <3>2, Busy DEF PollLaunch, At
      <4>2. starts[t] = w.att + 1 /\ w.att = runningTaskMap[t].att
        BY <4>1 DEF StartsCounted, PollCounts
      <4>3. workers'[g] = PollBody(w, w.task \in expired)
        BY <2>2, <3>1, <3>2
      <4>4. workers'[g] \in {Idle, Retry(w), Export(w), Leaving(w, "timeout")}
        BY <4>3 DEF PollBody
      <4>5. PollCounts(Idle, starts[t], runningTaskMap[t].att)
        BY <4>2 DEF PollCounts, Idle
      <4>6. \A v : v.pc = "remove" => PollCounts(v, starts[t], runningTaskMap[t].att)
        BY DEF PollCounts
      <4>7. PollCounts(Retry(w), starts[t], runningTaskMap[t].att)
        <5>1. CASE w.att < MaxFailedAttempts
          <6> DEFINE h == Holding("start", w.task, w.att + 1)
          <6>1. Retry(w) = h
            BY <5>1 DEF Retry
          <6>2. h.pc = "start" /\ h.att = w.att + 1
            BY DEF Holding, Idle
          <6> HIDE DEF h, w
          <6> QED
            BY <4>2, <6>1, <6>2 DEF PollCounts
        <5>2. CASE ~(w.att < MaxFailedAttempts)
          BY <4>1, <4>6, <5>2, OutcomeForms DEF Retry
        <5> QED
          BY <5>1, <5>2
      <4>8. PollCounts(Export(w), starts[t], runningTaskMap[t].att)
        BY <4>1, <4>6, OutcomeForms
      <4>9. PollCounts(Leaving(w, "timeout"), starts[t], runningTaskMap[t].att)
        BY <4>1, <4>6, OutcomeForms
      <4> QED
        BY <4>4, <4>5, <4>7, <4>8, <4>9
    <3>3. CASE g \notin Active(PollIds)
      BY <2>2, <3>1, <3>3
    <3> QED
      BY <3>2, <3>3
  <2> QED
    BY <1>3, <2>1, <2>3, <2>4
<1>6. ASSUME NEW g \in PollIds, PollQuery(g) \/ PollForget(g) PROVE StartsCounted'
  <2> DEFINE w == workers[g]
  <2>1. w.pc \in {"query", "forget"} /\ g \in WorkerIds
    BY <1>6, Kinds DEF PollQuery, PollForget, At
  <2>2. w \in Worker /\ w.task \in Tasks
    BY <2>1, Busy
  <2>3. PICK v : Become(g, v) /\ v.pc \in {"forget", "ready"} /\ v.att = w.att
    <3>1. CASE PollQuery(g)
      <4> DEFINE v == [w EXCEPT !.st = AsyncStatus(w.task),
                         !.pc = IF runningTask[w.task] \in {"success", "failed"} THEN "forget" ELSE "ready"]
      <4>1. Become(g, v)
        BY <3>1 DEF PollQuery
      <4>2. v.pc \in {"forget", "ready"} /\ v.att = w.att
        BY <2>2 DEF Worker
      <4> HIDE DEF v
      <4> QED
        BY <4>1, <4>2
    <3>2. CASE PollForget(g)
      <4> DEFINE v == [w EXCEPT !.pc = "ready"]
      <4>1. Become(g, v)
        BY <3>2 DEF PollForget, Goto
      <4>2. v.pc = "ready" /\ v.att = w.att
        BY <2>2 DEF Worker
      <4> HIDE DEF v
      <4> QED
        BY <4>1, <4>2
    <3> QED
      BY <1>6, <3>1, <3>2
  <2>4. \A t \in Running : g = <<"poll", t>> => PollCounts(v, starts[t], runningTaskMap[t].att)
    BY <2>1, <2>3 DEF StartsCounted, PollCounts
  <2>5. \A t \in Tasks : runningTask'[t] # "none" => runningTask[t] # "none"
    <3>1. runningTask' = runningTask \/ runningTask' = [runningTask EXCEPT ![w.task] = "none"]
      BY <1>6 DEF PollQuery, PollForget, Forget, actuatorVars
    <3> QED
      BY <2>2, <3>1, Types
  <2>6. g \notin WaveIds
    BY Kinds
  <2> QED
    BY <1>0, <2>1, <2>3, <2>4, <2>5, <2>6, CountedOne
<1> QED
  BY <1>4, <1>5, <1>6 DEF PollStep

LEMMA CountedSched ==
  ASSUME TypeInv, Core, StartsCounted, SchedStep
  PROVE  StartsCounted'
<1>0. /\ UNCHANGED <<starts, client, runningTaskMap, runs, runningTask>>
      /\ stopedTaskMap' = {}
  BY DEF SchedStep, SchedCount, SchedPop, SchedMark, SchedLaunch, SchedDone, Pop, TakeStopMark,
         containerVars, actuatorVars, StartsCounted
<1>1. /\ Running' = Running
      /\ \A t \in Tasks : runningTask'[t] # "none" => starts[t] > 0
      /\ \A r \in runs' : starts[r.task] > 0
  BY <1>0 DEF Running, StartsCounted
<1>2. ASSUME \A t \in Tasks : Fresh(t)' => Fresh(t),
             \A g \in WaveIds : workers'[g] = workers[g]
                                \/ WaveCounts(workers'[g], starts[workers'[g].task]),
             \A g \in PollIds : workers'[g] = workers[g]
      PROVE  StartsCounted'
  <2>1. \A t \in Running' : /\ t \in Running /\ runningTaskMap'[t].att = runningTaskMap[t].att
                            /\ workers'[<<"poll", t>>] = workers[<<"poll", t>>]
    BY <1>0, <1>1, <1>2, Kinds DEF Running
  <2> QED
    BY <1>0, <1>1, <1>2, <2>1, CountedFrame
<1>3. CASE SchedCount \/ SchedDone
  <2>1. /\ UNCHANGED <<waitingTasks, workers>> /\ sched'.task = sched.task
    BY <1>3, Types DEF SchedCount, SchedDone, containerVars, Sched
  <2>2. \A t \in Tasks : Fresh(t)' => Fresh(t)
    BY <1>0, <2>1 DEF Fresh, Waits
  <2> QED
    BY <1>2, <2>1, <2>2
<1>4. CASE SchedPop
  <2>1. /\ waitingTasks # <<>> /\ waitingTasks' = Tail(waitingTasks)
        /\ sched'.task = Head(waitingTasks) /\ UNCHANGED workers
    BY <1>4 DEF SchedPop, Pop
  <2>2. /\ Len(waitingTasks') = Len(waitingTasks) - 1 /\ Len(waitingTasks) \in Nat \ {0}
        /\ \A i \in 1..Len(waitingTasks') : waitingTasks'[i] = waitingTasks[i + 1]
        /\ Head(waitingTasks) = waitingTasks[1]
    BY <2>1, Types, HeadTailProperties
  <2>3. \A t \in Tasks : Waits(t)' \/ sched'.task = t => Waits(t)
    <3>1. \A i \in 1..Len(waitingTasks') : i + 1 \in 1..Len(waitingTasks)
      BY <2>2
    <3>2. 1 \in 1..Len(waitingTasks)
      BY <2>2
    <3> QED
      BY <2>1, <2>2, <3>1, <3>2 DEF Waits
  <2>4. \A t \in Tasks : Fresh(t)' => Fresh(t)
    BY <1>0, <2>3 DEF Fresh
  <2> QED
    BY <1>2, <2>1, <2>4
<1>5. CASE SchedMark
  <2> DEFINE t == sched.task
             h == Holding("ready", t, 0)
  <2>1. t \in Tasks /\ t \notin stopedTaskMap
    BY <1>5 DEF SchedMark, TypeInv, TypeOK, SchedulerTypeOK, BusyOK, Sched, StartsCounted
  <2>2. PICK i \in 1..MaxWave : Become(<<"sched", i>>, h)
    BY <1>5, <2>1 DEF SchedMark
  <2>3. UNCHANGED waitingTasks /\ sched'.task = NoTask /\ NoTask \notin Tasks
    BY <1>5, Types, SchedulerAssumption DEF SchedMark, TakeStopMark, Sched
  <2>4. \A u \in Tasks : Fresh(u)' => Fresh(u)
    BY <1>0, <2>3 DEF Fresh, Waits
  <2>5. h.pc = "ready" /\ h.task = t /\ h.att = 0
    BY DEF Holding, Idle
  <2>6. starts[t] = 0
    BY <2>1 DEF StartsCounted, Fresh
  <2> HIDE DEF h
  <2>7. WaveCounts(h, starts[h.task])
    BY <2>5, <2>6 DEF WaveCounts
  <2>8. \A g \in WorkerIds : workers'[g] = workers[g] \/ (g \in WaveIds /\ workers'[g] = h)
    BY <2>2, Types, Kinds DEF Become
  <2> QED
    BY <1>2, <2>4, <2>7, <2>8, Kinds
<1>6. CASE SchedLaunch
  <2>1. /\ UNCHANGED waitingTasks /\ sched'.task = sched.task /\ sched.pc = "pop"
    BY <1>6, Types DEF SchedLaunch, containerVars, Sched
  <2>2. \A t \in Tasks : Fresh(t)' => Fresh(t)
    BY <1>0, <2>1 DEF Fresh, Waits
  <2>3. \A g \in PollIds : workers'[g] = workers[g]
    BY <1>6, Kinds DEF SchedLaunch, Active
  <2>4. ASSUME NEW g \in WaveIds
        PROVE  workers'[g] = workers[g] \/ WaveCounts(workers'[g], starts[workers'[g].task])
    <3>1. CASE g \in Active(WaveIds)
      <4> DEFINE v == [workers[g] EXCEPT !.pc = "start"]
      <4>1. workers'[g] = v
        BY <1>6, <3>1, Kinds DEF SchedLaunch
      <4>2. workers[g].pc = "ready" /\ workers[g] \in Worker
        BY <2>1, <3>1, Types, Kinds DEF Core, SchedShape, Active
      <4>3. v.pc = "start" /\ v.task = workers[g].task /\ v.att = workers[g].att
        BY <4>2 DEF Worker
      <4> HIDE DEF v
      <4>4. WaveCounts(v, starts[v.task])
        BY <4>2, <4>3 DEF StartsCounted, WaveCounts
      <4> QED
        BY <4>1, <4>4
    <3>2. CASE g \notin Active(WaveIds)
      BY <1>6, <3>2, Kinds DEF SchedLaunch
    <3> QED
      BY <3>1, <3>2
  <2> QED
    BY <1>2, <2>2, <2>3, <2>4
<1> QED
  BY <1>3, <1>4, <1>5, <1>6 DEF SchedStep

\* a client adds a task: in poll mode without stops it does nothing else
LEMMA CountedClient ==
  ASSUME PollMode, TypeInv, Core, StartsCounted, NEW t \in Tasks, ClientStep(t)
  PROVE  StartsCounted'
<1>0. client[t].pc \in {"out", "push", "active"} /\ client[t].stops = 0 /\ MaxStops = 0
  BY DEF Core, ClientShape, PollMode
<1>1. AddTaskMark(t) \/ AddTaskPush(t) \/ AddTaskTimeout(t)
  BY <1>0 DEF ClientStep, StopTaskMap, StopTaskDec, StopTaskActuator
<1>2. /\ UNCHANGED <<starts, sched, workers, runningTaskMap, runs, runningTask>>
      /\ stopedTaskMap' = {}
  BY <1>1 DEF AddTaskMark, AddTaskPush, AddTaskTimeout, TakeStopMark, Push,
              containerVars, actuatorVars, StartsCounted
<1>3. /\ client[t].pc # "active"
      /\ \A u \in Tasks : u # t => client'[u] = client[u]
  BY <1>1, Types DEF AddTaskMark, AddTaskPush, AddTaskTimeout, ClientAt
<1>4. ASSUME NEW u \in Tasks, u # t PROVE Waits(u)' => Waits(u)
  <2>1. CASE UNCHANGED waitingTasks
    BY <2>1 DEF Waits
  <2>2. CASE waitingTasks' = Append(waitingTasks, t)
    <3>1. /\ Len(waitingTasks') = Len(waitingTasks) + 1 /\ Len(waitingTasks) \in Nat
          /\ \A i \in 1..Len(waitingTasks) : waitingTasks'[i] = waitingTasks[i]
          /\ waitingTasks'[Len(waitingTasks) + 1] = t
      BY <2>2, Types, AppendProperties
    <3>2. \A i \in 1..Len(waitingTasks') : i \in 1..Len(waitingTasks) \/ i = Len(waitingTasks) + 1
      BY <3>1
    <3> QED
      BY <1>4, <3>1, <3>2 DEF Waits
  <2> QED
    BY <1>1, <2>1, <2>2 DEF AddTaskMark, AddTaskPush, AddTaskTimeout, TakeStopMark, Push, containerVars
<1>5. \A u \in Tasks : Fresh(u)' => Fresh(u)
  BY <1>2, <1>3, <1>4 DEF Fresh
<1>6. \A u \in Running' : /\ u \in Running /\ runningTaskMap'[u].att = runningTaskMap[u].att
                          /\ workers'[<<"poll", u>>] = workers[<<"poll", u>>]
  BY <1>2 DEF Running
<1> QED
  BY <1>2, <1>5, <1>6, CountedFrame DEF StartsCounted

\* a function returns, or its end is made known
LEMMA CountedRun ==
  ASSUME TypeInv, StartsCounted, ActuatorStep
  PROVE  StartsCounted'
<1>0. /\ UNCHANGED <<starts, client, sched, workers, containerVars>>
  BY DEF ActuatorStep, RunStep, RunReturn, RunSave, RunPublish, RunCallback,
         schedulerVars, loopVars
<1>1. PICK r \in runs : RunStep(r)
  BY DEF ActuatorStep
<1>2. r \in Run /\ r.task \in Tasks /\ starts[r.task] > 0
  BY Types DEF Run, StartsCounted
<1>3. ASSUME NEW x \in runs' PROVE starts[x.task] > 0
  <2>1. \A pc \in {"publish", "callback"} : [r EXCEPT !.pc = pc].task = r.task
    BY <1>2 DEF Run
  <2>2. x \in runs \/ x.task = r.task
    <3>1. ASSUME NEW ok \in BOOLEAN, RunReturn(r, ok) PROVE x \in runs \/ x.task = r.task
      <4>1. \/ x \in runs
            \/ x = [r EXCEPT !.ok = ok, !.pc = "save"]
            \/ x = [r EXCEPT !.ok = ok, !.pc = "publish"]
        BY <3>1 DEF RunReturn, Move
      <4>2. /\ [r EXCEPT !.ok = ok, !.pc = "save"].task = r.task
            /\ [r EXCEPT !.ok = ok, !.pc = "publish"].task = r.task
        BY <1>2 DEF Run
      <4> QED
        BY <4>1, <4>2
    <3>2. CASE RunSave(r)
      BY <2>1, <3>2 DEF RunSave, Move
    <3>3. CASE RunPublish(r)
      BY <2>1, <3>3 DEF RunPublish, Move
    <3>4. CASE RunCallback(r)
      BY <3>4 DEF RunCallback
    <3> QED
      BY <1>1, <3>1, <3>2, <3>3, <3>4 DEF RunStep
  <2> QED
    BY <1>2, <2>2 DEF StartsCounted
<1>4. ASSUME NEW t \in Tasks, runningTask'[t] # "none" PROVE starts[t] > 0
  <2>1. t = r.task \/ runningTask'[t] = runningTask[t]
    BY <1>1, <1>2, Types DEF RunStep, RunReturn, RunSave, RunPublish, RunCallback
  <2> QED
    BY <1>2, <1>4, <2>1 DEF StartsCounted
<1>5. /\ \A t \in Tasks : Fresh(t)' => Fresh(t)
      /\ stopedTaskMap' = {}
  BY <1>0 DEF Fresh, Waits, containerVars, StartsCounted
<1>6. \A u \in Running' : /\ u \in Running /\ runningTaskMap'[u].att = runningTaskMap[u].att
                          /\ workers'[<<"poll", u>>] = workers[<<"poll", u>>]
  BY <1>0 DEF Running, containerVars
<1> QED
  BY <1>0, <1>3, <1>4, <1>5, <1>6, CountedFrame

LEMMA CountedInit == Init => StartsCounted
<1> SUFFICES ASSUME Init PROVE StartsCounted
  OBVIOUS
<1>1. /\ stopedTaskMap = {} /\ runs = {} /\ Running = {}
      /\ \A t \in Tasks : starts[t] = 0 /\ runningTask[t] = "none"
      /\ \A g \in WaveIds : workers[g].pc = "idle"
  BY Kinds, WorkerForms DEF Init, ContainerInit, ActuatorInit, Running, Absent
<1>2. \A g \in WaveIds : WaveCounts(workers[g], starts[workers[g].task])
  BY <1>1 DEF WaveCounts
<1>3. MaxFailedAttempts \in Nat
  BY TaskAssumption
<1> QED
  BY <1>1, <1>2, <1>3 DEF StartsCounted

LEMMA CountedStep == PollMode /\ PollInvariant /\ StartsCounted /\ [Next]_vars => StartsCounted'
<1> SUFFICES ASSUME PollMode, PollInvariant, StartsCounted, [Next]_vars PROVE StartsCounted'
  OBVIOUS
<1>0. TypeInv /\ Core /\ NoCallbacks
  BY PollParts
<1>1. ASSUME NEW t \in Tasks, Deadline(t) PROVE StartsCounted'
  <2>1. /\ UNCHANGED <<starts, client, sched, workers, runs, runningTask, waitingTasks, stopedTaskMap>>
        /\ runningTaskMap' = [runningTaskMap EXCEPT ![t].late = TRUE]
        /\ runningTaskMap[t].in
    BY <1>1 DEF Deadline, PassDeadline, schedulerVars, loopVars, actuatorVars
  <2>2. \A u \in Tasks : /\ runningTaskMap'[u].in = runningTaskMap[u].in
                         /\ runningTaskMap'[u].att = runningTaskMap[u].att
    BY <1>0, <2>1, Types DEF Entry
  <2>3. \A u \in Running' : /\ u \in Running /\ runningTaskMap'[u].att = runningTaskMap[u].att
                            /\ workers'[<<"poll", u>>] = workers[<<"poll", u>>]
    BY <2>1, <2>2 DEF Running
  <2>4. \A u \in Tasks : Fresh(u)' => Fresh(u)
    BY <2>1 DEF Fresh, Waits
  <2> QED
    BY <2>1, <2>3, <2>4, CountedFrame DEF StartsCounted
<1>2. CASE UNCHANGED vars
  <2>1. UNCHANGED <<starts, client, sched, workers, runs, runningTask, waitingTasks, stopedTaskMap,
                    runningTaskMap>>
    BY <1>2 DEF vars, containerVars, actuatorVars, schedulerVars, loopVars
  <2>2. \A u \in Running' : /\ u \in Running /\ runningTaskMap'[u].att = runningTaskMap[u].att
                            /\ workers'[<<"poll", u>>] = workers[<<"poll", u>>]
    BY <2>1 DEF Running
  <2>3. \A u \in Tasks : Fresh(u)' => Fresh(u)
    BY <2>1 DEF Fresh, Waits
  <2> QED
    BY <2>1, <2>2, <2>3, CountedFrame DEF StartsCounted
<1>3. CASE CallbackStep
  <2>1. UNCHANGED <<starts, client, sched, workers, runs, runningTask, waitingTasks, stopedTaskMap,
                    runningTaskMap>>
    BY <1>0, <1>3 DEF CallbackStep, CallbackDrop, CallbackHandle, ProcessedExpire, NoCallbacks,
                      containerVars, actuatorVars
  <2>2. \A u \in Running' : /\ u \in Running /\ runningTaskMap'[u].att = runningTaskMap[u].att
                            /\ workers'[<<"poll", u>>] = workers[<<"poll", u>>]
    BY <2>1 DEF Running
  <2>3. \A u \in Tasks : Fresh(u)' => Fresh(u)
    BY <2>1 DEF Fresh, Waits
  <2> QED
    BY <2>1, <2>2, <2>3, CountedFrame DEF StartsCounted
<1> QED
  BY <1>0, <1>1, <1>2, <1>3, CountedClient, CountedSched, CountedPoll, CountedWorker, CountedRun DEF Next

LEMMA CountedHolds ==
  ASSUME PollMode
  PROVE  Safety => [](PollInvariant /\ StartsCounted)
<1>1. Init => PollInvariant /\ StartsCounted
  BY PollInit, CountedInit
<1>2. PollInvariant /\ StartsCounted /\ [Next]_vars => (PollInvariant /\ StartsCounted)'
  BY PollStepKeeps, CountedStep
<1> QED
  BY <1>1, <1>2, PTL DEF Safety

LEMMA BoundFollows == PollInvariant /\ StartsCounted => AttemptsBound
<1> SUFFICES ASSUME PollInvariant, StartsCounted, NEW t \in Tasks
             PROVE  starts[t] <= (1 + MaxFailedAttempts) * Adds(t)
  BY DEF AttemptsBound
<1>0. TypeInv /\ Core
  BY PollParts
<1>1. client[t].stops = 0 /\ MaxFailedAttempts \in Nat
  BY <1>0, TaskAssumption DEF Core, ClientShape
<1>2. CASE client[t].pc = "active"
  <2>1. Adds(t) = 1
    BY <1>1, <1>2 DEF Adds
  <2>2. starts[t] <= 1 + MaxFailedAttempts
    BY DEF StartsCounted
  <2> QED
    BY <1>1, <2>1, <2>2
<1>3. CASE client[t].pc # "active"
  <2>1. Adds(t) = 0
    BY <1>1, <1>3 DEF Adds
  <2>2. starts[t] = 0
    BY <1>3 DEF StartsCounted, Fresh
  <2> QED
    BY <1>1, <2>1, <2>2
<1> QED
  BY <1>2, <1>3

\* In poll mode without stops, for every MaxFailedAttempts: a function is
\* started at most 1 + MaxFailedAttempts times for an AddTask, although the
\* goroutine that retries works with a copy of TaskAttemptsTime.
THEOREM AttemptsAreBounded ==
  ASSUME PollMode
  PROVE  Safety => []AttemptsBound
BY CountedHolds, BoundFollows, PTL

-----------------------------------------------------------------------------
(* RunsHoldSlots: poll mode without timeout.                               *)

\* a step that neither starts a function nor touches the cached status
LEMMA SlotsFrame ==
  ASSUME RunsHoldSlots, UNCHANGED <<runs, runningTask>>,
         \A g \in WorkerIds : \/ workers'[g] = workers[g]
                              \/ workers'[g].pc # "stop" /\ workers'[g].after # "timeout",
         \A r \in runs : r.task \in Running' \/ Launched(r.task)' # {},
         \A t \in Running' : \/ t \in Running /\ workers'[<<"poll", t>>] = workers[<<"poll", t>>]
                             \/ PollSees(workers'[<<"poll", t>>], runningTask[t]),
         \A g \in WaveIds : workers'[g].pc \in {"limit", "store"} =>
                              \/ workers'[g] = workers[g]
                              \/ runningTask[workers'[g].task] # "none"
  PROVE  RunsHoldSlots'
<1>1. \A g \in WorkerIds : workers'[g].pc # "stop" /\ workers'[g].after # "timeout"
  BY DEF RunsHoldSlots
<1>2. /\ \A r \in runs' : runningTask'[r.task] = "running"
      /\ \A r, s \in runs' : r.task = s.task => r = s
  BY DEF RunsHoldSlots
<1>3. \A t \in Running' : PollSees(workers'[<<"poll", t>>], runningTask'[t])
  BY DEF RunsHoldSlots
<1>4. \A g \in WaveIds : workers'[g].pc \in {"limit", "store"} => runningTask'[workers'[g].task] # "none"
  BY DEF RunsHoldSlots
<1> QED
  BY <1>1, <1>2, <1>3, <1>4 DEF RunsHoldSlots

\* a step of one goroutine that leaves the running map as it is
LEMMA SlotsOne ==
  ASSUME TypeInv, RunsHoldSlots, UNCHANGED <<runs, runningTask>>, Running' = Running,
         NEW g \in WorkerIds, NEW w, Become(g, w), w.pc # "stop", w.after # "timeout",
         g \in WaveIds /\ w.pc \in {"limit", "store"} => workers[g].pc \in {"limit", "store"},
         g \in WaveIds /\ workers[g].pc \in {"limit", "store"} =>
           w.pc \in {"limit", "store"} /\ w.task = workers[g].task,
         \A t \in Running : g = <<"poll", t>> => PollSees(w, runningTask[t])
  PROVE  RunsHoldSlots'
<1>1. workers'[g] = w /\ \A h \in WorkerIds : h # g => workers'[h] = workers[h]
  BY Types DEF Become
<1>2. \A t : Launched(t)' = Launched(t)
  BY <1>1, Kinds DEF Launched
<1>3. \A r \in runs : r.task \in Running' \/ Launched(r.task)' # {}
  BY <1>2 DEF RunsHoldSlots
<1>4. \A t \in Running' : \/ t \in Running /\ workers'[<<"poll", t>>] = workers[<<"poll", t>>]
                          \/ PollSees(workers'[<<"poll", t>>], runningTask[t])
  BY <1>1, Kinds DEF Running
<1>5. \A h \in WaveIds : workers'[h].pc \in {"limit", "store"} =>
                           \/ workers'[h] = workers[h]
                           \/ runningTask[workers'[h].task] # "none"
  BY <1>1, Kinds DEF RunsHoldSlots
<1> QED
  BY <1>1, <1>3, <1>4, <1>5, SlotsFrame

\* a goroutine starts the function of a task of which no run is left
LEMMA SlotsLaunch ==
  ASSUME TypeInv, Core, StartsCounted, RunsHoldSlots, NEW g \in WorkerIds, StartLaunch(g)
  PROVE  RunsHoldSlots'
<1> DEFINE w == workers[g]
           t == w.task
           v == [w EXCEPT !.pc = IF g \in WaveIds THEN "limit" ELSE "store"]
           r == [task |-> t, n |-> starts[t] + 1, att |-> w.att, pc |-> "run", ok |-> FALSE]
<1>0. w.pc = "launch" /\ w \in Worker /\ t \in Tasks
  BY Busy DEF StartLaunch, At
<1>1. /\ runningTask' = [runningTask EXCEPT ![t] = "running"]
      /\ runs' = runs \cup {r} /\ r.task = t
      /\ Become(g, v) /\ UNCHANGED runningTaskMap
  BY DEF StartLaunch, Launch, Goto, containerVars
<1>2. /\ v.pc = (IF g \in WaveIds THEN "limit" ELSE "store")
      /\ v.task = t /\ v.after = w.after
  BY <1>0 DEF Worker
<1> HIDE DEF v, r
<1>3. Running' = Running
  BY <1>1 DEF Running
<1>4. workers'[g] = v /\ \A h \in WorkerIds : h # g => workers'[h] = workers[h]
  BY <1>1, Types DEF Become
<1>5. g \in WaveIds \/ (g \in PollIds /\ g = <<"poll", t>> /\ t \in Running)
  BY <1>0, Whose, PollOf, Kinds DEF Core, WorkerShape, PollHolds
<1>6. runningTask[t] = "none"
  <2>1. CASE g \in WaveIds
    <3>1. starts[t] = 0
      BY <1>0, <2>1 DEF StartsCounted, WaveCounts
    <3> QED
      BY <1>0, <3>1 DEF StartsCounted
  <2>2. CASE g = <<"poll", t>> /\ t \in Running
    BY <1>0, <2>2 DEF RunsHoldSlots, PollSees
  <2> QED
    BY <1>5, <2>1, <2>2
<1>7. \A x \in runs : x.task # t /\ x.task \in Tasks
  BY <1>6, Types DEF RunsHoldSlots, Run
<1>8. \A u \in Tasks : runningTask'[u] = IF u = t THEN "running" ELSE runningTask[u]
  BY <1>0, <1>1, Types
<1>9. \A h \in WorkerIds : workers'[h].pc # "stop" /\ workers'[h].after # "timeout"
  BY <1>2, <1>4 DEF RunsHoldSlots
<1>10. \A x \in runs' : runningTask'[x.task] = "running"
  BY <1>0, <1>1, <1>7, <1>8 DEF RunsHoldSlots
<1>11. \A x, y \in runs' : x.task = y.task => x = y
  BY <1>1, <1>7 DEF RunsHoldSlots
<1>12. ASSUME NEW x \in runs' PROVE x.task \in Running' \/ Launched(x.task)' # {}
  <2>1. CASE x \in runs
    <3>1. Launched(x.task) \subseteq Launched(x.task)'
      BY <1>0, <1>4, Kinds DEF Launched
    <3> QED
      BY <1>3, <2>1, <3>1 DEF RunsHoldSlots
  <2>2. CASE x = r
    <3>1. x.task = t
      BY <1>1, <2>2
    <3>2. g \in WaveIds => g \in Launched(x.task)'
      BY <1>2, <1>4, <3>1 DEF Launched
    <3> QED
      BY <1>3, <1>5, <3>1, <3>2
  <2> QED
    BY <1>1, <2>1, <2>2
<1>13. ASSUME NEW u \in Running' PROVE PollSees(workers'[<<"poll", u>>], runningTask'[u])
  <2>1. u \in Running /\ u \in Tasks /\ <<"poll", u>> \in WorkerIds /\ <<"poll", u>> \in PollIds
    BY <1>3, Kinds DEF Running
  <2>2. CASE u = t
    <3>1. g \in PollIds /\ g = <<"poll", t>>
      BY <1>0, <1>5, <2>1, <2>2, Exclusive DEF Loose
    <3>2. v.pc = "store" /\ runningTask'[u] = "running"
      BY <1>2, <1>8, <2>1, <2>2, <3>1, Kinds
    <3> QED
      BY <1>4, <2>2, <3>1, <3>2 DEF PollSees
  <2>3. CASE u # t
    <3>1. g # <<"poll", u>>
      BY <1>0, <1>5, <2>1, <2>3, PollOf, Kinds
    <3> QED
      BY <1>4, <1>8, <2>1, <2>3, <3>1 DEF RunsHoldSlots
  <2> QED
    BY <2>2, <2>3
<1>14. ASSUME NEW h \in WaveIds, workers'[h].pc \in {"limit", "store"}
       PROVE  runningTask'[workers'[h].task] # "none"
  <2>1. CASE h = g
    BY <1>0, <1>2, <1>4, <1>8, <2>1
  <2>2. CASE h # g
    <3>1. workers'[h] = workers[h] /\ workers[h].task \in Tasks
      BY <1>4, <1>14, <2>2, Types, Kinds
    <3> QED
      BY <1>8, <1>14, <3>1 DEF RunsHoldSlots
  <2> QED
    BY <2>1, <2>2
<1> QED
  BY <1>9, <1>10, <1>11, <1>12, <1>13, <1>14 DEF RunsHoldSlots

\* a goroutine of a wave stores its task
LEMMA SlotsStore ==
  ASSUME TypeInv, Core, RunsHoldSlots, NEW g \in WorkerIds, ToRunning(g)
  PROVE  RunsHoldSlots'
<1> DEFINE w == workers[g]
           t == w.task
           v == [w EXCEPT !.pc = IF runningTaskMap[t].in THEN "restore" ELSE "inc"]
<1>0. w.pc = "store" /\ w \in Worker /\ t \in Tasks
  BY Busy DEF ToRunning, At
<1>1. /\ runningTaskMap' = [runningTaskMap EXCEPT ![t] =
           IF runningTaskMap[t].in THEN runningTaskMap[t] ELSE Present(w.att)]
      /\ Become(g, v)
      /\ UNCHANGED <<runningTask, runs>>
  BY DEF ToRunning, LoadOrStore, Goto, actuatorVars
<1>2. /\ v.pc = (IF runningTaskMap[t].in THEN "restore" ELSE "inc")
      /\ v.after = w.after
  BY <1>0 DEF Worker
<1> HIDE DEF v
<1>3. workers'[g] = v /\ \A h \in WorkerIds : h # g => workers'[h] = workers[h]
  BY <1>1, Types DEF Become
<1>4. Running' = Running \cup {t}
  BY <1>0, <1>1, Types DEF Running, Present
<1>5. \A h \in WorkerIds : \/ workers'[h] = workers[h]
                           \/ workers'[h].pc # "stop" /\ workers'[h].after # "timeout"
  BY <1>2, <1>3 DEF RunsHoldSlots
<1>6. ASSUME NEW r \in runs PROVE r.task \in Running' \/ Launched(r.task)' # {}
  <2>1. r.task # t => Launched(r.task) \subseteq Launched(r.task)'
    BY <1>3, Kinds DEF Launched
  <2> QED
    BY <1>4, <2>1 DEF RunsHoldSlots
<1>7. ASSUME NEW u \in Running'
      PROVE  \/ u \in Running /\ workers'[<<"poll", u>>] = workers[<<"poll", u>>]
             \/ PollSees(workers'[<<"poll", u>>], runningTask[u])
  <2>1. u \in Tasks /\ <<"poll", u>> \in WorkerIds /\ <<"poll", u>> \in PollIds
    BY Kinds DEF Running
  <2>2. CASE g = <<"poll", u>>
    <3>1. u = t /\ t \in Running
      BY <1>0, <2>1, <2>2, PollOf, Kinds DEF Core, WorkerShape, PollHolds
    <3>2. runningTask[t] # "none"
      BY <1>0, <2>2, <3>1 DEF RunsHoldSlots, PollSees
    <3>3. v.pc = "restore"
      BY <1>2, <3>1 DEF Running
    <3> QED
      BY <1>3, <2>2, <3>1, <3>2, <3>3 DEF PollSees
  <2>3. CASE g # <<"poll", u>> /\ u \in Running
    BY <1>3, <2>1, <2>3
  <2>4. CASE g # <<"poll", u>> /\ u \notin Running
    <3>1. u = t /\ g \in WaveIds
      BY <1>0, <1>4, <2>4, Whose, PollOf
    <3>2. workers[<<"poll", t>>].pc \notin PollEnds
      BY <1>0, <3>1, HeldApart DEF Loose
    <3>3. workers'[<<"poll", t>>].pc \in {"idle", "stop"}
      BY <1>0, <1>3, <2>1, <2>4, <3>1, <3>2, PollAway
    <3>4. runningTask[t] # "none"
      BY <1>0, <3>1 DEF RunsHoldSlots
    <3> QED
      BY <3>1, <3>3, <3>4 DEF PollSees
  <2> QED
    BY <2>2, <2>3, <2>4
<1>8. \A h \in WaveIds : workers'[h].pc \in {"limit", "store"} => workers'[h] = workers[h]
  BY <1>2, <1>3, Kinds
<1> QED
  BY <1>1, <1>5, <1>6, <1>7, <1>8, SlotsFrame

\* a task that leaves the running map has no run left
LEMMA SlotsLeave ==
  ASSUME TypeInv, Core, RunsHoldSlots, NEW g \in WorkerIds, LeaveRunning(g)
  PROVE  RunsHoldSlots'
<1> DEFINE w == workers[g]
           t == w.task
<1>0. w.pc = "remove" /\ w \in Worker /\ t \in Tasks
  BY Busy DEF LeaveRunning, At
<1>1. /\ runningTaskMap' = [runningTaskMap EXCEPT ![t] = Absent]
      /\ UNCHANGED <<runningTask, runs>>
  BY DEF LeaveRunning, LoadAndDelete, actuatorVars
<1>2. PICK v \in {Left(w), [w EXCEPT !.pc = "dec"]} : Become(g, v)
  BY DEF LeaveRunning
<1>3. v.pc \in {"dec", "finish", "spawn"} /\ v.after = w.after
  <2>1. /\ [w EXCEPT !.pc = "dec"].pc = "dec" /\ [w EXCEPT !.pc = "dec"].after = w.after
        /\ Left(w).after = w.after
    BY <1>0 DEF Worker, Left
  <2> QED
    BY <1>0, <2>1, LeftForm
<1>4. workers'[g] = v /\ \A h \in WorkerIds : h # g => workers'[h] = workers[h]
  BY <1>2, Types DEF Become
<1>5. Running' = Running \ {t}
  BY <1>0, <1>1, Types DEF Running, Absent
<1>6. \A h \in WorkerIds : \/ workers'[h] = workers[h]
                           \/ workers'[h].pc # "stop" /\ workers'[h].after # "timeout"
  BY <1>3, <1>4 DEF RunsHoldSlots
<1>7. t \in Running => runningTask[t] = "none"
  <2>1. ASSUME t \in Running PROVE g = <<"poll", t>>
    BY <1>0, <2>1, Exclusive, Whose, PollOf DEF Loose
  <2> QED
    BY <1>0, <2>1 DEF RunsHoldSlots, PollSees
<1>8. ASSUME NEW r \in runs PROVE r.task \in Running' \/ Launched(r.task)' # {}
  <2>1. Launched(r.task) \subseteq Launched(r.task)'
    BY <1>0, <1>4, Kinds DEF Launched
  <2>2. r.task \in Running => r.task \in Running'
    BY <1>5, <1>7 DEF RunsHoldSlots
  <2> QED
    BY <2>1, <2>2 DEF RunsHoldSlots
<1>9. ASSUME NEW u \in Running'
      PROVE  u \in Running /\ workers'[<<"poll", u>>] = workers[<<"poll", u>>]
  <2>1. u \in Tasks /\ <<"poll", u>> \in WorkerIds /\ <<"poll", u>> \in PollIds
    BY Kinds DEF Running
  <2>2. u # t /\ u \in Running
    BY <1>5
  <2>3. g # <<"poll", u>>
    BY <1>0, <2>1, <2>2, PollOf
  <2> QED
    BY <1>4, <2>1, <2>2, <2>3
<1>10. \A h \in WaveIds : workers'[h].pc \in {"limit", "store"} => workers'[h] = workers[h]
  BY <1>3, <1>4, Kinds
<1> QED
  BY <1>1, <1>6, <1>8, <1>9, <1>10, SlotsFrame

LEMMA SlotsWorker ==
  ASSUME TypeInv, Core, NoStartTakenBack, StartsCounted, RunsHoldSlots,
         NEW g \in WorkerIds, WorkerStep(g)
  PROVE  RunsHoldSlots'
<1> DEFINE w == workers[g]
<1>0. w.pc # "idle"
  BY DEF WorkerStep, StartCheck, StartLaunch, LimitCheck, ToRunning, ToRunningCount,
         ToRunningStore, LeaveRunning, LeaveRunningCount, Finish, StopActuator,
         SpawnExport, FetchOutput, ClearOutput, Persist, At
<1>1. /\ w \in Worker /\ w.task \in Tasks /\ w.after # "timeout"
      /\ w.pc # "stop"
  BY <1>0, Busy DEF RunsHoldSlots
<1>2. \A t \in Running : g = <<"poll", t>> => t \in Tasks /\ g \in PollIds /\ w.task = t
  BY <1>0, PollOf, Kinds DEF Running
<1>3. Idle.pc = "idle" /\ Idle.after = "none"
  BY DEF Idle
<1>4. \A pc : [w EXCEPT !.pc = pc].pc = pc /\ [w EXCEPT !.pc = pc].after = w.after
              /\ [w EXCEPT !.pc = pc].task = w.task
  BY <1>1 DEF Worker
<1>5. \A why \in {"failed", "success"} : Leaving(w, why).pc = "remove" /\ Leaving(w, why).after = why
  BY DEF Leaving, Holding, Idle
<1>6. CASE StartCheck(g)
  <2>1. /\ Goto(g, "launch") \/ Become(g, Leaving(w, "failed"))
        /\ UNCHANGED <<runs, runningTask>> /\ Running' = Running /\ w.pc = "start"
    BY <1>6 DEF StartCheck, Goto, At, containerVars, actuatorVars, Running
  <2> DEFINE c == [w EXCEPT !.pc = "launch"]
             l == Leaving(w, "failed")
  <2>4. /\ c.pc = "launch" /\ c.after = w.after /\ l.pc = "remove" /\ l.after = "failed"
        /\ Become(g, c) \/ Become(g, l)
    BY <1>1, <1>5, <2>1 DEF Goto, Worker
  <2> HIDE DEF c, l
  <2>2. PICK v : Become(g, v) /\ v.pc \in {"launch", "remove"} /\ v.after # "timeout"
    BY <1>1, <2>4
  <2>3. \A t \in Running : g = <<"poll", t>> => PollSees(v, runningTask[t])
    BY <2>1, <2>2 DEF RunsHoldSlots, PollSees
  <2> QED
    BY <2>1, <2>2, <2>3, SlotsOne
<1>7. CASE LimitCheck(g)
  <2>1. w.pc = "limit" /\ runningTaskCount < TaskLimit
    BY <1>7 DEF LimitCheck, At, NoStartTakenBack, WorkersAt
  <2>2. ~(runningTaskCount >= TaskLimit)
    BY <2>1, SchedulerAssumption DEF TypeInv, TypeOK, ContainerTypeOK
  <2>3. /\ Become(g, [w EXCEPT !.pc = "store"])
        /\ UNCHANGED <<runs, runningTask>> /\ Running' = Running
    BY <1>7, <2>2 DEF LimitCheck, Goto, containerVars, actuatorVars, Running
  <2>4. \A t \in Running : g # <<"poll", t>>
    BY <1>2, <2>1, Whose, Kinds
  <2> DEFINE v == [w EXCEPT !.pc = "store"]
  <2>5. v.pc = "store" /\ v.after # "timeout" /\ v.task = w.task
    BY <1>1, <1>4
  <2> HIDE DEF v
  <2> QED
    BY <2>1, <2>3, <2>4, <2>5, SlotsOne DEF v
<1>8. CASE ToRunningCount(g)
  <2>1. /\ Become(g, Idle) /\ w.pc = "inc"
        /\ UNCHANGED <<runs, runningTask>> /\ Running' = Running
    BY <1>8 DEF ToRunningCount, AddCount, At, actuatorVars, Running
  <2>2. \A t \in Running : g # <<"poll", t>>
    BY <1>2, <2>1, Whose, Kinds
  <2> QED
    BY <1>3, <2>1, <2>2, SlotsOne
<1>9. CASE ToRunningStore(g)
  <2>1. /\ Become(g, Idle) /\ w.pc = "restore" /\ g \in PollIds
        /\ UNCHANGED <<runs, runningTask>>
    BY <1>9, Whose DEF ToRunningStore, Restore, At, actuatorVars
  <2>2. w.task \in Running /\ g = <<"poll", w.task>>
    BY <2>1, PollOf, Kinds DEF Core, WorkerShape, PollHolds
  <2>3. Running' = Running
    <3>1. \A t \in Tasks : runningTaskMap'[t].in = (runningTaskMap[t].in \/ t = w.task)
      BY <1>1, <1>9, Types DEF ToRunningStore, Restore, Entry
    <3> QED
      BY <2>2, <3>1 DEF Running
  <2>4. \A t \in Running : g = <<"poll", t>> => PollSees(Idle, runningTask[t])
    BY <1>3, <2>1 DEF RunsHoldSlots, PollSees
  <2>5. g \notin WaveIds
    BY <2>1, Kinds
  <2> QED
    BY <1>3, <2>1, <2>3, <2>4, <2>5, SlotsOne
<1>10. CASE LeaveRunningCount(g)
  <2>1. /\ Become(g, Left(w)) /\ w.pc = "dec"
        /\ UNCHANGED <<runs, runningTask>> /\ Running' = Running
    BY <1>10 DEF LeaveRunningCount, AddCount, At, actuatorVars, Running
  <2>2. Left(w).pc \in {"spawn", "finish"} /\ Left(w).after # "timeout"
    BY <1>1, <1>4, LeftForm DEF Left
  <2>3. \A t \in Running : g # <<"poll", t>>
    BY <1>2, <2>1, EndsApart DEF PollEnds
  <2> QED
    BY <2>1, <2>2, <2>3, SlotsOne
<1>11. CASE Finish(g)
  <2>1. /\ Become(g, Idle) /\ w.pc = "finish"
        /\ UNCHANGED <<runs, runningTask>> /\ Running' = Running
    BY <1>1, <1>11 DEF Finish, At, containerVars, actuatorVars, Running
  <2>2. \A t \in Running : g # <<"poll", t>>
    BY <1>2, <2>1, EndsApart DEF PollEnds
  <2> QED
    BY <1>3, <2>1, <2>2, SlotsOne
<1>12. CASE StopActuator(g)
  BY <1>1, <1>12 DEF StopActuator, At
<1>13. CASE SpawnExport(g)
  <2>1. PICK i \in 1..ExportWorkers :
          workers' = [workers EXCEPT ![g] = Idle, ![<<"export", i>>] = Holding("output", w.task, w.att)]
    BY <1>13 DEF SpawnExport
  <2>2. w.pc = "spawn" /\ UNCHANGED <<runs, runningTask>> /\ Running' = Running
    BY <1>13 DEF SpawnExport, At, containerVars, actuatorVars, Running
  <2>3. \A h \in WorkerIds : h # g /\ h \notin ExportIds => workers'[h] = workers[h]
    BY <2>1, Types, Kinds
  <2>4. g \notin ExportIds => workers'[g] = Idle
    BY <2>1, Types, Kinds
  <2> DEFINE o == Holding("output", w.task, w.att)
  <2>5. o.pc = "output" /\ o.after = "none"
    BY DEF Holding, Idle
  <2> HIDE DEF o
  <2>6. \A h \in WorkerIds : workers'[h] \in {workers[h], Idle, o}
    BY <2>1, Types DEF o
  <2>7. \A h \in WorkerIds : \/ workers'[h] = workers[h]
                             \/ workers'[h].pc # "stop" /\ workers'[h].after # "timeout"
    BY <1>3, <2>5, <2>6
  <2>8. \A h \in WaveIds : \/ workers'[h] = workers[h]
                           \/ h = g /\ workers'[h] = Idle
    BY <2>3, <2>4, Kinds
  <2>9. ASSUME NEW r \in runs PROVE r.task \in Running' \/ Launched(r.task)' # {}
    <3>1. Launched(r.task) \subseteq Launched(r.task)'
      BY <2>2, <2>8 DEF Launched
    <3> QED
      BY <2>2, <3>1 DEF RunsHoldSlots
  <2>10. ASSUME NEW u \in Running'
         PROVE  u \in Running /\ workers'[<<"poll", u>>] = workers[<<"poll", u>>]
    <3>1. u \in Running /\ u \in Tasks
      BY <2>2 DEF Running
    <3>2. g # <<"poll", u>>
      BY <1>2, <2>2, <3>1, EndsApart DEF PollEnds
    <3> QED
      BY <2>3, <3>1, <3>2, Kinds
  <2>11. \A h \in WaveIds : workers'[h].pc \in {"limit", "store"} => workers'[h] = workers[h]
    BY <1>3, <2>8
  <2> QED
    BY <2>2, <2>7, <2>9, <2>10, <2>11, SlotsFrame
<1>14. CASE FetchOutput(g) \/ Persist(g)
  <2>1. /\ w.pc \in {"output", "persist"}
        /\ Goto(g, "clear") \/ Become(g, Leaving(w, "failed")) \/ Become(g, Leaving(w, "success"))
        /\ UNCHANGED <<runs, runningTask>> /\ Running' = Running
    BY <1>14 DEF FetchOutput, Persist, Goto, At, containerVars, actuatorVars, Running
  <2> DEFINE c == [w EXCEPT !.pc = "clear"]
             l == Leaving(w, "failed")
             s == Leaving(w, "success")
  <2>5. /\ c.pc = "clear" /\ c.after = w.after
        /\ l.pc = "remove" /\ l.after = "failed" /\ s.pc = "remove" /\ s.after = "success"
        /\ Become(g, c) \/ Become(g, l) \/ Become(g, s)
    BY <1>1, <1>5, <2>1 DEF Goto, Worker
  <2> HIDE DEF c, l, s
  <2>2. PICK v : Become(g, v) /\ v.pc \in {"clear", "remove"} /\ v.after # "timeout"
    BY <1>1, <2>5
  <2>3. g \in ExportIds /\ g \notin WaveIds /\ g \notin PollIds
    BY <2>1, Whose, Kinds
  <2>4. \A t \in Running : g # <<"poll", t>>
    BY <1>2, <2>3
  <2> QED
    BY <2>1, <2>2, <2>3, <2>4, SlotsOne
<1>15. CASE ClearOutput(g)
  <2> DEFINE v == [w EXCEPT !.pc = "persist"]
  <2>1. /\ w.pc = "clear" /\ Become(g, v)
        /\ runningTask' = [runningTask EXCEPT ![w.task] = "none"]
        /\ UNCHANGED runs /\ Running' = Running
    BY <1>15 DEF ClearOutput, Clear, Goto, At, containerVars, Running
  <2>2. v.pc = "persist" /\ v.after # "timeout"
    BY <1>1, <1>4
  <2> HIDE DEF v
  <2>3. workers'[g] = v /\ \A h \in WorkerIds : h # g => workers'[h] = workers[h]
    BY <2>1, Types DEF Become
  <2>4. g \in ExportIds /\ g \notin WaveIds /\ g \notin PollIds
    BY <2>1, Whose, Kinds
  <2>5. w.task \notin Running /\ \A h \in WaveIds : workers[h].task = w.task => workers[h].pc \in Loose
    BY <1>1, <2>1, <2>4, Exclusive, Kinds DEF Loose
  <2>6. Launched(w.task) = {}
    BY <2>5 DEF Launched, Loose
  <2>7. \A r \in runs : r.task # w.task /\ r.task \in Tasks
    BY <2>5, <2>6, Types DEF RunsHoldSlots, Run
  <2>8. \A t \in Tasks : t # w.task => runningTask'[t] = runningTask[t]
    BY <1>1, <2>1, Types
  <2>9. \A h \in WorkerIds : workers'[h].pc # "stop" /\ workers'[h].after # "timeout"
    BY <2>2, <2>3 DEF RunsHoldSlots
  <2>10. \A r \in runs' : runningTask'[r.task] = "running"
    BY <2>1, <2>7, <2>8 DEF RunsHoldSlots
  <2>11. \A r \in runs' : r.task \in Running' \/ Launched(r.task)' # {}
    <3>1. \A t : Launched(t)' = Launched(t)
      BY <2>3, <2>4, Kinds DEF Launched
    <3> QED
      BY <2>1, <3>1 DEF RunsHoldSlots
  <2>12. ASSUME NEW u \in Running' PROVE PollSees(workers'[<<"poll", u>>], runningTask'[u])
    <3>1. u \in Running /\ u \in Tasks /\ u # w.task
      BY <2>1, <2>5 DEF Running
    <3> QED
      BY <2>3, <2>4, <2>8, <3>1, Kinds DEF RunsHoldSlots
  <2>13. ASSUME NEW h \in WaveIds, workers'[h].pc \in {"limit", "store"}
         PROVE  runningTask'[workers'[h].task] # "none"
    <3>1. workers'[h] = workers[h] /\ workers[h].task \in Tasks
      BY <2>3, <2>4, <2>13, Types, Kinds
    <3>2. workers[h].task # w.task
      BY <2>5, <2>13, <3>1 DEF Loose
    <3> QED
      BY <2>8, <2>13, <3>1, <3>2 DEF RunsHoldSlots
  <2> QED
    BY <2>1, <2>9, <2>10, <2>11, <2>12, <2>13 DEF RunsHoldSlots
<1> QED
  BY <1>6, <1>7, <1>8, <1>9, <1>10, <1>11, <1>12, <1>13, <1>14, <1>15, SlotsLaunch, SlotsStore,
     SlotsLeave DEF WorkerStep

LEMMA SlotsPoll ==
  ASSUME ~TaskTimeoutOn, TypeInv, Core, RunsHoldSlots, PollStep
  PROVE  RunsHoldSlots'
<1>0. UNCHANGED <<runs, runningTaskMap>> /\ Running' = Running
  BY DEF PollStep, PollSnapshot, PollLaunch, PollQuery, PollForget, Forget,
         containerVars, actuatorVars, Running
<1>1. ASSUME UNCHANGED runningTask, \A g \in WaveIds : workers'[g] = workers[g],
             \A g \in WorkerIds : \/ workers'[g] = workers[g]
                                  \/ workers'[g].pc # "stop" /\ workers'[g].after # "timeout",
             \A t \in Running :
               \/ workers'[<<"poll", t>>] = workers[<<"poll", t>>]
               \/ PollSees(workers'[<<"poll", t>>], runningTask[t])
      PROVE  RunsHoldSlots'
  <2>1. \A t : Launched(t)' = Launched(t)
    BY <1>1 DEF Launched
  <2>2. \A r \in runs : r.task \in Running' \/ Launched(r.task)' # {}
    BY <1>0, <2>1 DEF RunsHoldSlots
  <2>3. \A t \in Running' : \/ t \in Running /\ workers'[<<"poll", t>>] = workers[<<"poll", t>>]
                            \/ PollSees(workers'[<<"poll", t>>], runningTask[t])
    BY <1>0, <1>1
  <2> QED
    BY <1>0, <1>1, <2>2, <2>3, SlotsFrame
<1>2. CASE PollSnapshot
  <2>1. UNCHANGED runningTask
    BY <1>2 DEF PollSnapshot, actuatorVars
  <2>2. \A g \in WaveIds : workers'[g] = workers[g]
    BY <1>2, Kinds DEF PollSnapshot
  <2>3. ASSUME NEW g \in WorkerIds, g \in PollIds, g[2] \in Running
        PROVE  workers'[g].pc = "query" /\ workers'[g].after = "none"
    <3> DEFINE h == Holding("query", g[2], runningTaskMap[g[2]].att)
    <3>1. workers'[g] = [h EXCEPT !.late = runningTaskMap[g[2]].late]
      BY <1>2, <2>3 DEF PollSnapshot
    <3>2. g[2] \in Tasks /\ "query" \in WorkerPC
      BY <2>3 DEF Running, WorkerPC
    <3>3. h \in Worker /\ h.pc = "query" /\ h.after = "none"
      BY <3>2, WorkerForms, Types DEF Holding, Idle
    <3> HIDE DEF h
    <3> QED
      BY <3>1, <3>3 DEF Worker
  <2>4. \A g \in WorkerIds : ~(g \in PollIds /\ g[2] \in Running) => workers'[g] = workers[g]
    BY <1>2 DEF PollSnapshot
  <2>5. \A g \in WorkerIds : \/ workers'[g] = workers[g]
                             \/ workers'[g].pc # "stop" /\ workers'[g].after # "timeout"
    BY <2>3, <2>4
  <2>6. ASSUME NEW t \in Running
        PROVE  PollSees(workers'[<<"poll", t>>], runningTask[t])
    <3> DEFINE g == <<"poll", t>>
    <3>1. t \in Tasks /\ g \in PollIds /\ g \in WorkerIds /\ g[2] = t
      BY Kinds DEF Running
    <3>2. workers[g].pc = "idle"
      BY <1>2, <3>1 DEF PollSnapshot, Active
    <3>3. runningTask[t] # "none"
      BY <3>2 DEF RunsHoldSlots, PollSees
    <3>4. workers'[g].pc = "query"
      BY <2>3, <3>1
    <3> QED
      BY <3>3, <3>4 DEF PollSees
  <2> QED
    BY <1>1, <2>1, <2>2, <2>5, <2>6
<1>3. CASE PollLaunch
  <2>1. UNCHANGED runningTask
    BY <1>3 DEF PollLaunch, actuatorVars
  <2>2. PICK expired \in SUBSET (IF TaskTimeoutOn THEN Tasks ELSE {}) :
          workers' = [g \in WorkerIds |->
                        IF g \in Active(PollIds)
                        THEN PollBody(workers[g], workers[g].task \in expired)
                        ELSE workers[g]]
    BY <1>3 DEF PollLaunch
  <2>3. \A g \in WaveIds : workers'[g] = workers[g]
    BY <2>2, Kinds DEF Active
  <2>4. ASSUME NEW g \in Active(PollIds)
        PROVE  LET w == workers[g] IN
               /\ w \in Worker /\ w.task \in Tasks /\ w.pc = "ready" /\ g \in WorkerIds
               /\ w.task \in Running /\ g = <<"poll", w.task>>
               /\ \/ w.st = "running" /\ workers'[g] = Idle
                  \/ w.st \in {"success", "failed"} /\ workers'[g] \in {Retry(w), Export(w)}
    <3> DEFINE w == workers[g]
    <3>1. w.pc = "ready" /\ w \in Worker /\ w.task \in Tasks /\ g \in WorkerIds /\ g \in PollIds
      BY <1>3, Busy, Kinds DEF PollLaunch, At, Active
    <3>2. w.task \in Running /\ g = <<"poll", w.task>>
      BY <3>1, PollOf DEF Core, WorkerShape, PollHolds
    <3>3. w.st \in {"running", "success", "failed"}
      BY <3>1, <3>2 DEF RunsHoldSlots, PollSees
    <3>4. workers'[g] = PollBody(w, w.task \in expired) /\ w.task \notin expired
      BY <2>2, <3>1
    <3>5. \/ w.st = "running" /\ workers'[g] = Idle
          \/ w.st \in {"success", "failed"} /\ workers'[g] \in {Retry(w), Export(w)}
      BY <3>3, <3>4 DEF PollBody, AlreadyProcessed
    <3> QED
      BY <3>1, <3>2, <3>5
  <2>5. ASSUME NEW g \in Active(PollIds)
        PROVE  /\ workers'[g].pc # "stop" /\ workers'[g].after # "timeout"
               /\ PollSees(workers'[g], runningTask[workers[g].task])
    <3> DEFINE w == workers[g]
               c == runningTask[w.task]
    <3>1. PollSees(w, c)
      BY <2>4 DEF RunsHoldSlots
    <3>2. \/ w.st = "running" /\ c # "none" /\ workers'[g] = Idle
          \/ c = "none" /\ workers'[g] \in {Retry(w), Export(w)}
      BY <2>4, <3>1 DEF PollSees
    <3>3. w \in Worker /\ w.task \in Tasks
      BY <2>4
    <3>4. /\ Idle.pc = "idle" /\ Idle.after = "none"
          /\ Export(w).pc = "remove" /\ Export(w).after \in {"export", "success"}
      BY <3>3, OutcomeForms DEF Idle, Export, Leaving, Holding
    <3>5. Retry(w).pc \in {"start", "remove"} /\ Retry(w).after \in {"none", "failed"}
      BY <3>3, OutcomeForms DEF Retry, Leaving, Holding, Idle
    <3> HIDE DEF w, c
    <3>6. \/ c # "none" /\ workers'[g].pc = "idle" /\ workers'[g].after = "none"
          \/ /\ c = "none" /\ workers'[g].pc \in {"start", "remove"}
             /\ workers'[g].after \in {"none", "failed", "export", "success"}
      BY <3>2, <3>4, <3>5
    <3>7. PollSees(workers'[g], c)
      BY <3>6 DEF PollSees
    <3> QED
      BY <3>6, <3>7 DEF w, c
  <2>6. \A g \in WorkerIds : g \notin Active(PollIds) => workers'[g] = workers[g]
    BY <2>2
  <2>7. ASSUME NEW t \in Running
        PROVE  \/ workers'[<<"poll", t>>] = workers[<<"poll", t>>]
               \/ PollSees(workers'[<<"poll", t>>], runningTask[t])
    <3>1. t \in Tasks /\ <<"poll", t>> \in PollIds /\ <<"poll", t>> \in WorkerIds
      BY Kinds DEF Running
    <3>2. CASE <<"poll", t>> \in Active(PollIds)
      <4>1. workers[<<"poll", t>>].task = t
        BY <2>4, <3>1, <3>2, PollOf DEF Active
      <4> QED
        BY <2>5, <3>2, <4>1
    <3>3. CASE <<"poll", t>> \notin Active(PollIds)
      BY <2>6, <3>1, <3>3
    <3> QED
      BY <3>2, <3>3
  <2> QED
    BY <1>1, <2>1, <2>3, <2>5, <2>6, <2>7
<1>4. ASSUME NEW g \in PollIds, PollQuery(g) PROVE RunsHoldSlots'
  <2> DEFINE w == workers[g]
             t == w.task
             v == [w EXCEPT !.st = AsyncStatus(t),
                     !.pc = IF runningTask[t] \in {"success", "failed"} THEN "forget" ELSE "ready"]
  <2>1. w.pc = "query" /\ g \in WorkerIds /\ w \in Worker /\ t \in Tasks
    BY <1>4, Busy, Kinds DEF PollQuery, At
  <2>2. t \in Running /\ g = <<"poll", t>>
    BY <2>1, PollOf DEF Core, WorkerShape, PollHolds
  <2>3. runningTask[t] \in {"running", "success", "failed"}
    BY <2>1, <2>2, Types DEF RunsHoldSlots, PollSees, CacheStatus
  <2>4. /\ v.pc = IF runningTask[t] \in {"success", "failed"} THEN "forget" ELSE "ready"
        /\ v.st = runningTask[t] /\ v.after = w.after
    BY <2>1, <2>3 DEF Worker, AsyncStatus
  <2>5. Become(g, v) /\ UNCHANGED runningTask
    BY <1>4 DEF PollQuery, actuatorVars
  <2> HIDE DEF v
  <2>6. PollSees(v, runningTask[t])
    BY <2>3, <2>4 DEF PollSees
  <2>7. g \notin WaveIds /\ w.after # "timeout"
    BY <2>1, Kinds DEF RunsHoldSlots
  <2>8. \A u \in Running : g = <<"poll", u>> => PollSees(v, runningTask[u])
    BY <2>2, <2>6
  <2>9. v.pc # "stop" /\ v.after # "timeout"
    BY <2>4, <2>7
  <2> QED
    BY <1>0, <2>1, <2>5, <2>7, <2>8, <2>9, SlotsOne
<1>5. ASSUME NEW g \in PollIds, PollForget(g) PROVE RunsHoldSlots'
  <2> DEFINE w == workers[g]
             t == w.task
             v == [w EXCEPT !.pc = "ready"]
  <2>1. w.pc = "forget" /\ g \in WorkerIds /\ w \in Worker /\ t \in Tasks
    BY <1>5, Busy, Kinds DEF PollForget, At
  <2>2. t \in Running /\ g = <<"poll", t>> /\ g \notin WaveIds
    BY <2>1, PollOf, Kinds DEF Core, WorkerShape, PollHolds
  <2>3. w.st \in {"success", "failed"} /\ runningTask[t] \in {"success", "failed"}
    BY <2>1, <2>2 DEF RunsHoldSlots, PollSees
  <2>4. v.pc = "ready" /\ v.st = w.st /\ v.after = w.after
    BY <2>1 DEF Worker
  <2>5. Become(g, v) /\ runningTask' = [runningTask EXCEPT ![t] = "none"]
    BY <1>5 DEF PollForget, Forget, Goto
  <2> HIDE DEF v
  <2>6. workers'[g] = v /\ \A h \in WorkerIds : h # g => workers'[h] = workers[h]
    BY <2>1, <2>5, Types DEF Become
  <2>7. \A r \in runs : r.task # t /\ r.task \in Tasks
    BY <2>3, Types DEF RunsHoldSlots, Run
  <2>8. runningTask'[t] = "none" /\ \A u \in Tasks : u # t => runningTask'[u] = runningTask[u]
    BY <2>1, <2>5, Types
  <2>9. \A h \in WorkerIds : workers'[h].pc # "stop" /\ workers'[h].after # "timeout"
    BY <2>4, <2>6 DEF RunsHoldSlots
  <2>10. \A r \in runs' : runningTask'[r.task] = "running"
    BY <1>0, <2>7, <2>8 DEF RunsHoldSlots
  <2>11. \A r \in runs' : r.task \in Running' \/ Launched(r.task)' # {}
    <3>1. \A u : Launched(u)' = Launched(u)
      BY <2>2, <2>6, Kinds DEF Launched
    <3> QED
      BY <1>0, <3>1 DEF RunsHoldSlots
  <2>12. ASSUME NEW u \in Running' PROVE PollSees(workers'[<<"poll", u>>], runningTask'[u])
    <3>1. u \in Running /\ u \in Tasks /\ <<"poll", u>> \in WorkerIds
      BY <1>0, Kinds DEF Running
    <3>2. CASE u = t
      <4>1. PollSees(v, "none")
        BY <2>3, <2>4 DEF PollSees
      <4> QED
        BY <2>2, <2>6, <2>8, <3>2, <4>1
    <3>3. CASE u # t
      BY <2>2, <2>6, <2>8, <3>1, <3>3 DEF RunsHoldSlots
    <3> QED
      BY <3>2, <3>3
  <2>13. ASSUME NEW h \in WaveIds, workers'[h].pc \in {"limit", "store"}
         PROVE  runningTask'[workers'[h].task] # "none"
    <3>1. workers'[h] = workers[h] /\ workers[h].task \in Tasks
      BY <2>2, <2>6, <2>13, Types, Kinds
    <3>2. workers[h].task # t
      BY <2>1, <2>2, <2>13, <3>1, Exclusive DEF Loose
    <3> QED
      BY <2>8, <2>13, <3>1, <3>2 DEF RunsHoldSlots
  <2> QED
    BY <1>0, <2>9, <2>10, <2>11, <2>12, <2>13 DEF RunsHoldSlots
<1> QED
  BY <1>2, <1>3, <1>4, <1>5 DEF PollStep

LEMMA SlotsSched ==
  ASSUME TypeInv, Core, RunsHoldSlots, SchedStep
  PROVE  RunsHoldSlots'
<1>0. UNCHANGED <<runs, runningTask, runningTaskMap>> /\ Running' = Running
  BY DEF SchedStep, SchedCount, SchedPop, SchedMark, SchedLaunch, SchedDone, Pop, TakeStopMark,
         containerVars, actuatorVars, Running
<1>1. ASSUME NEW g \in WorkerIds
      PROVE  \/ workers'[g] = workers[g]
             \/ /\ g \in WaveIds /\ workers[g].pc \in {"idle", "ready"}
                /\ workers'[g].pc \in {"ready", "start"} /\ workers'[g].after # "timeout"
  <2>1. CASE SchedCount \/ SchedPop \/ SchedDone
    BY <2>1 DEF SchedCount, SchedPop, SchedDone
  <2>2. CASE SchedMark
    <3> DEFINE h == Holding("ready", sched.task, 0)
    <3>1. h.pc = "ready" /\ h.after = "none"
      BY DEF Holding, Idle
    <3>2. CASE UNCHANGED workers
      BY <3>2
    <3>3. ASSUME NEW i \in 1..MaxWave, IsFree("sched", i), Become(<<"sched", i>>, h)
          PROVE  \/ workers'[g] = workers[g]
                 \/ g \in WaveIds /\ workers[g].pc = "idle" /\ workers'[g] = h
      <4> HIDE DEF h
      <4> QED
        BY <3>3, Types, Kinds DEF Become, IsFree
    <3>4. UNCHANGED workers \/ \E i \in 1..MaxWave : IsFree("sched", i) /\ Become(<<"sched", i>>, h)
      BY <2>2 DEF SchedMark
    <3> HIDE DEF h
    <3> QED
      BY <3>1, <3>2, <3>3, <3>4
  <2>3. CASE SchedLaunch
    <3>1. CASE g \in Active(WaveIds)
      <4> DEFINE v == [workers[g] EXCEPT !.pc = "start"]
      <4>1. workers'[g] = v /\ g \in WaveIds
        BY <2>3, <3>1 DEF SchedLaunch, Active
      <4>2. workers[g].pc = "ready" /\ workers[g] \in Worker
        BY <2>3, <3>1, Types DEF Core, SchedShape, SchedLaunch, Active
      <4>3. v.pc = "start" /\ v.after = workers[g].after
        BY <4>2 DEF Worker
      <4> HIDE DEF v
      <4> QED
        BY <4>1, <4>2, <4>3 DEF RunsHoldSlots
    <3>2. CASE g \notin Active(WaveIds)
      BY <2>3, <3>2 DEF SchedLaunch
    <3> QED
      BY <3>1, <3>2
  <2> QED
    BY <2>1, <2>2, <2>3 DEF SchedStep
<1>2. \A g \in WorkerIds : \/ workers'[g] = workers[g]
                           \/ workers'[g].pc # "stop" /\ workers'[g].after # "timeout"
  BY <1>1
<1>3. \A r \in runs : r.task \in Running' \/ Launched(r.task)' # {}
  <2>1. \A t : Launched(t) \subseteq Launched(t)'
    BY <1>1, Kinds DEF Launched
  <2> QED
    BY <1>0, <2>1 DEF RunsHoldSlots
<1>4. \A t \in Running' : t \in Running /\ workers'[<<"poll", t>>] = workers[<<"poll", t>>]
  BY <1>0, <1>1, Kinds DEF Running
<1>5. \A g \in WaveIds : workers'[g].pc \in {"limit", "store"} => workers'[g] = workers[g]
  BY <1>1, Kinds
<1> QED
  BY <1>0, <1>2, <1>3, <1>4, <1>5, SlotsFrame

\* a run goes on, or ends and is made known
LEMMA SlotsRun ==
  ASSUME PollMode, TypeInv, NoCallbacks, RunsHoldSlots, ActuatorStep
  PROVE  RunsHoldSlots'
<1>0. UNCHANGED <<workers, containerVars>> /\ Running' = Running
  BY DEF ActuatorStep, schedulerVars, loopVars, containerVars, Running
<1>1. PICK r \in runs : RunStep(r)
  BY DEF ActuatorStep
<1>2. r \in Run /\ r.task \in Tasks /\ runningTask[r.task] = "running" /\ r.pc # "callback"
  BY Types DEF Run, RunsHoldSlots, NoCallbacks
<1>3. \A t : Launched(t)' = Launched(t)
  BY <1>0 DEF Launched
<1>4. \A g \in WorkerIds : workers'[g].pc # "stop" /\ workers'[g].after # "timeout"
  BY <1>0 DEF RunsHoldSlots
<1>5. ASSUME NEW v, v.task = r.task, runs' = (runs \ {r}) \cup {v}, UNCHANGED runningTask
      PROVE  RunsHoldSlots'
  <2>1. /\ \A x \in runs' : runningTask'[x.task] = "running"
        /\ \A x, y \in runs' : x.task = y.task => x = y
    BY <1>2, <1>5 DEF RunsHoldSlots
  <2>2. \A x \in runs' : \E y \in runs : x.task = y.task
    BY <1>5
  <2>3. \A x \in runs' : x.task \in Running' \/ Launched(x.task)' # {}
    <3> SUFFICES ASSUME NEW x \in runs' PROVE x.task \in Running' \/ Launched(x.task)' # {}
      OBVIOUS
    <3>1. PICK y \in runs : x.task = y.task
      BY <2>2
    <3>2. y.task \in Running \/ Launched(y.task) # {}
      BY DEF RunsHoldSlots
    <3> QED
      BY <1>0, <1>3, <3>1, <3>2
  <2>4. \A t \in Running' : PollSees(workers'[<<"poll", t>>], runningTask'[t])
    BY <1>0, <1>5 DEF RunsHoldSlots
  <2>5. \A g \in WaveIds : workers'[g].pc \in {"limit", "store"} => runningTask'[workers'[g].task] # "none"
    BY <1>0, <1>5 DEF RunsHoldSlots
  <2> QED
    BY <1>4, <2>1, <2>3, <2>4, <2>5 DEF RunsHoldSlots
<1>6. ASSUME NEW ok \in BOOLEAN, RunReturn(r, ok) PROVE RunsHoldSlots'
  <2> DEFINE v == [r EXCEPT !.ok = ok, !.pc = IF ok THEN "save" ELSE "publish"]
  <2>1. runs' = (runs \ {r}) \cup {v} /\ UNCHANGED runningTask
    BY <1>2, <1>6 DEF RunReturn, Move
  <2>2. v.task = r.task
    BY <1>2 DEF Run
  <2> HIDE DEF v
  <2> QED
    BY <1>5, <2>1, <2>2
<1>7. CASE RunSave(r)
  <2> DEFINE v == [r EXCEPT !.pc = "publish"]
  <2>1. runs' = (runs \ {r}) \cup {v} /\ UNCHANGED runningTask
    BY <1>7 DEF RunSave, Move
  <2>2. v.task = r.task
    BY <1>2 DEF Run
  <2> HIDE DEF v
  <2> QED
    BY <1>5, <2>1, <2>2
<1>8. CASE RunPublish(r)
  <2>1. PICK c \in {"success", "failed"} : runningTask' = [runningTask EXCEPT ![r.task] = c]
    BY <1>8 DEF RunPublish
  <2>2. runs' = runs \ {r}
    BY <1>8 DEF RunPublish, PollMode
  <2>3. \A t \in Tasks : runningTask'[t] = IF t = r.task THEN c ELSE runningTask[t]
    BY <1>2, <2>1, Types
  <2>4. \A x \in runs' : x \in runs /\ x.task # r.task /\ x.task \in Tasks
    BY <2>2, Types DEF RunsHoldSlots, Run
  <2>5. /\ \A x \in runs' : runningTask'[x.task] = "running"
        /\ \A x, y \in runs' : x.task = y.task => x = y
    BY <2>3, <2>4 DEF RunsHoldSlots
  <2>6. \A x \in runs' : x.task \in Running' \/ Launched(x.task)' # {}
    BY <1>0, <1>3, <2>4 DEF RunsHoldSlots
  <2>7. ASSUME NEW t \in Running' PROVE PollSees(workers'[<<"poll", t>>], runningTask'[t])
    <3>1. t \in Tasks /\ t \in Running /\ PollSees(workers[<<"poll", t>>], runningTask[t])
      BY <1>0 DEF Running, RunsHoldSlots
    <3>2. CASE t = r.task
      <4>1. PollSees(workers[<<"poll", t>>], c)
        BY <1>2, <3>1, <3>2 DEF PollSees
      <4> QED
        BY <1>0, <2>3, <3>1, <3>2, <4>1
    <3>3. CASE t # r.task
      BY <1>0, <2>3, <3>1, <3>3
    <3> QED
      BY <3>2, <3>3
  <2>8. ASSUME NEW g \in WaveIds, workers'[g].pc \in {"limit", "store"}
        PROVE  runningTask'[workers'[g].task] # "none"
    <3>1. workers'[g] = workers[g] /\ workers[g].task \in Tasks
      BY <1>0, <2>8, Types, Kinds
    <3> QED
      BY <2>3, <2>8, <3>1 DEF RunsHoldSlots
  <2> QED
    BY <1>4, <2>5, <2>6, <2>7, <2>8 DEF RunsHoldSlots
<1>9. CASE RunCallback(r)
  BY <1>2, <1>9 DEF RunCallback
<1> QED
  BY <1>1, <1>6, <1>7, <1>8, <1>9 DEF RunStep

LEMMA SlotsInit == Init => RunsHoldSlots
<1> SUFFICES ASSUME Init PROVE RunsHoldSlots
  OBVIOUS
<1>1. /\ runs = {} /\ Running = {}
      /\ \A g \in WorkerIds : workers[g].pc = "idle" /\ workers[g].after = "none"
  BY DEF Init, ContainerInit, ActuatorInit, Running, Absent, Idle
<1> QED
  BY <1>1, Kinds DEF RunsHoldSlots

LEMMA SlotsStep ==
  PollMode /\ ~TaskTimeoutOn /\ PollInvariant /\ StartsCounted /\ RunsHoldSlots /\ [Next]_vars
    => RunsHoldSlots'
<1> SUFFICES ASSUME PollMode, ~TaskTimeoutOn, PollInvariant, StartsCounted, RunsHoldSlots, [Next]_vars
             PROVE  RunsHoldSlots'
  OBVIOUS
<1>0. TypeInv /\ Core /\ NoCallbacks /\ NoStartTakenBack
  BY PollParts, LimitFollows
<1>1. ASSUME UNCHANGED <<runs, runningTask, runningTaskMap, workers>> PROVE RunsHoldSlots'
  <2>1. Running' = Running /\ \A t : Launched(t)' = Launched(t)
    BY <1>1 DEF Running, Launched
  <2>2. \A r \in runs : r.task \in Running' \/ Launched(r.task)' # {}
    BY <2>1 DEF RunsHoldSlots
  <2> QED
    BY <1>1, <2>1, <2>2, SlotsFrame
<1>2. ASSUME NEW t \in Tasks, ClientStep(t) PROVE RunsHoldSlots'
  <2>1. client[t].pc \in {"out", "push", "active"} /\ client[t].stops = 0 /\ MaxStops = 0
    BY <1>0 DEF Core, ClientShape, PollMode
  <2>2. AddTaskMark(t) \/ AddTaskPush(t) \/ AddTaskTimeout(t)
    BY <1>2, <2>1 DEF ClientStep, StopTaskMap, StopTaskDec, StopTaskActuator
  <2>3. UNCHANGED <<runs, runningTask, runningTaskMap, workers>>
    BY <2>2 DEF AddTaskMark, AddTaskPush, AddTaskTimeout, TakeStopMark, Push, containerVars, actuatorVars
  <2> QED
    BY <1>1, <2>3
<1>3. CASE CallbackStep
  BY <1>0, <1>1, <1>3 DEF CallbackStep, CallbackDrop, CallbackHandle, ProcessedExpire, NoCallbacks,
                          containerVars, actuatorVars
<1>4. CASE UNCHANGED vars
  BY <1>1, <1>4 DEF vars, containerVars, actuatorVars, schedulerVars
<1>5. ASSUME NEW t \in Tasks, Deadline(t) PROVE RunsHoldSlots'
  BY <1>5 DEF Deadline
<1> QED
  BY <1>0, <1>2, <1>3, <1>4, <1>5, SlotsSched, SlotsPoll, SlotsWorker, SlotsRun DEF Next

LEMMA SlotsHold ==
  ASSUME PollMode, ~TaskTimeoutOn
  PROVE  Safety => [](PollInvariant /\ StartsCounted /\ RunsHoldSlots)
<1>1. Init => PollInvariant /\ StartsCounted /\ RunsHoldSlots
  BY PollInit, CountedInit, SlotsInit
<1>2. PollInvariant /\ StartsCounted /\ RunsHoldSlots /\ [Next]_vars
        => (PollInvariant /\ StartsCounted /\ RunsHoldSlots)'
  BY PollStepKeeps, CountedStep, SlotsStep
<1> QED
  BY <1>1, <1>2, PTL DEF Safety

\* the tasks that hold a slot as far as RunsHoldSlots counts them
LEMMA SlotsCounted ==
  ASSUME PollInvariant, RunsHoldSlots
  PROVE  IsFiniteSet(runs) /\ Cardinality(runs) <= TaskLimit
<1> DEFINE L == {g \in WaveIds : workers[g].pc \in {"limit", "store"}}
           W == {workers[g].task : g \in L}
           T == {r.task : r \in runs}
<1>0. TypeInv /\ Core
  BY PollParts
<1>1. IsFiniteSet(L) /\ Cardinality(L) \in Nat
  BY WorkersFinite, FS_Subset, FS_CardinalityType
<1>2. IsFiniteSet(W) /\ Cardinality(W) <= Cardinality(L) /\ Cardinality(W) \in Nat
  <2>1. IsFiniteSet(W) /\ Cardinality(W) <= Cardinality(L)
    <3> DEFINE f == [g \in L |-> workers[g].task]
    <3>1. f \in Surjection(L, W)
      BY DEF Surjection
    <3> HIDE DEF f, L, W
    <3> QED
      BY <1>1, <3>1, FS_Surjection
  <2> HIDE DEF W, L
  <2> QED
    BY <2>1, FS_CardinalityType
<1>3. IsFiniteSet(Running) /\ Cardinality(Running) \in Nat
  BY <1>0, Counters
<1>4. T \subseteq Running \cup W
  BY DEF RunsHoldSlots, Launched
<1>5. IsFiniteSet(Running \cup W) /\ Cardinality(Running \cup W) <= Cardinality(Running) + Cardinality(W)
  <2>1. /\ IsFiniteSet(Running \cup W) /\ IsFiniteSet(Running \cap W)
        /\ Cardinality(Running \cup W) = Cardinality(Running) + Cardinality(W) - Cardinality(Running \cap W)
    BY <1>2, <1>3, FS_Union, FS_Intersection
  <2>2. Cardinality(Running \cap W) \in Nat
    BY <2>1, FS_CardinalityType
  <2> HIDE DEF W
  <2> QED
    BY <1>2, <1>3, <2>1, <2>2
<1>6. IsFiniteSet(T) /\ Cardinality(T) <= Cardinality(Running \cup W) /\ Cardinality(T) \in Nat
  BY <1>4, <1>5, FS_Subset, FS_CardinalityType
<1>7. IsFiniteSet(runs) /\ Cardinality(runs) <= Cardinality(T)
  <2> DEFINE f == [r \in runs |-> r.task]
  <2>1. f \in Injection(runs, T)
    BY DEF Injection, IsInjective, RunsHoldSlots
  <2> HIDE DEF f, T
  <2> QED
    BY <1>6, <2>1, FS_Injection
<1>8. Cardinality(L) + Cardinality(WorkersAt({"inc"})) <= Cardinality(WaveBudget)
  <2> DEFINE I == WorkersAt({"inc"})
  <2>1. L \cup I \subseteq WaveBudget /\ L \cap I = {} /\ IsFiniteSet(I)
    <3>1. I \subseteq WaveIds
      BY <1>0, Whose DEF WorkersAt
    <3>2. IsFiniteSet(I)
      BY <1>0, Counters
    <3> QED
      BY <3>1, <3>2 DEF WaveBudget, WillCount, WorkersAt
  <2>2. IsFiniteSet(WaveBudget) /\ Cardinality(WaveBudget) \in Nat
    BY <1>0, Counters
  <2> HIDE DEF L, I
  <2>3. Cardinality(L \cup I) <= Cardinality(WaveBudget)
    BY <2>1, <2>2, FS_Subset
  <2>4. Cardinality(L \cup I) = Cardinality(L) + Cardinality(I)
    <3>1. Cardinality(L \cap I) = 0
      BY <2>1, FS_EmptySet
    <3>2. Cardinality(L \cup I) = Cardinality(L) + Cardinality(I) - Cardinality(L \cap I)
      BY <1>1, <2>1, FS_Union
    <3>3. Cardinality(I) \in Nat
      BY <2>1, FS_CardinalityType
    <3> QED
      BY <1>1, <3>1, <3>2, <3>3
  <2> QED
    BY <2>3, <2>4 DEF I
<1>9. Cardinality(Running) + Cardinality(L) <= TaskLimit
  <2> HIDE DEF L
  <2> QED
    BY <1>0, <1>1, <1>8, Counters
<1>10. Cardinality(runs) \in Nat
  BY <1>7, FS_CardinalityType
<1>11. Cardinality(Running \cup W) \in Nat
  BY <1>5, FS_CardinalityType
<1>12. TaskLimit \in Nat
  BY SchedulerAssumption
<1> HIDE DEF L, W, T
<1>13. Cardinality(Running \cup W) <= TaskLimit
  BY <1>1, <1>2, <1>3, <1>5, <1>9, <1>11, <1>12
<1> QED
  BY <1>6, <1>7, <1>10, <1>11, <1>12, <1>13

LEMMA ExecutingFollows == PollInvariant /\ RunsHoldSlots => ExecutingWithinLimit
<1> SUFFICES ASSUME PollInvariant, RunsHoldSlots PROVE ExecutingWithinLimit
  OBVIOUS
<1> DEFINE R == {r \in runs : r.pc = "run"}
<1>1. IsFiniteSet(runs) /\ Cardinality(runs) <= TaskLimit
  BY SlotsCounted
<1>2. IsFiniteSet(R) /\ Cardinality(R) <= Cardinality(runs)
  BY <1>1, FS_Subset
<1>3. Cardinality(R) \in Nat /\ Cardinality(runs) \in Nat /\ TaskLimit \in Nat
  BY <1>1, <1>2, FS_CardinalityType, SchedulerAssumption
<1>4. Cardinality(R) <= TaskLimit
  <2> HIDE DEF R
  <2> QED
    BY <1>1, <1>2, <1>3
<1> QED
  BY <1>4 DEF ExecutingWithinLimit

\* In poll mode without stops and without timeout, for every TaskLimit: at
\* most TaskLimit functions are executed at a time, the starts of retries and
\* of waves that have not been counted yet included.
THEOREM ExecutingKept ==
  ASSUME PollMode, ~TaskTimeoutOn
  PROVE  Safety => []ExecutingWithinLimit
BY SlotsHold, ExecutingFollows, PTL

-----------------------------------------------------------------------------
(* FailuresExhausted.                                                      *)

\* a step that starts nothing and reports nothing
LEMMA FailuresFrame ==
  ASSUME FailuresExhausted, UNCHANGED <<starts, finshedTask>>,
         \A g \in WorkerIds : \/ workers'[g] = workers[g]
                              \/ GivesUp(workers'[g], starts[workers'[g].task])
  PROVE  FailuresExhausted'
<1>1. \A g \in WorkerIds : GivesUp(workers'[g], starts'[workers'[g].task])
  BY DEF FailuresExhausted
<1>2. FailureIsExhausted'
  BY DEF FailuresExhausted, FailureIsExhausted, Reported
<1> QED
  BY <1>1, <1>2 DEF FailuresExhausted

LEMMA FailuresOne ==
  ASSUME TypeInv, FailuresExhausted, UNCHANGED <<starts, finshedTask>>,
         NEW g \in WorkerIds, NEW w, Become(g, w), GivesUp(w, starts[w.task])
  PROVE  FailuresExhausted'
<1>1. workers'[g] = w /\ \A h \in WorkerIds : h # g => workers'[h] = workers[h]
  BY Types DEF Become
<1> QED
  BY <1>1, FailuresFrame

\* a goroutine at any other place gives up nothing
LEMMA NotGivenUp ==
  ASSUME NEW w, NEW s,
         w.pc \in {"idle", "query", "forget", "ready", "start", "launch", "limit", "store",
                   "inc", "restore", "stop"}
  PROVE  GivesUp(w, s)
BY DEF GivesUp

\* a task with an attempt left is not among those given up
LEMMA FailuresLaunch ==
  ASSUME TypeInv, StartsCounted', FailuresExhausted, NEW g \in WorkerIds, StartLaunch(g)
  PROVE  FailuresExhausted'
<1> DEFINE w == workers[g]
           t == w.task
           v == [w EXCEPT !.pc = IF g \in WaveIds THEN "limit" ELSE "store"]
<1>0. w.pc = "launch" /\ w \in Worker /\ t \in Tasks
  BY Busy DEF StartLaunch, At
<1>1. /\ starts' = [starts EXCEPT ![t] = starts[t] + 1]
      /\ Become(g, v)
      /\ UNCHANGED finshedTask
  BY DEF StartLaunch, Launch, Goto, loopVars, resultVars
<1>2. v.pc \in {"limit", "store"} /\ v.task = t
  BY <1>0 DEF Worker
<1> HIDE DEF v
<1>3. workers'[g] = v /\ \A h \in WorkerIds : h # g => workers'[h] = workers[h]
  BY <1>1, Types DEF Become
<1>4. starts[t] \in Nat /\ MaxFailedAttempts \in Nat /\ starts'[t] = starts[t] + 1
      /\ \A u \in Tasks : u # t => starts'[u] = starts[u]
  BY <1>0, <1>1, Types
<1>5. starts'[t] <= 1 + MaxFailedAttempts
  BY <1>0 DEF StartsCounted
<1>6. starts[t] # 1 + MaxFailedAttempts
  BY <1>4, <1>5
<1>7. ASSUME NEW h \in WorkerIds PROVE GivesUp(workers'[h], starts'[workers'[h].task])
  <2>1. CASE h = g
    BY <1>2, <1>3, <2>1, NotGivenUp
  <2>2. CASE h # g
    <3>1. workers'[h] = workers[h] /\ GivesUp(workers[h], starts[workers[h].task])
      BY <1>3, <2>2 DEF FailuresExhausted
    <3>2. CASE workers[h].task = t
      BY <1>6, <3>1, <3>2 DEF GivesUp
    <3>3. CASE workers[h].task # t
      <4>1. CASE workers[h].pc = "idle"
        BY <3>1, <4>1, NotGivenUp
      <4>2. CASE workers[h].pc # "idle"
        <5>1. workers[h].task \in Tasks
          BY <4>2, Types
        <5> QED
          BY <1>4, <3>1, <3>3, <5>1
      <4> QED
        BY <4>1, <4>2
    <3> QED
      BY <3>2, <3>3
  <2> QED
    BY <2>1, <2>2
<1>8. FailureIsExhausted'
  <2> SUFFICES ASSUME NEW u \in Tasks, Reported(u, "failed")' PROVE starts'[u] = 1 + MaxFailedAttempts
    BY DEF FailureIsExhausted
  <2>1. starts[u] = 1 + MaxFailedAttempts
    BY <1>1 DEF FailuresExhausted, FailureIsExhausted, Reported
  <2> QED
    BY <1>4, <1>6, <2>1
<1> QED
  BY <1>7, <1>8 DEF FailuresExhausted

LEMMA FailuresWorker ==
  ASSUME ~HasPersistencer, TypeInv, Core, StartsCounted, StartsCounted', RunsHoldSlots,
         FailuresExhausted, NEW g \in WorkerIds, WorkerStep(g)
  PROVE  FailuresExhausted'
<1> DEFINE w == workers[g]
           s == starts[w.task]
<1>0. w.pc # "idle"
  BY DEF WorkerStep, StartCheck, StartLaunch, LimitCheck, ToRunning, ToRunningCount,
         ToRunningStore, LeaveRunning, LeaveRunningCount, Finish, StopActuator,
         SpawnExport, FetchOutput, ClearOutput, Persist, At
<1>1. w \in Worker /\ w.task \in Tasks /\ GivesUp(w, s)
  BY <1>0, Busy DEF FailuresExhausted
<1>2. w.pc \notin {"spawn", "output", "clear", "persist"}
  BY <1>1 DEF GivesUp
<1>3. CASE StartCheck(g)
  <2> DEFINE c == [w EXCEPT !.pc = "launch"]
  <2>1. w.pc = "start" /\ g \in WaveIds \cup PollIds
    BY <1>3, Whose DEF StartCheck, At
  <2>2. runningTask[w.task] = "none"
    <3>1. CASE g \in WaveIds
      <4>1. s = 0
        BY <2>1, <3>1 DEF StartsCounted, WaveCounts
      <4> QED
        BY <1>1, <4>1 DEF StartsCounted
    <3>2. CASE g \in PollIds
      <4>1. w.task \in Running /\ g = <<"poll", w.task>>
        BY <2>1, <3>2, PollOf DEF Core, WorkerShape, PollHolds
      <4> QED
        BY <2>1, <4>1 DEF RunsHoldSlots, PollSees
    <3> QED
      BY <2>1, <3>1, <3>2
  <2>3. Become(g, c) /\ UNCHANGED <<starts, finshedTask>>
    BY <1>3, <2>2 DEF StartCheck, StartRefused, actuatorVars, loopVars, resultVars
  <2>4. c.pc = "launch"
    BY <1>1 DEF Worker
  <2> HIDE DEF c
  <2>5. GivesUp(c, starts[c.task])
    BY <2>4, NotGivenUp
  <2> QED
    BY <2>3, <2>5, FailuresOne
<1>4. CASE LimitCheck(g) \/ ToRunning(g)
  <2>1. PICK pc \in {"stop", "store", "restore", "inc"} : Goto(g, pc)
    BY <1>4 DEF LimitCheck, ToRunning
  <2> DEFINE c == [w EXCEPT !.pc = pc]
  <2>2. c.pc = pc /\ Become(g, c) /\ UNCHANGED <<starts, finshedTask>>
    BY <1>1, <1>4, <2>1 DEF Worker, LimitCheck, ToRunning, Goto, actuatorVars, loopVars, resultVars
  <2> HIDE DEF c
  <2>3. GivesUp(c, starts[c.task])
    BY <2>2, NotGivenUp
  <2> QED
    BY <2>2, <2>3, FailuresOne
<1>5. CASE ToRunningCount(g) \/ ToRunningStore(g) \/ StopActuator(g)
  <2>1. Become(g, Idle) /\ UNCHANGED <<starts, finshedTask>>
    BY <1>5 DEF ToRunningCount, ToRunningStore, StopActuator, Clear, actuatorVars, loopVars, resultVars
  <2>2. GivesUp(Idle, starts[Idle.task])
    BY WorkerForms, NotGivenUp
  <2> QED
    BY <2>1, <2>2, FailuresOne
<1>6. CASE LeaveRunning(g) \/ LeaveRunningCount(g)
  <2> DEFINE c == [w EXCEPT !.pc = "dec"]
             f == [w EXCEPT !.pc = "finish"]
  <2>1. w.pc \in {"remove", "dec"}
    BY <1>6 DEF LeaveRunning, LeaveRunningCount, At
  <2>2. w.after = "success" \/ (w.after = "failed" /\ s = 1 + MaxFailedAttempts)
    BY <1>1, <2>1 DEF GivesUp
  <2>3. Left(w) = f
    BY <2>2 DEF Left
  <2>4. Become(g, c) \/ Become(g, f)
    BY <1>6, <2>3 DEF LeaveRunning, LeaveRunningCount
  <2>5. UNCHANGED <<starts, finshedTask>>
    BY <1>6 DEF LeaveRunning, LeaveRunningCount, actuatorVars, loopVars, resultVars
  <2>6. /\ c.pc = "dec" /\ c.task = w.task /\ c.after = w.after
        /\ f.pc = "finish" /\ f.task = w.task /\ f.after = w.after
    BY <1>1 DEF Worker
  <2> HIDE DEF c, f
  <2>7. GivesUp(c, starts[c.task]) /\ GivesUp(f, starts[f.task])
    BY <2>2, <2>6 DEF GivesUp
  <2> QED
    BY <2>4, <2>5, <2>7, FailuresOne
<1>7. CASE Finish(g)
  <2> DEFINE o == IF w.after = "success" THEN "success" ELSE "failed"
  <2>1. w.pc = "finish"
    BY <1>7 DEF Finish, At
  <2>2. w.after = "success" \/ (w.after = "failed" /\ s = 1 + MaxFailedAttempts)
    BY <1>1, <2>1 DEF GivesUp
  <2>3. /\ Become(g, Idle) /\ UNCHANGED starts
        /\ finshedTask' = [finshedTask EXCEPT ![w.task] = Append(finshedTask[w.task], o)]
    BY <1>7, <2>2 DEF Finish, actuatorVars
  <2>4. workers'[g] = Idle /\ \A h \in WorkerIds : h # g => workers'[h] = workers[h]
    BY <2>3, Types DEF Become
  <2>5. ASSUME NEW h \in WorkerIds PROVE GivesUp(workers'[h], starts'[workers'[h].task])
    BY <2>3, <2>4, WorkerForms, NotGivenUp DEF FailuresExhausted
  <2>6. ASSUME NEW t \in Tasks, Reported(t, "failed")' PROVE starts'[t] = 1 + MaxFailedAttempts
    <3>1. CASE t # w.task
      <4>1. finshedTask'[t] = finshedTask[t]
        BY <1>1, <2>3, <3>1, Types
      <4> QED
        BY <2>3, <2>6, <4>1 DEF FailuresExhausted, FailureIsExhausted, Reported
    <3>2. CASE t = w.task
      <4> DEFINE q == finshedTask[t]
      <4>1. q \in Seq({"success", "failed"}) /\ o \in {"success", "failed"}
        BY Types
      <4>2. finshedTask'[t] = Append(q, o)
        BY <1>1, <2>3, <3>2, Types
      <4>3. PICK i \in 1..Len(finshedTask'[t]) : finshedTask'[t][i] = "failed"
        BY <2>6 DEF Reported
      <4>4. /\ Len(Append(q, o)) = Len(q) + 1 /\ Len(q) \in Nat
            /\ Append(q, o)[Len(q) + 1] = o
            /\ \A j \in 1..Len(q) : Append(q, o)[j] = q[j]
        BY <4>1, AppendProperties
      <4>5. CASE i \in 1..Len(q)
        <5>1. q[i] = "failed"
          BY <4>2, <4>3, <4>4, <4>5
        <5>2. Reported(t, "failed")
          BY <4>5, <5>1 DEF Reported
        <5> QED
          BY <2>3, <5>2 DEF FailuresExhausted, FailureIsExhausted
      <4>6. CASE i \notin 1..Len(q)
        <5>1. i = Len(q) + 1
          BY <4>2, <4>3, <4>4, <4>6
        <5>2. o = "failed"
          BY <4>2, <4>3, <4>4, <5>1
        <5> QED
          BY <2>2, <2>3, <3>2, <5>2
      <4> QED
        BY <4>5, <4>6
    <3> QED
      BY <3>1, <3>2
  <2>7. FailureIsExhausted'
    BY <2>6 DEF FailureIsExhausted
  <2> QED
    BY <2>5, <2>7 DEF FailuresExhausted
<1>8. CASE SpawnExport(g) \/ FetchOutput(g) \/ ClearOutput(g) \/ Persist(g)
  BY <1>2, <1>8 DEF SpawnExport, FetchOutput, ClearOutput, Persist, At
<1> QED
  BY <1>3, <1>4, <1>5, <1>6, <1>7, <1>8, FailuresLaunch DEF WorkerStep

LEMMA FailuresPoll ==
  ASSUME ~HasPersistencer, ~TaskTimeoutOn, TypeInv, Core, StartsCounted, FailuresExhausted, PollStep
  PROVE  FailuresExhausted'
<1>0. UNCHANGED <<starts, finshedTask>>
  BY DEF PollStep, PollSnapshot, PollLaunch, PollQuery, PollForget, Forget, actuatorVars,
         loopVars, resultVars
<1>1. CASE PollSnapshot
  <2>1. ASSUME NEW g \in WorkerIds, g \in PollIds, g[2] \in Running
        PROVE  GivesUp(workers'[g], starts[workers'[g].task])
    <3> DEFINE h == Holding("query", g[2], runningTaskMap[g[2]].att)
               v == [h EXCEPT !.late = runningTaskMap[g[2]].late]
    <3>1. workers'[g] = v
      BY <1>1, <2>1 DEF PollSnapshot
    <3>2. g[2] \in Tasks /\ "query" \in WorkerPC
      BY <2>1 DEF Running, WorkerPC
    <3>3. h \in Worker /\ h.pc = "query"
      BY <3>2, WorkerForms, Types
    <3> HIDE DEF h
    <3>4. v.pc = "query"
      BY <3>3 DEF Worker
    <3> HIDE DEF v
    <3> QED
      BY <3>1, <3>4, NotGivenUp
  <2>2. \A g \in WorkerIds : ~(g \in PollIds /\ g[2] \in Running) => workers'[g] = workers[g]
    BY <1>1 DEF PollSnapshot
  <2> QED
    BY <1>0, <2>1, <2>2, FailuresFrame
<1>2. CASE PollLaunch
  <2>1. PICK expired \in SUBSET (IF TaskTimeoutOn THEN Tasks ELSE {}) :
          workers' = [g \in WorkerIds |->
                        IF g \in Active(PollIds)
                        THEN PollBody(workers[g], workers[g].task \in expired)
                        ELSE workers[g]]
    BY <1>2 DEF PollLaunch
  <2>2. ASSUME NEW g \in WorkerIds, g \in Active(PollIds)
        PROVE  GivesUp(workers'[g], starts[workers'[g].task])
    <3> DEFINE w == workers[g]
               t == w.task
    <3>1. w.pc = "ready" /\ w \in Worker /\ t \in Tasks
      BY <1>2, <2>2, Busy DEF PollLaunch, At, Active
    <3>2. t \in Running /\ g = <<"poll", t>>
      BY <2>2, <3>1, PollOf DEF Core, WorkerShape, PollHolds, Active
    <3>3. starts[t] = w.att + 1
      BY <3>1, <3>2 DEF StartsCounted, PollCounts
    <3>4. w.att \in Nat /\ w.att <= MaxFailedAttempts /\ MaxFailedAttempts \in Nat
      BY Types
    <3>5. workers'[g] = PollBody(w, t \in expired) /\ t \notin expired
      BY <2>1, <2>2
    <3>6. workers'[g] \in {Idle, Retry(w), Export(w)}
      BY <3>5 DEF PollBody
    <3>7. GivesUp(Idle, starts[Idle.task])
      BY WorkerForms, NotGivenUp
    <3>8. GivesUp(Export(w), starts[Export(w).task])
      <4>1. Export(w).pc = "remove" /\ Export(w).after = "success"
        BY <3>1, OutcomeForms DEF Export, Leaving, Holding, Idle
      <4> QED
        BY <4>1 DEF GivesUp
    <3>9. GivesUp(Retry(w), starts[Retry(w).task])
      <4>1. CASE w.att < MaxFailedAttempts
        <5>1. Retry(w).pc = "start"
          BY <4>1 DEF Retry, Holding, Idle
        <5> QED
          BY <5>1, NotGivenUp
      <4>2. CASE ~(w.att < MaxFailedAttempts)
        <5>1. Retry(w).pc = "remove" /\ Retry(w).after = "failed" /\ Retry(w).task = t
          BY <3>1, <4>2, OutcomeForms DEF Retry, Leaving, Holding, Idle
        <5>2. starts[t] = 1 + MaxFailedAttempts
          BY <3>3, <3>4, <4>2
        <5> QED
          BY <5>1, <5>2 DEF GivesUp
      <4> QED
        BY <4>1, <4>2
    <3> QED
      BY <3>6, <3>7, <3>8, <3>9
  <2>3. \A g \in WorkerIds : g \notin Active(PollIds) => workers'[g] = workers[g]
    BY <2>1
  <2> QED
    BY <1>0, <2>2, <2>3, FailuresFrame
<1>3. ASSUME NEW g \in PollIds, PollQuery(g) \/ PollForget(g) PROVE FailuresExhausted'
  <2> DEFINE w == workers[g]
  <2>1. g \in WorkerIds /\ w \in Worker
    BY <1>3, Busy, Kinds
  <2>2. PICK v : Become(g, v) /\ v.pc \in {"forget", "ready"}
    <3>1. CASE PollQuery(g)
      <4> DEFINE v == [w EXCEPT !.st = AsyncStatus(w.task),
                         !.pc = IF runningTask[w.task] \in {"success", "failed"} THEN "forget" ELSE "ready"]
      <4>1. Become(g, v) /\ v.pc \in {"forget", "ready"}
        BY <2>1, <3>1 DEF PollQuery, Worker
      <4> HIDE DEF v
      <4> QED
        BY <4>1
    <3>2. CASE PollForget(g)
      <4> DEFINE v == [w EXCEPT !.pc = "ready"]
      <4>1. Become(g, v) /\ v.pc = "ready"
        BY <2>1, <3>2 DEF PollForget, Goto, Worker
      <4> HIDE DEF v
      <4> QED
        BY <4>1
    <3> QED
      BY <1>3, <3>1, <3>2
  <2>3. GivesUp(v, starts[v.task])
    BY <2>2, NotGivenUp
  <2> QED
    BY <1>0, <2>1, <2>2, <2>3, FailuresOne
<1> QED
  BY <1>1, <1>2, <1>3 DEF PollStep

LEMMA FailuresSched ==
  ASSUME TypeInv, Core, FailuresExhausted, SchedStep
  PROVE  FailuresExhausted'
<1>0. UNCHANGED <<starts, finshedTask>>
  BY DEF SchedStep, SchedCount, SchedPop, SchedMark, SchedLaunch, SchedDone, actuatorVars, resultVars
<1>1. ASSUME NEW g \in WorkerIds
      PROVE  workers'[g] = workers[g] \/ workers'[g].pc \in {"ready", "start"}
  <2>1. CASE SchedCount \/ SchedPop \/ SchedDone
    BY <2>1 DEF SchedCount, SchedPop, SchedDone
  <2>2. CASE SchedMark
    <3> DEFINE h == Holding("ready", sched.task, 0)
    <3>1. UNCHANGED workers \/ \E i \in 1..MaxWave : Become(<<"sched", i>>, h)
      BY <2>2 DEF SchedMark
    <3>2. h.pc = "ready"
      BY DEF Holding, Idle
    <3> HIDE DEF h
    <3>3. workers'[g] = workers[g] \/ workers'[g] = h
      BY <3>1, Types DEF Become
    <3> QED
      BY <3>2, <3>3
  <2>3. CASE SchedLaunch
    <3> DEFINE v == [workers[g] EXCEPT !.pc = "start"]
    <3>1. v.pc = "start"
      BY Types DEF Worker
    <3>2. workers'[g] = workers[g] \/ workers'[g] = v
      BY <2>3 DEF SchedLaunch
    <3> HIDE DEF v
    <3> QED
      BY <3>1, <3>2
  <2> QED
    BY <2>1, <2>2, <2>3 DEF SchedStep
<1>2. \A g \in WorkerIds : workers'[g] = workers[g] \/ GivesUp(workers'[g], starts[workers'[g].task])
  BY <1>1, NotGivenUp
<1> QED
  BY <1>0, <1>2, FailuresFrame

LEMMA FailuresInit == Init => FailuresExhausted
<1> SUFFICES ASSUME Init PROVE FailuresExhausted
  OBVIOUS
<1>1. \A g \in WorkerIds : workers[g].pc = "idle"
  BY WorkerForms DEF Init
<1>2. \A t \in Tasks : finshedTask[t] = <<>>
  BY DEF Init
<1>3. FailureIsExhausted
  BY <1>2 DEF FailureIsExhausted, Reported
<1> QED
  BY <1>1, <1>3, NotGivenUp DEF FailuresExhausted

LEMMA FailuresStep ==
  /\ PollMode /\ ~TaskTimeoutOn /\ ~HasPersistencer
  /\ PollInvariant /\ StartsCounted /\ RunsHoldSlots /\ FailuresExhausted /\ [Next]_vars
  => FailuresExhausted'
<1> SUFFICES ASSUME PollMode, ~TaskTimeoutOn, ~HasPersistencer, PollInvariant, StartsCounted,
                    RunsHoldSlots, FailuresExhausted, [Next]_vars
             PROVE  FailuresExhausted'
  OBVIOUS
<1>0. TypeInv /\ Core /\ NoCallbacks /\ StartsCounted'
  BY PollParts, CountedStep
<1>1. ASSUME UNCHANGED <<starts, finshedTask, workers>> PROVE FailuresExhausted'
  BY <1>1, FailuresFrame
<1>2. ASSUME NEW t \in Tasks, ClientStep(t) \/ Deadline(t) PROVE FailuresExhausted'
  <2>1. UNCHANGED <<starts, finshedTask, workers>>
    BY <1>2 DEF ClientStep, AddTaskMark, AddTaskPush, AddTaskTimeout, StopTaskMap, StopTaskDec,
                StopTaskActuator, Clear, Deadline, actuatorVars, schedulerVars, loopVars, resultVars
  <2> QED
    BY <1>1, <2>1
<1>3. CASE CallbackStep
  BY <1>0, <1>1, <1>3 DEF CallbackStep, CallbackDrop, CallbackHandle, ProcessedExpire, NoCallbacks,
                          actuatorVars
<1>4. CASE ActuatorStep
  BY <1>1, <1>4 DEF ActuatorStep, RunStep, RunReturn, RunSave, RunPublish, RunCallback,
                    schedulerVars, loopVars, resultVars
<1>5. CASE UNCHANGED vars
  BY <1>1, <1>5 DEF vars, actuatorVars, schedulerVars, loopVars, resultVars
<1> QED
  BY <1>0, <1>2, <1>3, <1>4, <1>5, FailuresWorker, FailuresPoll, FailuresSched DEF Next

\* In poll mode without stops, timeout and persistencer: a task is reported as
\* failed only after its function was started 1 + MaxFailedAttempts times, so
\* neither a start that is refused nor a status read too early ends it before.
THEOREM FailedOnlyWhenExhausted ==
  ASSUME PollMode, ~TaskTimeoutOn, ~HasPersistencer
  PROVE  Safety => []FailureIsExhausted
<1>1. Init => PollInvariant /\ StartsCounted /\ RunsHoldSlots /\ FailuresExhausted
  BY PollInit, CountedInit, SlotsInit, FailuresInit
<1>2. PollInvariant /\ StartsCounted /\ RunsHoldSlots /\ FailuresExhausted /\ [Next]_vars
        => (PollInvariant /\ StartsCounted /\ RunsHoldSlots /\ FailuresExhausted)'
  BY PollStepKeeps, CountedStep, SlotsStep, FailuresStep
<1>3. FailuresExhausted => FailureIsExhausted
  BY DEF FailuresExhausted
<1> QED
  BY <1>1, <1>2, <1>3, PTL DEF Safety

-----------------------------------------------------------------------------
(* The scheduler implements TaskLifecycle.                                 *)

\* the goroutines of a wave, before they have stored their task, and the tasks
Starters == {g \in WaveIds : workers[g].pc \in Starting}
StarterTasks == {workers[g].task : g \in Starters}

\* a step leaves the task u on its side: holding a slot, leaving, or neither
SameSide(u) ==
  /\ u \in HoldingTasks' <=> u \in HoldingTasks
  /\ u \in LeavingTasks' <=> u \in LeavingTasks

LEMMA SidesAre ==
  \A t \in Tasks :
    /\ t \in HoldingTasks <=> \/ t \in Running
                              \/ sched.task = t
                              \/ \E g \in WaveIds : workers[g].task = t /\ workers[g].pc \in Starting
    /\ t \in LeavingTasks <=> /\ t \notin HoldingTasks
                              /\ \E g \in WorkerIds : workers[g].task = t /\ workers[g].pc \in Ending
BY Kinds DEF HoldingTasks, LeavingTasks, WorkersOn, WorkersAt

LEMMA SidesAreNext ==
  (\A t \in Tasks :
    /\ t \in HoldingTasks <=> \/ t \in Running
                              \/ sched.task = t
                              \/ \E g \in WaveIds : workers[g].task = t /\ workers[g].pc \in Starting
    /\ t \in LeavingTasks <=> /\ t \notin HoldingTasks
                              /\ \E g \in WorkerIds : workers[g].task = t /\ workers[g].pc \in Ending)'
BY SidesAre, PTL

\* who holds a slot, who leaves, and who does neither
LEMMA Sides ==
  Core => \A t \in Tasks :
    /\ t \in Running \/ (\E g \in WaveIds : workers[g].task = t /\ workers[g].pc \in Starting)
         => t \in HoldingTasks /\ t \notin LeavingTasks
    /\ t \notin Running /\ (\E g \in WorkerIds : workers[g].task = t /\ workers[g].pc \in Ending)
         => t \notin HoldingTasks /\ t \in LeavingTasks
    /\ client[t].pc # "active" \/ Waits(t) \/ finshedTask[t] # <<>>
         => t \notin HoldingTasks /\ t \notin LeavingTasks
<1> SUFFICES ASSUME Core, NEW t \in Tasks
             PROVE  /\ t \in Running
                         \/ (\E g \in WaveIds : workers[g].task = t /\ workers[g].pc \in Starting)
                         => t \in HoldingTasks /\ t \notin LeavingTasks
                    /\ t \notin Running
                         /\ (\E g \in WorkerIds : workers[g].task = t /\ workers[g].pc \in Ending)
                         => t \notin HoldingTasks /\ t \in LeavingTasks
                    /\ client[t].pc # "active" \/ Waits(t) \/ finshedTask[t] # <<>>
                         => t \notin HoldingTasks /\ t \notin LeavingTasks
  OBVIOUS
<1>1. ASSUME t \in Running
               \/ (\E g \in WaveIds : workers[g].task = t /\ workers[g].pc \in Starting)
      PROVE  t \in HoldingTasks /\ t \notin LeavingTasks
  BY <1>1, SidesAre
<1>2. ASSUME t \notin Running, NEW g \in WorkerIds, workers[g].task = t, workers[g].pc \in Ending
      PROVE  t \notin HoldingTasks /\ t \in LeavingTasks
  <2>1. /\ sched.task # t
        /\ \A h \in WaveIds : ~(workers[h].task = t /\ workers[h].pc \in Starting)
    <3>1. CASE g \in PollIds
      <4>1. workers[g].pc \in PollEnds /\ g = <<"poll", t>>
        <5>1. g = <<"poll", t>> /\ g[2] = t
          BY <1>2, <3>1, PollOf DEF Ending
        <5>2. workers[g].pc \in PollPC /\ workers[g].pc \notin PollHolds
          BY <1>2, <3>1, <5>1 DEF Core, WorkerShape
        <5> QED
          BY <1>2, <5>1, <5>2 DEF PollPC, Ending
      <4> QED
        BY <4>1, EndsApart DEF Fresh, Starting, Loose
    <3>2. CASE g \in WaveIds \cup ExportIds
      <4>1. workers[g].pc \notin Loose
        BY <1>2 DEF Ending, Loose
      <4> QED
        BY <1>2, <3>2, <4>1, Exclusive DEF Fresh, Starting, Ending, Loose
    <3> QED
      BY <1>2, <3>1, <3>2, Whose DEF Ending
  <2> QED
    BY <1>2, <2>1, SidesAre
<1>3. ASSUME client[t].pc # "active" \/ Waits(t) \/ finshedTask[t] # <<>>
      PROVE  t \notin HoldingTasks /\ t \notin LeavingTasks
  <2>1. /\ \A p, q \in Place[t] : p = q
        /\ finshedTask[t] # <<>> => Place[t] = {}
    BY DEF Core, OnePlace, ReportedOnce
  <2>2. \/ Outside \in Place[t]
        \/ Queue \in Place[t]
        \/ Place[t] = {}
    BY <1>3, <2>1, AtPlace
  <2>3. /\ Hand \notin Place[t] /\ Slot \notin Place[t]
        /\ \A g \in WaveIds \cup ExportIds : g \notin Place[t]
    BY <2>1, <2>2, Places
  <2>4. /\ t \notin Running /\ sched.task # t /\ workers[<<"poll", t>>].pc \notin PollEnds
        /\ \A g \in WaveIds \cup ExportIds : workers[g].task = t => workers[g].pc \in Loose
    BY <2>3, AtPlace
  <2>5. ASSUME NEW g \in WorkerIds, workers[g].task = t PROVE workers[g].pc \notin Ending
    <3>1. CASE g \in PollIds
      <4>1. workers[g].pc # "idle" => g = <<"poll", t>> /\ g[2] = t
        BY <2>5, <3>1, PollOf
      <4>2. workers[g].pc # "idle" => workers[g].pc \in {"idle", "stop"}
        BY <2>4, <3>1, <4>1 DEF Core, WorkerShape, PollPC
      <4> QED
        BY <4>2 DEF Ending
    <3>2. CASE g \in WaveIds \cup ExportIds
      BY <2>4, <2>5, <3>2 DEF Loose, Ending
    <3> QED
      BY <3>1, <3>2, Whose DEF Ending
  <2>6. \A h \in WaveIds : ~(workers[h].task = t /\ workers[h].pc \in Starting)
    BY <2>4 DEF Loose, Starting
  <2> QED
    BY <2>4, <2>5, <2>6, SidesAre
<1> QED
  BY <1>1, <1>2, <1>3

LEMMA SidesNext ==
  Core' => (\A t \in Tasks :
    /\ t \in Running \/ (\E g \in WaveIds : workers[g].task = t /\ workers[g].pc \in Starting)
         => t \in HoldingTasks /\ t \notin LeavingTasks
    /\ t \notin Running /\ (\E g \in WorkerIds : workers[g].task = t /\ workers[g].pc \in Ending)
         => t \notin HoldingTasks /\ t \in LeavingTasks
    /\ client[t].pc # "active" \/ Waits(t) \/ finshedTask[t] # <<>>
         => t \notin HoldingTasks /\ t \notin LeavingTasks)'
BY Sides, PTL

\* the task u, of which no goroutine of a wave takes or leaves hold, and none
\* begins or ceases to end it
LEMMA SidesFrame ==
  ASSUME NEW u \in Tasks, u \in Running' <=> u \in Running, sched'.task = u <=> sched.task = u,
         \A g \in WaveIds : workers'[g].task = u /\ workers'[g].pc \in Starting
                            <=> workers[g].task = u /\ workers[g].pc \in Starting,
         \A g \in WorkerIds : workers'[g].task = u /\ workers'[g].pc \in Ending
                              <=> workers[g].task = u /\ workers[g].pc \in Ending
  PROVE  SameSide(u)
BY SidesAre, SidesAreNext DEF SameSide

\* a step of one goroutine, for a task that is not its own or that it neither
\* starts nor ends
LEMMA SidesOther ==
  ASSUME TypeInv, UNCHANGED sched, NEW g \in WorkerIds, NEW v, Become(g, v),
         NEW u \in Tasks, u \in Running' <=> u \in Running,
         workers[g].task = u => workers[g].pc \notin Starting \cup Ending,
         v.pc \notin {"idle", "inc"} => v.task # u
  PROVE  SameSide(u)
<1>1. workers'[g] = v /\ \A h \in WorkerIds : h # g => workers'[h] = workers[h]
  BY Types DEF Become
<1>2. v.task = u => v.pc \notin Starting \cup Ending
  BY DEF Starting, Ending
<1>3. \A h \in WorkerIds : workers'[h].task = u /\ workers'[h].pc \in Starting
                           <=> workers[h].task = u /\ workers[h].pc \in Starting
  BY <1>1, <1>2
<1>4. \A h \in WorkerIds : workers'[h].task = u /\ workers'[h].pc \in Ending
                           <=> workers[h].task = u /\ workers[h].pc \in Ending
  BY <1>1, <1>2
<1> QED
  BY <1>3, <1>4, Kinds, SidesFrame

\* the tasks of the running map hold a slot, whatever their goroutines do
LEMMA SidesRunning ==
  ASSUME TypeInv, Core, Core', UNCHANGED sched, Running' = Running,
         \A g \in WorkerIds :
           \/ workers'[g] = workers[g]
           \/ /\ workers[g].pc # "idle" => workers[g].task \in Running
              /\ workers'[g].pc # "idle" => workers'[g].task \in Running,
         NEW u \in Tasks
  PROVE  SameSide(u)
<1>1. CASE u \in Running
  BY <1>1, Sides, SidesNext DEF SameSide
<1>2. CASE u \notin Running
  <2>1. \A g \in WorkerIds : workers'[g].task = u /\ workers'[g].pc \in Starting
                             <=> workers[g].task = u /\ workers[g].pc \in Starting
    BY <1>2 DEF Starting
  <2>2. \A g \in WorkerIds : workers'[g].task = u /\ workers'[g].pc \in Ending
                             <=> workers[g].task = u /\ workers[g].pc \in Ending
    BY <1>2 DEF Ending
  <2> QED
    BY <2>1, <2>2, Kinds, SidesFrame
<1> QED
  BY <1>1, <1>2

\* a step that keeps every task on its side, and adds, starts and reports nothing
LEMMA LifecycleStutters ==
  ASSUME UNCHANGED <<waitingTasks, starts, succeeded, finshedTask>>, \A u \in Tasks : SameSide(u)
  PROVE  UNCHANGED Lifecycle!vars
<1>1. HoldingTasks' = HoldingTasks /\ LeavingTasks' = LeavingTasks
  BY DEF HoldingTasks, LeavingTasks, SameSide
<1>2. Outcome' = Outcome
  BY DEF Outcome
<1> QED
  BY <1>1, <1>2 DEF Lifecycle!vars

\* the tasks of the running map and of the waves fit into the slots that the
\* scheduling loop has left
LEMMA HoldersCounted ==
  ASSUME TypeInv, Core
  PROVE  /\ IsFiniteSet(Running \cup StarterTasks)
         /\ Cardinality(Running \cup StarterTasks) \in Nat /\ sched.left \in Nat
         /\ Cardinality(Running \cup StarterTasks) + sched.left <= TaskLimit
<1> DEFINE L == Starters
           W == StarterTasks
<1>1. IsFiniteSet(L) /\ Cardinality(L) \in Nat
  BY WorkersFinite, FS_Subset, FS_CardinalityType DEF Starters
<1>2. IsFiniteSet(W) /\ Cardinality(W) <= Cardinality(L) /\ Cardinality(W) \in Nat
  <2>1. IsFiniteSet(W) /\ Cardinality(W) <= Cardinality(L)
    <3> DEFINE f == [g \in L |-> workers[g].task]
    <3>1. f \in Surjection(L, W)
      BY DEF Surjection, StarterTasks
    <3> HIDE DEF f, L, W
    <3> QED
      BY <1>1, <3>1, FS_Surjection
  <2> HIDE DEF W, L
  <2> QED
    BY <2>1, FS_CardinalityType
<1>3. IsFiniteSet(Running) /\ Cardinality(Running) \in Nat
  BY Counters
<1>4. IsFiniteSet(Running \cup W) /\ Cardinality(Running \cup W) <= Cardinality(Running) + Cardinality(W)
  <2> HIDE DEF W
  <2>1. /\ IsFiniteSet(Running \cup W) /\ IsFiniteSet(Running \cap W)
        /\ Cardinality(Running \cup W) = Cardinality(Running) + Cardinality(W) - Cardinality(Running \cap W)
    BY <1>2, <1>3, FS_Union, FS_Intersection
  <2>2. Cardinality(Running \cap W) \in Nat
    BY <2>1, FS_CardinalityType
  <2> QED
    BY <1>2, <1>3, <2>1, <2>2
<1>5. Cardinality(L) + Cardinality(WorkersAt({"inc"})) = Cardinality(WaveBudget)
  <2> DEFINE I == WorkersAt({"inc"})
  <2>1. L \cup I = WaveBudget /\ L \cap I = {}
    <3>1. I \subseteq WaveIds /\ \A g \in WaveIds : g \in WorkerIds
      BY Whose, Kinds DEF WorkersAt
    <3> QED
      BY <3>1 DEF WaveBudget, WillCount, WorkersAt, Starters, Starting
  <2>2. IsFiniteSet(I) /\ Cardinality(I) \in Nat
    BY Counters, FS_CardinalityType
  <2> HIDE DEF L, I
  <2>3. Cardinality(L \cap I) = 0
    BY <2>1, FS_EmptySet
  <2>4. Cardinality(L \cup I) = Cardinality(L) + Cardinality(I) - Cardinality(L \cap I)
    BY <1>1, <2>2, FS_Union
  <2>5. Cardinality(L \cup I) = Cardinality(L) + Cardinality(I)
    BY <1>1, <2>2, <2>3, <2>4
  <2> QED
    BY <2>1, <2>5 DEF I
<1>6. Cardinality(Running) + Cardinality(L) + sched.left <= TaskLimit
  <2> HIDE DEF L
  <2> QED
    BY <1>1, <1>5, Counters
<1>7. Cardinality(Running \cup W) \in Nat /\ sched.left \in Nat /\ TaskLimit \in Nat
  BY <1>4, FS_CardinalityType, Counters
<1> HIDE DEF L, W
<1>8. Cardinality(Running \cup W) + sched.left <= TaskLimit
  BY <1>1, <1>2, <1>3, <1>4, <1>6, <1>7
<1> QED
  BY <1>4, <1>7, <1>8 DEF W

-----------------------------------------------------------------------------
(* Every step of the scheduler is a step of TaskLifecycle, or a stutter.   *)

LEMMA ClientRefines ==
  ASSUME PollMode, TypeInv, Core, NEW t \in Tasks, ClientStep(t)
  PROVE  Lifecycle!Next \/ UNCHANGED Lifecycle!vars
<1>0. client[t].pc \in {"out", "push", "active"} /\ client[t].stops = 0 /\ MaxStops = 0
  BY DEF Core, ClientShape, PollMode
<1>1. AddTaskMark(t) \/ AddTaskPush(t) \/ AddTaskTimeout(t)
  BY <1>0 DEF ClientStep, StopTaskMap, StopTaskDec, StopTaskActuator
<1>2. UNCHANGED <<starts, succeeded, finshedTask, workers, sched, runningTaskMap>>
  BY <1>1 DEF AddTaskMark, AddTaskPush, AddTaskTimeout, TakeStopMark, Push, containerVars,
              actuatorVars, resultVars
<1>3. Running' = Running
  BY <1>2 DEF Running
<1>4. \A u \in Tasks : SameSide(u)
  BY <1>2, <1>3, SidesFrame
<1>5. CASE UNCHANGED waitingTasks
  BY <1>2, <1>4, <1>5, LifecycleStutters
<1>6. CASE AddTaskPush(t)
  <2>1. client[t].pc # "active" /\ waitingTasks' = Append(waitingTasks, t)
    BY <1>6 DEF AddTaskPush, Push
  <2>2. t \notin HoldingTasks /\ t \notin LeavingTasks
    BY <2>1, Sides
  <2>3. finshedTask[t] = <<>> /\ ~Waits(t)
    <3>1. Outside \in Place[t]
      BY <2>1, AtPlace
    <3> QED
      BY <3>1, AtPlace, Places DEF Core, OnePlace, ReportedOnce
  <2>4. Lifecycle!New(t)
    BY <2>2, <2>3 DEF Lifecycle!New, Outcome, Waits
  <2>5. HoldingTasks' = HoldingTasks /\ LeavingTasks' = LeavingTasks /\ Outcome' = Outcome
    BY <1>2, <1>4 DEF HoldingTasks, LeavingTasks, SameSide, Outcome
  <2>6. Lifecycle!Submit(t)
    BY <1>2, <2>1, <2>4, <2>5 DEF Lifecycle!Submit
  <2> QED
    BY <2>6 DEF Lifecycle!Next
<1> QED
  BY <1>1, <1>5, <1>6 DEF AddTaskMark, AddTaskTimeout, TakeStopMark, containerVars

LEMMA SameCardinality == \A S : Lifecycle!Cardinality(S) = Cardinality(S)
BY DEF Lifecycle!Cardinality, Cardinality

\* the task in the hand of the scheduling loop holds a slot
LEMMA PopRefines ==
  ASSUME TypeInv, Core, Core', SchedPop
  PROVE  Lifecycle!Next
<1> DEFINE t == Head(waitingTasks)
<1>1. /\ waitingTasks # <<>> /\ waitingTasks' = Tail(waitingTasks)
      /\ sched.pc = "pop" /\ sched.left > 0 /\ sched'.task = t
      /\ UNCHANGED <<starts, succeeded, finshedTask, workers, runningTaskMap>>
  BY DEF SchedPop, Pop, actuatorVars, resultVars
<1>2. Running' = Running
  BY <1>1 DEF Running
<1>3. sched.task = NoTask /\ NoTask \notin Tasks
  BY <1>1, SchedulerAssumption DEF TypeInv, BusyOK, TypeOK, SchedulerTypeOK, Sched
<1>4. t \in Tasks /\ Waits(t)
  BY <1>1, Types DEF Waits
<1>5. \A u \in Tasks : u # t => SameSide(u)
  BY <1>1, <1>2, <1>3, SidesFrame
<1>6. t \notin HoldingTasks /\ t \notin LeavingTasks
  BY <1>4, Sides
<1>7. t \in HoldingTasks' /\ t \notin LeavingTasks'
  BY <1>1, <1>4, SidesAreNext
<1>8. HoldingTasks' = HoldingTasks \cup {t} /\ LeavingTasks' = LeavingTasks
  BY <1>4, <1>5, <1>6, <1>7 DEF SameSide, HoldingTasks, LeavingTasks
<1>9. Cardinality(HoldingTasks) < TaskLimit
  <2>1. HoldingTasks \subseteq Running \cup StarterTasks
    BY <1>3, SidesAre DEF StarterTasks, Starters, HoldingTasks
  <2>2. /\ IsFiniteSet(Running \cup StarterTasks)
        /\ Cardinality(Running \cup StarterTasks) \in Nat /\ sched.left \in Nat
        /\ Cardinality(Running \cup StarterTasks) + sched.left <= TaskLimit
    BY HoldersCounted
  <2>3. IsFiniteSet(HoldingTasks) /\ Cardinality(HoldingTasks) <= Cardinality(Running \cup StarterTasks)
    BY <2>1, <2>2, FS_Subset
  <2>4. Cardinality(HoldingTasks) \in Nat /\ TaskLimit \in Nat
    BY <2>3, FS_CardinalityType, SchedulerAssumption
  <2> QED
    BY <1>1, <2>2, <2>3, <2>4
<1>10. Outcome' = Outcome
  BY <1>1 DEF Outcome
<1>11. Lifecycle!Admit
  BY <1>1, <1>8, <1>9, <1>10, SameCardinality DEF Lifecycle!Admit
<1> QED
  BY <1>11 DEF Lifecycle!Next

LEMMA SchedRefines ==
  ASSUME TypeInv, Core, Core', StartsCounted, SchedStep
  PROVE  Lifecycle!Next \/ UNCHANGED Lifecycle!vars
<1>0. UNCHANGED <<starts, succeeded, finshedTask, runningTaskMap>>
  BY DEF SchedStep, SchedCount, SchedPop, SchedMark, SchedLaunch, SchedDone, Pop, TakeStopMark,
         containerVars, actuatorVars, resultVars
<1>1. Running' = Running
  BY <1>0 DEF Running
<1>2. CASE SchedCount \/ SchedDone
  <2>1. UNCHANGED <<waitingTasks, workers>> /\ sched'.task = sched.task
    BY <1>2, Types DEF SchedCount, SchedDone, containerVars, Sched
  <2>2. \A u \in Tasks : SameSide(u)
    BY <1>1, <2>1, SidesFrame
  <2> QED
    BY <1>0, <2>1, <2>2, LifecycleStutters
<1>3. CASE SchedMark
  <2> DEFINE t == sched.task
             h == Holding("ready", t, 0)
  <2>1. t \in Tasks /\ t \notin stopedTaskMap
    BY <1>3 DEF SchedMark, TypeInv, TypeOK, SchedulerTypeOK, BusyOK, Sched, StartsCounted
  <2>2. PICK i \in 1..MaxWave : IsFree("sched", i) /\ Become(<<"sched", i>>, h)
    BY <1>3, <2>1 DEF SchedMark
  <2> DEFINE g == <<"sched", i>>
  <2>3. UNCHANGED waitingTasks /\ sched'.task = NoTask /\ NoTask \notin Tasks
    BY <1>3, Types, SchedulerAssumption DEF SchedMark, TakeStopMark, Sched
  <2>4. h.pc = "ready" /\ h.task = t
    BY DEF Holding, Idle
  <2>5. g \in WaveIds /\ g \in WorkerIds /\ workers[g].pc = "idle"
    BY <2>2, Kinds DEF IsFree
  <2> HIDE DEF h, g
  <2>6. workers'[g] = h /\ \A k \in WorkerIds : k # g => workers'[k] = workers[k]
    BY <2>2, <2>5, Types DEF Become, g
  <2>7. SameSide(t)
    <3>1. t \in HoldingTasks /\ t \notin LeavingTasks
      BY <2>1, SidesAre
    <3>2. workers'[g].task = t /\ workers'[g].pc \in Starting
      BY <2>4, <2>6 DEF Starting
    <3>3. t \in HoldingTasks' /\ t \notin LeavingTasks'
      BY <2>1, <2>5, <3>2, SidesNext
    <3> QED
      BY <3>1, <3>3 DEF SameSide
  <2>8. ASSUME NEW u \in Tasks, u # t PROVE SameSide(u)
    <3>1. \A k \in WorkerIds : workers'[k].task = u /\ workers'[k].pc \in Starting
                               <=> workers[k].task = u /\ workers[k].pc \in Starting
      BY <2>4, <2>5, <2>6, <2>8 DEF Starting
    <3>2. \A k \in WorkerIds : workers'[k].task = u /\ workers'[k].pc \in Ending
                               <=> workers[k].task = u /\ workers[k].pc \in Ending
      BY <2>4, <2>5, <2>6, <2>8 DEF Ending
    <3>3. sched'.task = u <=> sched.task = u
      BY <2>3, <2>8
    <3> QED
      BY <1>1, <3>1, <3>2, <3>3, Kinds, SidesFrame
  <2> QED
    BY <1>0, <2>3, <2>7, <2>8, LifecycleStutters
<1>4. CASE SchedLaunch
  <2>1. UNCHANGED waitingTasks /\ sched'.task = sched.task /\ sched.pc = "pop"
    BY <1>4, Types DEF SchedLaunch, containerVars, Sched
  <2>2. ASSUME NEW k \in WorkerIds
        PROVE  \/ workers'[k] = workers[k]
               \/ /\ workers[k].pc = "ready" /\ workers'[k].pc = "start"
                  /\ workers'[k].task = workers[k].task
    <3>1. CASE k \in Active(WaveIds)
      <4> DEFINE v == [workers[k] EXCEPT !.pc = "start"]
      <4>1. workers'[k] = v
        BY <1>4, <3>1, Kinds DEF SchedLaunch
      <4>2. workers[k].pc = "ready" /\ workers[k] \in Worker
        BY <2>1, <3>1, Types, Kinds DEF Core, SchedShape, Active
      <4>3. v.pc = "start" /\ v.task = workers[k].task
        BY <4>2 DEF Worker
      <4> HIDE DEF v
      <4> QED
        BY <4>1, <4>2, <4>3
    <3>2. CASE k \notin Active(WaveIds)
      BY <1>4, <3>2 DEF SchedLaunch
    <3> QED
      BY <3>1, <3>2
  <2>3. ASSUME NEW u \in Tasks PROVE SameSide(u)
    <3>1. \A k \in WorkerIds : workers'[k].task = u /\ workers'[k].pc \in Starting
                               <=> workers[k].task = u /\ workers[k].pc \in Starting
      BY <2>2 DEF Starting
    <3>2. \A k \in WorkerIds : workers'[k].task = u /\ workers'[k].pc \in Ending
                               <=> workers[k].task = u /\ workers[k].pc \in Ending
      BY <2>2 DEF Ending
    <3> QED
      BY <1>1, <2>1, <3>1, <3>2, Kinds, SidesFrame
  <2> QED
    BY <1>0, <2>1, <2>3, LifecycleStutters
<1> QED
  BY <1>2, <1>3, <1>4, PopRefines DEF SchedStep

\* a poll round goes on with tasks that hold a slot
LEMMA PollRefines ==
  ASSUME TypeInv, Core, Core', PollStep
  PROVE  UNCHANGED Lifecycle!vars
<1>0. /\ UNCHANGED <<waitingTasks, starts, succeeded, finshedTask, sched, runningTaskMap>>
      /\ Running' = Running
  BY DEF PollStep, PollSnapshot, PollLaunch, PollQuery, PollForget, Forget, containerVars,
         actuatorVars, loopVars, resultVars, Running
<1>1. ASSUME NEW g \in PollIds, workers[g].pc # "idle"
      PROVE  workers[g].pc \in PollHolds => workers[g].task \in Running
  BY <1>1, PollOf DEF Core, WorkerShape
<1>2. ASSUME NEW g \in PollIds, workers'[g].pc # "idle", workers'[g].pc \in PollHolds
      PROVE  workers'[g].task \in Running
  BY <1>0, <1>2 DEF Core, WorkerShape
<1>3. ASSUME NEW g \in WorkerIds
      PROVE  \/ workers'[g] = workers[g]
             \/ /\ g \in PollIds
                /\ workers[g].pc \in {"idle"} \cup PollHolds
                /\ workers'[g].pc \in {"idle"} \cup PollHolds
  <2>1. CASE PollSnapshot
    <3>1. CASE g \in PollIds /\ g[2] \in Running
      <4> DEFINE h == Holding("query", g[2], runningTaskMap[g[2]].att)
                 v == [h EXCEPT !.late = runningTaskMap[g[2]].late]
      <4>1. g[2] \in Tasks /\ "query" \in WorkerPC
        BY <3>1 DEF Running, WorkerPC
      <4>2. h \in Worker /\ h.pc = "query"
        BY <4>1, WorkerForms, Types
      <4>3. workers'[g] = v
        BY <2>1, <3>1 DEF PollSnapshot
      <4> HIDE DEF h
      <4>4. v.pc = "query"
        BY <4>2 DEF Worker
      <4>5. workers[g].pc = "idle"
        BY <2>1, <3>1 DEF PollSnapshot, Active
      <4> HIDE DEF v
      <4> QED
        BY <3>1, <4>3, <4>4, <4>5 DEF PollHolds
    <3>2. CASE ~(g \in PollIds /\ g[2] \in Running)
      BY <2>1, <3>2 DEF PollSnapshot
    <3> QED
      BY <3>1, <3>2
  <2>2. CASE PollLaunch
    <3>1. CASE g \in Active(PollIds)
      <4> DEFINE w == workers[g]
      <4>1. w.pc = "ready" /\ w \in Worker /\ w.task \in Tasks /\ g \in PollIds
        BY <2>2, <3>1, Busy DEF PollLaunch, At, Active
      <4>2. PICK expired : workers'[g] = PollBody(w, w.task \in expired)
        BY <2>2, <3>1 DEF PollLaunch
      <4>3. workers'[g] \in {Idle, Retry(w), Export(w), Leaving(w, "timeout")}
        BY <4>2 DEF PollBody
      <4>4. workers'[g].pc \in {"idle", "start", "remove"}
        BY <4>1, <4>3, WorkerForms, OutcomeForms
      <4> QED
        BY <4>1, <4>4 DEF PollHolds
    <3>2. CASE g \notin Active(PollIds)
      BY <2>2, <3>2 DEF PollLaunch
    <3> QED
      BY <3>1, <3>2
  <2>3. ASSUME NEW h \in PollIds, PollQuery(h) \/ PollForget(h)
        PROVE  \/ workers'[g] = workers[g]
               \/ /\ g \in PollIds
                  /\ workers[g].pc \in {"idle"} \cup PollHolds
                  /\ workers'[g].pc \in {"idle"} \cup PollHolds
    <3> DEFINE w == workers[h]
    <3>1. h \in WorkerIds /\ w \in Worker /\ w.pc \in {"query", "forget"}
      BY <2>3, Busy, Kinds DEF PollQuery, PollForget, At
    <3>2. PICK v : Become(h, v) /\ v.pc \in {"forget", "ready"}
      <4>1. CASE PollQuery(h)
        <5> DEFINE v == [w EXCEPT !.st = AsyncStatus(w.task),
                           !.pc = IF runningTask[w.task] \in {"success", "failed"} THEN "forget" ELSE "ready"]
        <5>1. Become(h, v) /\ v.pc \in {"forget", "ready"}
          BY <3>1, <4>1 DEF PollQuery, Worker
        <5> HIDE DEF v
        <5> QED
          BY <5>1
      <4>2. CASE PollForget(h)
        <5> DEFINE v == [w EXCEPT !.pc = "ready"]
        <5>1. Become(h, v) /\ v.pc = "ready"
          BY <3>1, <4>2 DEF PollForget, Goto, Worker
        <5> HIDE DEF v
        <5> QED
          BY <5>1
      <4> QED
        BY <2>3, <4>1, <4>2
    <3>3. workers'[h] = v /\ \A k \in WorkerIds : k # h => workers'[k] = workers[k]
      BY <3>1, <3>2, Types DEF Become
    <3> QED
      BY <3>1, <3>2, <3>3 DEF PollHolds
  <2> QED
    BY <2>1, <2>2, <2>3 DEF PollStep
<1>4. \A g \in WorkerIds :
        \/ workers'[g] = workers[g]
        \/ /\ workers[g].pc # "idle" => workers[g].task \in Running
           /\ workers'[g].pc # "idle" => workers'[g].task \in Running
  BY <1>1, <1>2, <1>3
<1>5. \A u \in Tasks : SameSide(u)
  BY <1>0, <1>4, SidesRunning
<1> QED
  BY <1>0, <1>5, LifecycleStutters

\* a step of one goroutine that leaves the running map alone and keeps its task
\* on its side
LEMMA OneRefines ==
  ASSUME TypeInv, NEW g \in WorkerIds, NEW v, Become(g, v),
         UNCHANGED <<waitingTasks, starts, succeeded, finshedTask, sched>>,
         \A u \in Tasks : u # workers[g].task => (u \in Running' <=> u \in Running),
         v.pc # "idle" => v.task = workers[g].task,
         SameSide(workers[g].task)
  PROVE  UNCHANGED Lifecycle!vars
<1>1. \A u \in Tasks : u # workers[g].task => SameSide(u)
  BY SidesOther
<1> QED
  BY <1>1, LifecycleStutters

\* a goroutine that ends its task goes on to end it
LEMMA EndsRefine ==
  ASSUME TypeInv, Core, Core', NEW g \in WorkerIds, NEW v, Become(g, v),
         UNCHANGED <<waitingTasks, starts, succeeded, finshedTask, sched>>, Running' = Running,
         workers[g].task \in Tasks, v.task = workers[g].task, workers[g].task \notin Running,
         workers[g].pc \in Ending, v.pc \in Ending
  PROVE  UNCHANGED Lifecycle!vars
<1> DEFINE t == workers[g].task
<1>1. t \notin HoldingTasks /\ t \in LeavingTasks
  BY Sides
<1>2. workers'[g] = v
  BY Types DEF Become
<1>3. t \notin HoldingTasks' /\ t \in LeavingTasks'
  BY <1>2, SidesNext
<1>4. SameSide(t)
  BY <1>1, <1>3 DEF SameSide
<1> QED
  BY <1>4, OneRefines

\* an attempt
LEMMA LaunchRefines ==
  ASSUME TypeInv, Core, Core', StartsCounted', NEW g \in WorkerIds, StartLaunch(g)
  PROVE  Lifecycle!Next
<1> DEFINE w == workers[g]
           t == w.task
           v == [w EXCEPT !.pc = IF g \in WaveIds THEN "limit" ELSE "store"]
<1>0. w.pc = "launch" /\ w \in Worker /\ t \in Tasks
  BY Busy DEF StartLaunch, At
<1>1. /\ starts' = [starts EXCEPT ![t] = starts[t] + 1]
      /\ Become(g, v)
      /\ UNCHANGED <<waitingTasks, succeeded, finshedTask, sched, runningTaskMap>>
  BY DEF StartLaunch, Launch, Goto, containerVars, loopVars, resultVars
<1>2. Running' = Running
  BY <1>1 DEF Running
<1>3. v.pc \in {"limit", "store"} /\ v.task = t
  BY <1>0 DEF Worker
<1> HIDE DEF v
<1>4. workers'[g] = v
  BY <1>1, Types DEF Become
<1>5. t \in HoldingTasks /\ t \notin LeavingTasks /\ t \in HoldingTasks' /\ t \notin LeavingTasks'
  <2>1. CASE g \in WaveIds
    <3>1. w.pc \in Starting /\ workers'[g].task = t /\ workers'[g].pc \in Starting
      BY <1>0, <1>3, <1>4 DEF Starting
    <3> QED
      BY <1>0, <2>1, <3>1, Sides, SidesNext
  <2>2. CASE g \in PollIds
    <3>1. t \in Running /\ t \in Running'
      BY <1>0, <1>2, <2>2, PollOf DEF Core, WorkerShape, PollHolds
    <3> QED
      BY <1>0, <3>1, Sides, SidesNext
  <2> QED
    BY <1>0, <2>1, <2>2, Whose
<1>6. \A u \in Tasks : u # t => SameSide(u)
  BY <1>1, <1>2, <1>3, SidesOther
<1>7. HoldingTasks' = HoldingTasks /\ LeavingTasks' = LeavingTasks
  BY <1>5, <1>6 DEF SameSide, HoldingTasks, LeavingTasks
<1>8. starts[t] <= MaxFailedAttempts
  <2>1. starts[t] \in Nat /\ MaxFailedAttempts \in Nat /\ starts'[t] = starts[t] + 1
    BY <1>0, <1>1, Types
  <2>2. starts'[t] <= 1 + MaxFailedAttempts
    BY <1>0 DEF StartsCounted
  <2> QED
    BY <2>1, <2>2
<1>9. Outcome' = Outcome
  BY <1>1 DEF Outcome
<1>10. Lifecycle!Start(t)
  BY <1>1, <1>5, <1>7, <1>8, <1>9 DEF Lifecycle!Start
<1> QED
  BY <1>0, <1>10 DEF Lifecycle!Next

\* the slot is given back with the entry of the running map
LEMMA LeaveRefines ==
  ASSUME TypeInv, Core, Core', StartsCounted, NEW g \in WorkerIds, LeaveRunning(g)
  PROVE  Lifecycle!Next \/ UNCHANGED Lifecycle!vars
<1> DEFINE w == workers[g]
           t == w.task
<1>0. w.pc = "remove" /\ w \in Worker /\ t \in Tasks
  BY Busy DEF LeaveRunning, At
<1>1. /\ runningTaskMap' = [runningTaskMap EXCEPT ![t] = Absent]
      /\ UNCHANGED <<waitingTasks, starts, succeeded, finshedTask, sched>>
  BY DEF LeaveRunning, LoadAndDelete, loopVars, actuatorVars, resultVars
<1>2. PICK v \in {Left(w), [w EXCEPT !.pc = "dec"]} : Become(g, v)
  BY DEF LeaveRunning
<1>3. v.pc \in {"dec", "finish", "spawn"} /\ v.task = t
  BY <1>0, LeftForm DEF Worker
<1>4. v.pc \in Ending /\ w.pc \in Ending
  BY <1>0, <1>3 DEF Ending
<1>5. t \notin Running' /\ \A u \in Tasks : u # t => (u \in Running' <=> u \in Running)
  BY <1>0, <1>1, Types DEF Running, Absent
<1>6. workers'[g] = v
  BY <1>2, Types DEF Become
<1>7. t \notin HoldingTasks' /\ t \in LeavingTasks'
  BY <1>0, <1>3, <1>4, <1>5, <1>6, SidesNext
<1>8. CASE t \notin Running
  <2>1. Running' = Running
    BY <1>5, <1>8 DEF Running
  <2> QED
    BY <1>0, <1>1, <1>2, <1>3, <1>4, <1>8, <2>1, EndsRefine
<1>9. CASE t \in Running
  <2>1. t \in HoldingTasks /\ t \notin LeavingTasks
    BY <1>0, <1>9, Sides
  <2>2. \A u \in Tasks : u # t => SameSide(u)
    BY <1>1, <1>2, <1>3, <1>5, SidesOther
  <2>3. HoldingTasks' = HoldingTasks \ {t} /\ LeavingTasks' = LeavingTasks \cup {t}
    BY <1>0, <1>7, <2>1, <2>2 DEF SameSide, HoldingTasks, LeavingTasks
  <2>4. starts[t] > 0
    BY <1>9 DEF StartsCounted
  <2>5. Outcome' = Outcome
    BY <1>1 DEF Outcome
  <2>6. Lifecycle!Release(t)
    BY <1>1, <2>1, <2>3, <2>4, <2>5 DEF Lifecycle!Release
  <2> QED
    BY <1>0, <2>6 DEF Lifecycle!Next
<1> QED
  BY <1>8, <1>9

\* the outcome
LEMMA FinishRefines ==
  ASSUME TypeInv, Core, Core', SuccessSource, NEW g \in WorkerIds, Finish(g)
  PROVE  Lifecycle!Next
<1> DEFINE w == workers[g]
           t == w.task
           o == IF w.after = "success" THEN "success" ELSE "failed"
           s == [w EXCEPT !.pc = "stop"]
<1>0. w.pc = "finish" /\ w \in Worker /\ t \in Tasks /\ w.pc \in Ending
  BY Busy DEF Finish, At, Ending
<1>1. /\ finshedTask' = [finshedTask EXCEPT ![t] = Append(finshedTask[t], o)]
      /\ UNCHANGED <<waitingTasks, starts, succeeded, sched, runningTaskMap>>
  BY DEF Finish, containerVars, actuatorVars
<1>2. PICK v \in {Idle, s} : Become(g, v)
  BY DEF Finish
<1>3. v.pc \in {"idle", "stop"} /\ (v.pc # "idle" => v.task = t)
  <2>1. s.pc = "stop" /\ s.task = t
    BY <1>0 DEF Worker
  <2> HIDE DEF s
  <2> QED
    BY <2>1, WorkerForms
<1>4. Running' = Running
  BY <1>1 DEF Running
<1>5. t \notin Running
  <2>1. CASE g \in PollIds
    BY <1>0, <2>1, PollOf DEF Core, WorkerShape, PollEnds
  <2>2. CASE g \in WaveIds \cup ExportIds
    BY <1>0, <2>2, Exclusive DEF Loose
  <2> QED
    BY <1>0, <2>1, <2>2, Whose
<1>6. t \notin HoldingTasks /\ t \in LeavingTasks
  BY <1>0, <1>5, Sides
<1>7. finshedTask \in [Tasks -> Seq({"success", "failed"})] /\ o \in {"success", "failed"}
  BY Types
<1>8. finshedTask[t] = <<>>
  <2>1. finshedTask[t] # <<>> => t \notin LeavingTasks
    BY <1>0, Sides
  <2> QED
    BY <1>6, <2>1
<1>9. finshedTask'[t] = <<o>> /\ \A u \in Tasks : u # t => finshedTask'[u] = finshedTask[u]
  BY <1>0, <1>1, <1>7, <1>8
<1>10. t \notin HoldingTasks' /\ t \notin LeavingTasks'
  <2>1. finshedTask'[t] # <<>>
    BY <1>9
  <2> QED
    BY <1>0, <2>1, SidesNext
<1>11. \A u \in Tasks : u # t => SameSide(u)
  BY <1>1, <1>2, <1>3, <1>4, SidesOther
<1>12. HoldingTasks' = HoldingTasks /\ LeavingTasks' = LeavingTasks \ {t}
  BY <1>6, <1>10, <1>11 DEF SameSide, HoldingTasks, LeavingTasks
<1>13. o = "success" => t \in succeeded
  BY <1>0 DEF SuccessSource, WorkersTruth, Truthful
<1>14. Outcome' = [Outcome EXCEPT ![t] = o]
  <2> HIDE DEF o, t
  <2>1. Head(<<o>>) = o /\ <<o>> # <<>>
    OBVIOUS
  <2> QED
    BY <1>0, <1>9, <2>1 DEF Outcome
<1>15. Lifecycle!Report(t, o)
  BY <1>1, <1>6, <1>12, <1>13, <1>14 DEF Lifecycle!Report
<1> QED
  BY <1>0, <1>7, <1>15 DEF Lifecycle!Next

\* the goroutine that exports the result takes the task over
LEMMA SpawnRefines ==
  ASSUME TypeInv, Core, Core', NEW g \in WorkerIds, SpawnExport(g)
  PROVE  UNCHANGED Lifecycle!vars
<1> DEFINE w == workers[g]
           t == w.task
           v == Holding("output", t, w.att)
<1>0. w.pc = "spawn" /\ w \in Worker /\ t \in Tasks /\ w.pc \in Ending
  BY Busy DEF SpawnExport, At, Ending
<1>1. /\ UNCHANGED <<waitingTasks, starts, succeeded, finshedTask, sched, runningTaskMap>>
      /\ Running' = Running
  BY DEF SpawnExport, containerVars, actuatorVars, loopVars, resultVars, Running
<1>2. PICK i \in 1..ExportWorkers :
        /\ IsFree("export", i)
        /\ workers' = [workers EXCEPT ![g] = Idle, ![<<"export", i>>] = v]
  BY DEF SpawnExport
<1>3. v.pc = "output" /\ v.task = t /\ v.pc \in Ending /\ v.pc \notin Starting
  BY DEF Holding, Idle, Ending, Starting
<1> HIDE DEF v
<1>4. PICK e \in WorkerIds : e = <<"export", i>> /\ e # g /\ workers[e].pc = "idle"
  BY <1>0, <1>2, Kinds DEF IsFree
<1>5. /\ workers'[g] = Idle /\ workers'[e] = v
      /\ \A h \in WorkerIds : h # g /\ h # e => workers'[h] = workers[h]
  BY <1>2, <1>4, Types
<1>6. t \notin Running
  <2>1. CASE g \in PollIds
    BY <1>0, <2>1, PollOf DEF Core, WorkerShape, PollEnds
  <2>2. CASE g \in WaveIds \cup ExportIds
    BY <1>0, <2>2, Exclusive DEF Loose
  <2> QED
    BY <1>0, <2>1, <2>2, Whose
<1>7. SameSide(t)
  <2>1. t \notin HoldingTasks /\ t \in LeavingTasks
    BY <1>0, <1>6, Sides
  <2>2. workers'[e].task = t /\ workers'[e].pc \in Ending
    BY <1>3, <1>5
  <2>3. t \notin HoldingTasks' /\ t \in LeavingTasks'
    BY <1>0, <1>1, <1>4, <1>6, <2>2, SidesNext
  <2> QED
    BY <2>1, <2>3 DEF SameSide
<1>8. ASSUME NEW u \in Tasks, u # t PROVE SameSide(u)
  <2>1. Idle.pc \notin Starting \cup Ending /\ w.pc \notin Starting
        /\ workers[e].pc \notin Starting \cup Ending
    BY <1>0, <1>4, WorkerForms DEF Starting, Ending
  <2>2. \A k \in WorkerIds : workers'[k].task = u /\ workers'[k].pc \in Starting
                             <=> workers[k].task = u /\ workers[k].pc \in Starting
    BY <1>3, <1>5, <1>8, <2>1
  <2>3. \A k \in WorkerIds : workers'[k].task = u /\ workers'[k].pc \in Ending
                             <=> workers[k].task = u /\ workers[k].pc \in Ending
    BY <1>3, <1>5, <1>8, <2>1
  <2> QED
    BY <1>1, <2>2, <2>3, Kinds, SidesFrame
<1> QED
  BY <1>1, <1>7, <1>8, LifecycleStutters

\* the export: until its outcome is reported the task leaves
LEMMA ExportRefines ==
  ASSUME TypeInv, Core, Core', NEW g \in WorkerIds,
         FetchOutput(g) \/ ClearOutput(g) \/ Persist(g)
  PROVE  UNCHANGED Lifecycle!vars
<1> DEFINE w == workers[g]
           t == w.task
<1>0. w.pc \in {"output", "clear", "persist"} /\ w \in Worker /\ t \in Tasks
  BY Busy DEF FetchOutput, ClearOutput, Persist, At
<1>1. /\ UNCHANGED <<waitingTasks, starts, succeeded, finshedTask, sched, runningTaskMap>>
      /\ Running' = Running
  BY DEF FetchOutput, ClearOutput, Persist, Clear, containerVars, actuatorVars, loopVars,
         resultVars, Running
<1>2. \E v \in {[w EXCEPT !.pc = "clear"], [w EXCEPT !.pc = "persist"],
                Leaving(w, "failed"), Leaving(w, "success")} : Become(g, v)
  BY DEF FetchOutput, ClearOutput, Persist, Goto
<1>3. PICK v : Become(g, v) /\ v.pc \in {"clear", "persist", "remove"} /\ v.task = t
  <2>1. /\ [w EXCEPT !.pc = "clear"].pc = "clear" /\ [w EXCEPT !.pc = "clear"].task = t
        /\ [w EXCEPT !.pc = "persist"].pc = "persist" /\ [w EXCEPT !.pc = "persist"].task = t
    BY <1>0 DEF Worker
  <2>2. /\ Leaving(w, "failed").pc = "remove" /\ Leaving(w, "failed").task = t
        /\ Leaving(w, "success").pc = "remove" /\ Leaving(w, "success").task = t
    BY <1>0, OutcomeForms
  <2> QED
    BY <1>2, <2>1, <2>2
<1>4. g \in ExportIds /\ t \notin Running
  <2>1. g \in ExportIds
    BY <1>0, Whose
  <2> QED
    BY <1>0, <2>1, Exclusive DEF Loose
<1>5. w.pc \in Ending /\ v.pc \in Ending
  BY <1>0, <1>3 DEF Ending
<1> QED
  BY <1>0, <1>1, <1>3, <1>4, <1>5, EndsRefine

LEMMA WorkerRefines ==
  ASSUME TypeInv, Core, Core', StartsCounted, StartsCounted', SuccessSource, NoStartTakenBack,
         NEW g \in WorkerIds, WorkerStep(g)
  PROVE  Lifecycle!Next \/ UNCHANGED Lifecycle!vars
<1> DEFINE w == workers[g]
           t == w.task
<1>0. w.pc # "idle"
  BY DEF WorkerStep, StartCheck, StartLaunch, LimitCheck, ToRunning, ToRunningCount,
         ToRunningStore, LeaveRunning, LeaveRunningCount, Finish, StopActuator,
         SpawnExport, FetchOutput, ClearOutput, Persist, At
<1>1. w \in Worker /\ t \in Tasks
  BY <1>0, Busy
<1>2. ASSUME UNCHANGED <<waitingTasks, starts, succeeded, finshedTask, sched>>, Running' = Running,
             NEW v, Become(g, v), v.pc # "idle" => v.task = t, t \in Running
      PROVE  UNCHANGED Lifecycle!vars
  <2>1. SameSide(t)
    BY <1>1, <1>2, Sides, SidesNext DEF SameSide
  <2> QED
    BY <1>1, <1>2, <2>1, OneRefines
<1>3. ASSUME UNCHANGED <<waitingTasks, starts, succeeded, finshedTask, sched>>, Running' = Running,
             NEW v, Become(g, v), v.task = t, g \in WaveIds,
             w.pc \in Starting, v.pc \in Starting
      PROVE  UNCHANGED Lifecycle!vars
  <2>1. workers'[g] = v
    BY <1>3, Types DEF Become
  <2>2. SameSide(t)
    BY <1>1, <1>3, <2>1, Sides, SidesNext DEF SameSide
  <2> QED
    BY <1>1, <1>3, <2>2, OneRefines
<1>4. CASE StartCheck(g)
  <2> DEFINE c == [w EXCEPT !.pc = "launch"]
             l == Leaving(w, "failed")
  <2>1. /\ Become(g, IF StartRefused(t) THEN l ELSE c) /\ w.pc = "start"
        /\ UNCHANGED <<waitingTasks, starts, succeeded, finshedTask, sched>> /\ Running' = Running
    BY <1>4 DEF StartCheck, At, containerVars, actuatorVars, loopVars, resultVars, Running
  <2>2. c.pc = "launch" /\ c.task = t /\ l.pc = "remove" /\ l.task = t
    BY <1>1, OutcomeForms DEF Worker
  <2> HIDE DEF c, l
  <2>3. CASE g \in WaveIds
    <3>1. starts[t] = 0
      BY <2>1, <2>3 DEF StartsCounted, WaveCounts
    <3>2. ~StartRefused(t)
      BY <1>1, <3>1 DEF StartsCounted, StartRefused
    <3> QED
      BY <1>3, <2>1, <2>2, <2>3, <3>2 DEF Starting
  <2>4. CASE g \in PollIds
    <3>1. t \in Running
      BY <2>1, <2>4, PollOf DEF Core, WorkerShape, PollHolds
    <3>2. PICK v \in {c, l} : Become(g, v)
      BY <2>1
    <3> QED
      BY <1>2, <2>1, <2>2, <3>1, <3>2
  <2> QED
    BY <2>1, <2>3, <2>4, Whose
<1>5. CASE LimitCheck(g)
  <2> DEFINE c == [w EXCEPT !.pc = "store"]
  <2>1. w.pc = "limit" /\ g \in WaveIds /\ runningTaskCount < TaskLimit
    BY <1>5, Whose DEF LimitCheck, At, NoStartTakenBack, WorkersAt
  <2>2. ~(runningTaskCount >= TaskLimit)
    BY <2>1, SchedulerAssumption DEF TypeInv, TypeOK, ContainerTypeOK
  <2>3. /\ Become(g, c)
        /\ UNCHANGED <<waitingTasks, starts, succeeded, finshedTask, sched>> /\ Running' = Running
    BY <1>5, <2>2 DEF LimitCheck, Goto, containerVars, actuatorVars, loopVars, resultVars, Running
  <2>4. c.pc = "store" /\ c.task = t
    BY <1>1 DEF Worker
  <2> HIDE DEF c
  <2> QED
    BY <1>3, <2>1, <2>3, <2>4 DEF Starting
<1>6. CASE ToRunning(g)
  <2>1. PICK pc \in {"restore", "inc"} : Goto(g, pc)
    BY <1>6 DEF ToRunning
  <2> DEFINE v == [w EXCEPT !.pc = pc]
  <2>2. /\ Become(g, v) /\ v.pc = pc /\ v.task = t /\ w.pc = "store"
        /\ UNCHANGED <<waitingTasks, starts, succeeded, finshedTask, sched>>
    BY <1>1, <1>6, <2>1 DEF ToRunning, LoadOrStore, At, Goto, Worker, actuatorVars, loopVars, resultVars
  <2> HIDE DEF v
  <2>3. t \in Running' /\ \A u \in Tasks : u # t => (u \in Running' <=> u \in Running)
    BY <1>1, <1>6, Types DEF ToRunning, LoadOrStore, Running, Present
  <2>4. t \in HoldingTasks /\ t \notin LeavingTasks
    <3>1. CASE g \in WaveIds
      BY <1>1, <2>2, <3>1, Sides DEF Starting
    <3>2. CASE g \in PollIds
      <4>1. t \in Running
        BY <2>2, <3>2, PollOf DEF Core, WorkerShape, PollHolds
      <4> QED
        BY <4>1, Sides, <1>1
    <3> QED
      BY <2>2, <3>1, <3>2, Whose
  <2>5. t \in HoldingTasks' /\ t \notin LeavingTasks'
    BY <1>1, <2>3, SidesNext
  <2>6. SameSide(t)
    BY <2>4, <2>5 DEF SameSide
  <2> QED
    BY <1>1, <2>2, <2>3, <2>6, OneRefines
<1>7. CASE ToRunningCount(g) \/ StopActuator(g)
  <2>1. /\ w.pc \in {"inc", "stop"} /\ Become(g, Idle)
        /\ UNCHANGED <<waitingTasks, starts, succeeded, finshedTask, sched>> /\ Running' = Running
    BY <1>7 DEF ToRunningCount, StopActuator, AddCount, Clear, At, containerVars, actuatorVars,
                loopVars, resultVars, Running
  <2>2. Idle.pc = "idle" /\ w.pc \notin Starting \cup Ending
    BY <2>1, WorkerForms DEF Starting, Ending
  <2>3. \A u \in Tasks : SameSide(u)
    BY <2>1, <2>2, SidesOther
  <2> QED
    BY <2>1, <2>3, LifecycleStutters
<1>8. CASE ToRunningStore(g)
  <2>1. /\ w.pc = "restore" /\ Become(g, Idle) /\ g \in PollIds
        /\ UNCHANGED <<waitingTasks, starts, succeeded, finshedTask, sched>>
    BY <1>8, Whose DEF ToRunningStore, Restore, At, actuatorVars, loopVars, resultVars
  <2>2. t \in Running
    BY <2>1, PollOf DEF Core, WorkerShape, PollHolds
  <2>3. Running' = Running
    BY <1>1, <1>8, <2>2, Types DEF ToRunningStore, Restore, Running, Entry
  <2>4. Idle.pc = "idle"
    BY WorkerForms
  <2> QED
    BY <1>2, <2>1, <2>2, <2>3, <2>4
<1>9. CASE LeaveRunningCount(g)
  <2>1. /\ w.pc = "dec" /\ Become(g, Left(w)) /\ g \in PollIds
        /\ UNCHANGED <<waitingTasks, starts, succeeded, finshedTask, sched>> /\ Running' = Running
    BY <1>9, Whose DEF LeaveRunningCount, AddCount, At, actuatorVars, loopVars, resultVars, Running
  <2>2. t \notin Running
    BY <2>1, PollOf DEF Core, WorkerShape, PollEnds
  <2>3. w.pc \in Ending /\ Left(w).pc \in Ending /\ Left(w).task = t
    BY <1>1, <2>1, LeftForm DEF Ending
  <2> QED
    BY <1>1, <2>1, <2>2, <2>3, EndsRefine
<1> QED
  BY <1>4, <1>5, <1>6, <1>7, <1>8, <1>9, LaunchRefines, LeaveRefines, FinishRefines, SpawnRefines,
     ExportRefines DEF WorkerStep

\* a function returns
LEMMA RunRefines ==
  ASSUME TypeInv, StartsCounted, ActuatorStep
  PROVE  Lifecycle!Next \/ UNCHANGED Lifecycle!vars
<1>0. /\ UNCHANGED <<waitingTasks, starts, finshedTask, sched, workers>> /\ Running' = Running
  BY DEF ActuatorStep, RunStep, RunReturn, RunSave, RunPublish, RunCallback, containerVars,
         schedulerVars, loopVars, resultVars, Running
<1>1. \A u \in Tasks : SameSide(u)
  BY <1>0, SidesFrame
<1>2. PICK r \in runs : RunStep(r)
  BY DEF ActuatorStep
<1>3. r.task \in Tasks /\ starts[r.task] > 0
  BY Types DEF Run, StartsCounted
<1>4. CASE UNCHANGED succeeded
  BY <1>0, <1>1, <1>4, LifecycleStutters
<1>5. CASE succeeded' = succeeded \cup {r.task}
  <2>1. HoldingTasks' = HoldingTasks /\ LeavingTasks' = LeavingTasks /\ Outcome' = Outcome
    BY <1>0, <1>1 DEF HoldingTasks, LeavingTasks, SameSide, Outcome
  <2>2. Lifecycle!Succeed(r.task)
    BY <1>0, <1>3, <1>5, <2>1 DEF Lifecycle!Succeed
  <2> QED
    BY <1>3, <2>2 DEF Lifecycle!Next
<1> QED
  BY <1>2, <1>4, <1>5 DEF RunStep, RunReturn, RunSave, RunPublish, RunCallback

LEMMA LifecycleInit == Init => Lifecycle!Init
<1> SUFFICES ASSUME Init PROVE Lifecycle!Init
  OBVIOUS
<1>1. /\ waitingTasks = <<>> /\ Running = {} /\ sched.task = NoTask /\ NoTask \notin Tasks
      /\ starts = [t \in Tasks |-> 0] /\ succeeded = {}
      /\ \A g \in WorkerIds : workers[g].pc = "idle"
      /\ \A t \in Tasks : finshedTask[t] = <<>>
  BY WorkerForms, SchedulerAssumption DEF Init, ContainerInit, ActuatorInit, Running, Absent
<1>2. HoldingTasks = {}
  BY <1>1, Kinds DEF HoldingTasks, WorkersOn, WorkersAt, Starting
<1>3. LeavingTasks = {}
  BY <1>1 DEF LeavingTasks, WorkersOn, WorkersAt, Ending
<1>4. Outcome = [t \in Tasks |-> "none"]
  BY <1>1 DEF Outcome
<1> QED
  BY <1>1, <1>2, <1>3, <1>4 DEF Lifecycle!Init

LEMMA LifecycleStep ==
  ASSUME PollMode, PollInvariant, PollInvariant', StartsCounted, StartsCounted', SuccessSource,
         [Next]_vars
  PROVE  [Lifecycle!Next]_(Lifecycle!vars)
<1>0. TypeInv /\ Core /\ Core' /\ NoCallbacks /\ NoStartTakenBack
  BY PollParts, LimitFollows DEF PollInvariant, Shape, Core
<1>1. ASSUME UNCHANGED <<waitingTasks, starts, succeeded, finshedTask, sched, workers>>,
             Running' = Running
      PROVE  UNCHANGED Lifecycle!vars
  BY <1>1, SidesFrame, LifecycleStutters
<1>2. ASSUME NEW t \in Tasks, Deadline(t) PROVE UNCHANGED Lifecycle!vars
  <2>1. UNCHANGED <<waitingTasks, starts, succeeded, finshedTask, sched, workers>>
    BY <1>2 DEF Deadline, PassDeadline, actuatorVars, schedulerVars, loopVars, resultVars
  <2>2. Running' = Running
    BY <1>0, <1>2, Types DEF Deadline, PassDeadline, Running, Entry
  <2> QED
    BY <1>1, <2>1, <2>2
<1>3. CASE CallbackStep
  <2>1. UNCHANGED <<waitingTasks, starts, succeeded, finshedTask, sched, workers, runningTaskMap>>
    BY <1>0, <1>3 DEF CallbackStep, CallbackDrop, CallbackHandle, ProcessedExpire, NoCallbacks,
                      containerVars, actuatorVars
  <2> QED
    BY <1>1, <2>1 DEF Running
<1>4. CASE UNCHANGED vars
  BY <1>1, <1>4 DEF vars, containerVars, actuatorVars, schedulerVars, loopVars, resultVars, Running
<1> QED
  BY <1>0, <1>2, <1>3, <1>4, ClientRefines, SchedRefines, PollRefines, WorkerRefines, RunRefines
  DEF Next

\* In poll mode without stops, with or without timeout and persistencer, for
\* every TaskLimit and queue size: the scheduler implements TaskLifecycle.
\* Tasks are served in the order of AddTask, at most TaskLimit hold a slot,
\* only these are started, and each is reported once, after it gave its slot
\* back, as a success only if a call of its function succeeded.
THEOREM ImplementsLifecycle ==
  ASSUME PollMode
  PROVE  Safety => LifecycleSpec
<1> DEFINE I == PollInvariant /\ StartsCounted /\ TypeInv /\ SuccessSource
<1>1. I /\ I' /\ [Next]_vars => [Lifecycle!Next]_(Lifecycle!vars)
  BY LifecycleStep
<1> HIDE DEF I
<1>2. Safety => []I
  BY CountedHolds, SourceHolds, PTL DEF I
<1> QED
  BY <1>1, <1>2, LifecycleInit, PTL DEF Safety, LifecycleSpec, Lifecycle!Spec
=============================================================================
