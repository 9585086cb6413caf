--------------------------- MODULE PollModeProofs ----------------------------
(***************************************************************************)
(* Poll mode without stops, for any set of tasks, limits and sizes: the    *)
(* invariant of TaskSchedulerInvariant is inductive, and what follows.     *)
(***************************************************************************)
EXTENDS TaskSchedulerProofs

-----------------------------------------------------------------------------
(* Goroutines and places are told apart by their kind.                     *)

LEMMA Kinds ==
  /\ WaveIds \subseteq WorkerIds /\ PollIds \subseteq WorkerIds
  /\ CallbackIds \subseteq WorkerIds /\ ExportIds \subseteq WorkerIds
  /\ WorkerIds = WaveIds \cup PollIds \cup CallbackIds \cup ExportIds
  /\ \A g \in WaveIds : g \notin PollIds /\ g \notin CallbackIds /\ g \notin ExportIds
  /\ \A g \in ExportIds : g \notin PollIds /\ g \notin CallbackIds
  /\ \A g \in PollIds : g \notin CallbackIds
  /\ \A g \in PollIds : g[2] \in Tasks /\ g = <<"poll", g[2]>>
  /\ \A t \in Tasks : <<"poll", t>> \in PollIds
  /\ \A i \in 1..ExportWorkers : <<"export", i>> \in ExportIds
  /\ \A i \in 1..MaxWave : <<"sched", i>> \in WaveIds
BY DEF WorkerIds, WaveIds, PollIds, CallbackIds, ExportIds

LEMMA Places ==
  /\ Outside # Queue /\ Outside # Hand /\ Outside # Slot
  /\ Queue # Hand /\ Queue # Slot /\ Hand # Slot
  /\ \A g \in WaveIds \cup ExportIds : g # Outside /\ g # Queue /\ g # Hand /\ g # Slot
<1>1. /\ Outside # Queue /\ Outside # Hand /\ Outside # Slot
      /\ Queue # Hand /\ Queue # Slot /\ Hand # Slot
  BY DEF Outside, Queue, Hand, Slot
<1>2. \A g \in WaveIds \cup ExportIds : g[1] \in {"sched", "export"}
  BY DEF WaveIds, ExportIds
<1>3. /\ Outside[1] = "outside" /\ Queue[1] = "queue"
      /\ Hand[1] = "hand" /\ Slot[1] = "slot"
  BY DEF Outside, Queue, Hand, Slot
<1> QED
  BY <1>1, <1>2, <1>3

\* What it means that a task is at a place.
LEMMA AtPlace ==
  ASSUME NEW t \in Tasks
  PROVE  /\ Outside \in Place[t] <=> client[t].pc # "active"
         /\ Queue \in Place[t] <=> Waits(t)
         /\ Hand \in Place[t] <=> sched.task = t
         /\ Slot \in Place[t] <=> t \in Running \/ workers[<<"poll", t>>].pc \in PollEnds
         /\ \A g \in WaveIds \cup ExportIds :
              g \in Place[t] <=> workers[g].task = t /\ workers[g].pc \notin Loose
         /\ \A p \in Place[t] : p \in {Outside, Queue, Hand, Slot} \cup WaveIds \cup ExportIds
BY Places DEF Place

-----------------------------------------------------------------------------
(* Counting.                                                               *)

LEMMA WorkersFinite == IsFiniteSet(WorkerIds) /\ IsFiniteSet(WaveIds)
<1>1. \A n \in Nat : IsFiniteSet(1..n)
  BY FS_Interval
<1>2. \A x : IsFiniteSet({x})
  BY FS_Singleton
<1>3. \A x, S : IsFiniteSet(S) => IsFiniteSet({x} \X S)
  BY <1>2, FS_Product
<1>4. IsFiniteSet(WaveIds) /\ IsFiniteSet(PollIds)
  BY <1>1, <1>3, SchedulerAssumption, TaskAssumption DEF WaveIds, PollIds
<1>5. IsFiniteSet(CallbackIds) /\ IsFiniteSet(ExportIds)
  BY <1>1, <1>3, SchedulerAssumption DEF CallbackIds, ExportIds
<1>6. IsFiniteSet(WaveIds \cup PollIds)
  BY <1>4, FS_Union
<1>7. IsFiniteSet((WaveIds \cup PollIds) \cup CallbackIds)
  BY <1>5, <1>6, FS_Union
<1>8. IsFiniteSet(((WaveIds \cup PollIds) \cup CallbackIds) \cup ExportIds)
  BY <1>5, <1>7, FS_Union
<1> QED
  BY <1>4, <1>8 DEF WorkerIds

\* Two sets that differ in one element.
LEMMA CardinalityChange ==
  ASSUME NEW A, NEW B, NEW x, IsFiniteSet(A), A \ {x} = B \ {x}
  PROVE  /\ IsFiniteSet(B) /\ Cardinality(A) \in Nat /\ Cardinality(B) \in Nat
         /\ (x \in A <=> x \in B) => Cardinality(B) = Cardinality(A)
         /\ x \in A /\ x \notin B => Cardinality(B) = Cardinality(A) - 1
         /\ x \notin A /\ x \in B => Cardinality(B) = Cardinality(A) + 1
<1>1. Cardinality(A) \in Nat
  BY FS_CardinalityType
<1>2. CASE x \in A <=> x \in B
  <2>1. A = B
    BY <1>2
  <2> QED
    BY <1>1, <1>2, <2>1
<1>3. CASE x \in A /\ x \notin B
  <2>1. B = A \ {x}
    BY <1>3
  <2>2. IsFiniteSet(A \ {x}) /\ Cardinality(A \ {x}) = Cardinality(A) - 1
    BY <1>3, FS_RemoveElement
  <2>3. Cardinality(B) \in Nat
    BY <2>1, <2>2, FS_CardinalityType
  <2> QED
    BY <1>1, <1>3, <2>1, <2>2, <2>3
<1>4. CASE x \notin A /\ x \in B
  <2>1. B = A \cup {x}
    BY <1>4
  <2>2. IsFiniteSet(A \cup {x}) /\ Cardinality(A \cup {x}) = Cardinality(A) + 1
    BY <1>4, FS_AddElement
  <2> QED
    BY <1>1, <1>4, <2>1, <2>2
<1> QED
  BY <1>2, <1>3, <1>4

-----------------------------------------------------------------------------
(* How a step changes what the invariant looks at.                         *)

\* the invariant without the types and the actuator
Core ==
  /\ ClientShape /\ SchedShape /\ WorkerShape
  /\ OnePlace /\ QueuedOnce /\ ReportedOnce
  /\ CountAccounts /\ Budget

\* nothing but the goroutines changes
Same ==
  /\ UNCHANGED <<client, sched, waitingTasks, runningTaskCount, finshedTask>>
  /\ Running' = Running

\* one goroutine goes on, with the task it has or with none
GoesOn(g) ==
  /\ \A h \in WorkerIds : h # g => workers'[h] = workers[h]
  /\ workers'[g].pc # "idle" => workers'[g].task = workers[g].task

\* it neither counts, nor ends a poll round's task, nor takes a task up again
Quiet(g) ==
  /\ Same
  /\ GoesOn(g)
  /\ g \notin CallbackIds
  /\ workers[g].pc \notin {"idle", "inc", "dec"} /\ workers'[g].pc \notin {"inc", "dec"}
  /\ workers'[g].pc \notin Loose => workers[g].pc \notin Loose
  /\ g \in WaveIds => workers'[g].pc \in WavePC /\ workers[g].pc # "ready"
  /\ g \in WaveIds /\ workers'[g].pc \in WillCount => workers[g].pc \in WillCount
  /\ g \in ExportIds => workers'[g].pc \in ExportPC
  /\ g \in PollIds => workers'[g].pc \in {"idle", "stop"} \cup PollHolds
  /\ g \in PollIds /\ workers'[g].pc \in PollHolds => workers[g].pc \in PollHolds

\* Tasks that are at fewer places are still at one at most.
LEMMA FewerPlaces ==
  ASSUME Core, \A t \in Tasks : Place'[t] \subseteq Place[t],
         UNCHANGED <<waitingTasks, finshedTask>>
  PROVE  OnePlace' /\ QueuedOnce' /\ ReportedOnce'
<1>1. OnePlace'
  BY DEF Core, OnePlace
<1>2. QueuedOnce'
  BY DEF Core, QueuedOnce
<1>3. ReportedOnce'
  BY DEF Core, ReportedOnce
<1> QED
  BY <1>1, <1>2, <1>3

\* A task that goes from its place to another one.
LEMMA OtherPlace ==
  ASSUME Core, NEW t \in Tasks, NEW p, Place[t] # {}, Place'[t] \subseteq {p},
         \A u \in Tasks : u # t => Place'[u] \subseteq Place[u],
         UNCHANGED finshedTask
  PROVE  OnePlace' /\ ReportedOnce'
<1>1. OnePlace'
  BY DEF Core, OnePlace
<1>2. ReportedOnce'
  BY DEF Core, ReportedOnce
<1> QED
  BY <1>1, <1>2

\* The count and the slots paid for, while no goroutine begins or ends counting.
LEMMA NothingCounted ==
  ASSUME TypeInv, Core, ClientShape',
         UNCHANGED runningTaskCount, Running' = Running,
         WorkersAt({"inc"})' = WorkersAt({"inc"}), WorkersAt({"dec"})' = WorkersAt({"dec"})
  PROVE  CountAccounts'
<1>1. {t \in Tasks : client[t].pc = "dec"} = {t \in Tasks : client'[t].pc = "dec"}
  BY DEF Core, ClientShape
<1> QED
  BY <1>1 DEF Core, CountAccounts

LEMMA BudgetKept ==
  ASSUME TypeInv, Core, UNCHANGED <<runningTaskCount, sched>>, WaveBudget' \subseteq WaveBudget
  PROVE  Budget'
<1>1. IsFiniteSet(WaveBudget)
  BY WorkersFinite, FS_Subset DEF WaveBudget
<1>2. Cardinality(WaveBudget') <= Cardinality(WaveBudget)
  BY <1>1, FS_Subset
<1>3. Cardinality(WaveBudget') \in Nat /\ Cardinality(WaveBudget) \in Nat
  BY <1>1, FS_Subset, FS_CardinalityType
<1>4. runningTaskCount \in Int /\ sched.left \in Nat /\ TaskLimit \in Nat
  BY SchedulerAssumption DEF TypeInv, TypeOK, ContainerTypeOK, SchedulerTypeOK, Sched
<1> QED
  BY <1>2, <1>3, <1>4 DEF Core, Budget

LEMMA QuietStep ==
  ASSUME TypeInv, TypeInv', Core, NEW g \in WorkerIds, Quiet(g)
  PROVE  Core'
<1>0. /\ UNCHANGED <<client, sched, waitingTasks, runningTaskCount, finshedTask>>
      /\ Running' = Running
      /\ \A h \in WorkerIds : h # g => workers'[h] = workers[h]
  BY DEF Quiet, Same, GoesOn
<1>1. ClientShape'
  BY <1>0 DEF Core, ClientShape
<1>2. WorkerShape'
  <2>1. \A h \in WaveIds : workers'[h].pc \in WavePC
    BY <1>0, Kinds DEF Quiet, Core, WorkerShape
  <2>2. \A h \in CallbackIds : workers'[h].pc = "idle"
    BY <1>0, Kinds DEF Quiet, Core, WorkerShape
  <2>3. \A h \in ExportIds : workers'[h].pc \in ExportPC
    BY <1>0, Kinds DEF Quiet, Core, WorkerShape
  <2>4. ASSUME NEW h \in PollIds
        PROVE  /\ workers'[h].pc \in PollPC
               /\ workers'[h].pc # "idle" => workers'[h].task = h[2]
               /\ workers'[h].pc \in PollHolds => h[2] \in Running
               /\ workers'[h].pc \in PollEnds => h[2] \notin Running
    <3>1. CASE h # g
      BY <1>0, <3>1, Kinds DEF Core, WorkerShape
    <3>2. CASE h = g
      <4>1. /\ workers'[h].pc \in {"idle", "stop"} \cup PollHolds
            /\ workers'[h].pc \in PollHolds => workers[h].pc \in PollHolds
            /\ workers[h].pc # "idle"
            /\ workers'[h].pc # "idle" => workers'[h].task = workers[h].task
        BY <3>2 DEF Quiet, GoesOn
      <4> QED
        BY <4>1 DEF Core, WorkerShape, PollPC, PollHolds, PollEnds
    <3> QED
      BY <3>1, <3>2
  <2> QED
    BY <1>0, <2>1, <2>2, <2>3, <2>4 DEF WorkerShape
<1>3. SchedShape'
  <2>1. CASE g \in WaveIds
    <3>1. sched.pc \notin {"idle", "pop", "mark"}
      BY <2>1 DEF Quiet, Core, SchedShape
    <3> QED
      BY <1>0, <3>1 DEF Core, SchedShape
  <2>2. CASE g \notin WaveIds
    <3>1. \A h \in WaveIds : workers'[h] = workers[h]
      BY <1>0, <2>2, Kinds
    <3> QED
      BY <1>0, <3>1 DEF Core, SchedShape
  <2> QED
    BY <2>1, <2>2
<1>4. ASSUME NEW t \in Tasks PROVE Place'[t] \subseteq Place[t]
  <2>1. Waits(t)' = Waits(t)
    BY <1>0 DEF Waits
  <2>2. workers'[<<"poll", t>>].pc \in PollEnds => workers[<<"poll", t>>].pc \in PollEnds
    BY <1>0, Kinds DEF Quiet, PollEnds, PollHolds
  <2>3. ASSUME NEW h \in WaveIds \cup ExportIds, workers'[h].task = t, workers'[h].pc \notin Loose
        PROVE  workers[h].task = t /\ workers[h].pc \notin Loose
    BY <1>0, <2>3, Kinds DEF Quiet, GoesOn, Loose
  <2> QED
    BY <1>0, <2>1, <2>2, <2>3 DEF Place
<1>5. OnePlace' /\ QueuedOnce' /\ ReportedOnce'
  BY <1>0, <1>4, FewerPlaces
<1>6. CountAccounts'
  <2>1. WorkersAt({"inc"})' = WorkersAt({"inc"})
    BY <1>0 DEF WorkersAt, Quiet
  <2>2. WorkersAt({"dec"})' = WorkersAt({"dec"})
    BY <1>0 DEF WorkersAt, Quiet
  <2> QED
    BY <1>0, <1>1, <2>1, <2>2, NothingCounted
<1>7. Budget'
  <2>1. WaveBudget' \subseteq WaveBudget
    BY <1>0, Kinds DEF WaveBudget, Quiet
  <2> QED
    BY <1>0, <2>1, BudgetKept
<1> QED
  BY <1>1, <1>2, <1>3, <1>5, <1>6, <1>7 DEF Core

\* Nothing the invariant looks at changes.
LEMMA FrameStep ==
  ASSUME Core, Same, UNCHANGED workers
  PROVE  Core'
<1>1. ClientShape' /\ SchedShape' /\ WorkerShape'
  BY DEF Core, Same, ClientShape, SchedShape, WorkerShape
<1>2. \A t \in Tasks : Place'[t] \subseteq Place[t]
  BY DEF Same, Place, Waits
<1>3. OnePlace' /\ QueuedOnce' /\ ReportedOnce'
  BY <1>2, FewerPlaces DEF Same
<1>4. WorkersAt({"inc"})' = WorkersAt({"inc"}) /\ WorkersAt({"dec"})' = WorkersAt({"dec"})
        /\ WaveBudget' = WaveBudget
  BY DEF WorkersAt, WaveBudget
<1>5. CountAccounts' /\ Budget'
  BY <1>4 DEF Core, Same, CountAccounts, Budget
<1> QED
  BY <1>1, <1>3, <1>5 DEF Core

-----------------------------------------------------------------------------
(* The steps of the goroutines.                                            *)

\* the quiet ones, by kind
WaveHops ==
  {<<"start", "launch">>, <<"start", "remove">>, <<"launch", "limit">>, <<"limit", "store">>,
   <<"limit", "stop">>, <<"remove", "finish">>, <<"remove", "spawn">>, <<"stop", "idle">>}
ExportHops ==
  {<<"output", "clear">>, <<"output", "remove">>, <<"clear", "persist">>,
   <<"persist", "remove">>, <<"remove", "finish">>, <<"remove", "spawn">>, <<"stop", "idle">>}
PollHops ==
  {<<"query", "forget">>, <<"query", "ready">>, <<"forget", "ready">>, <<"start", "launch">>,
   <<"start", "remove">>, <<"launch", "store">>, <<"store", "restore">>,
   <<"restore", "idle">>, <<"stop", "idle">>}

LEMMA QuietHop ==
  ASSUME TypeInv, Core, Same, NEW g \in WorkerIds, NEW w, Become(g, w),
         w.pc # "idle" => w.task = workers[g].task,
         \/ g \in WaveIds /\ <<workers[g].pc, w.pc>> \in WaveHops
         \/ g \in ExportIds /\ <<workers[g].pc, w.pc>> \in ExportHops
         \/ g \in PollIds /\ <<workers[g].pc, w.pc>> \in PollHops
  PROVE  Quiet(g)
<1>0. workers'[g] = w /\ \A h \in WorkerIds : h # g => workers'[h] = workers[h]
  BY DEF Become, TypeInv, TypeOK, SchedulerTypeOK
<1>1. GoesOn(g)
  BY <1>0 DEF GoesOn
<1>2. CASE g \in WaveIds /\ <<workers[g].pc, w.pc>> \in WaveHops
  <2>1. g \notin PollIds /\ g \notin CallbackIds /\ g \notin ExportIds
    BY <1>2, Kinds
  <2> QED
    BY <1>0, <1>1, <1>2, <2>1 DEF Quiet, WaveHops, WillCount, Loose, WavePC
<1>3. CASE g \in ExportIds /\ <<workers[g].pc, w.pc>> \in ExportHops
  <2>1. g \notin PollIds /\ g \notin CallbackIds /\ g \notin WaveIds
    BY <1>3, Kinds
  <2> QED
    BY <1>0, <1>1, <1>3, <2>1 DEF Quiet, ExportHops, WillCount, Loose, ExportPC
<1>4. CASE g \in PollIds /\ <<workers[g].pc, w.pc>> \in PollHops
  <2>1. g \notin ExportIds /\ g \notin CallbackIds /\ g \notin WaveIds
    BY <1>4, Kinds
  <2> QED
    BY <1>0, <1>1, <1>4, <2>1 DEF Quiet, PollHops, WillCount, Loose, PollHolds
<1> QED
  BY <1>2, <1>3, <1>4

\* Which goroutines can be where.
LEMMA Whose ==
  ASSUME Core, NEW g \in WorkerIds
  PROVE  /\ workers[g].pc \in {"query", "forget", "restore", "dec"} => g \in PollIds
         /\ workers[g].pc \in {"limit", "inc"} => g \in WaveIds
         /\ workers[g].pc \in {"ready", "start", "launch", "store"} => g \in WaveIds \cup PollIds
         /\ workers[g].pc \in {"output", "clear", "persist"} => g \in ExportIds
         /\ workers[g].pc # "idle" => g \in WaveIds \cup PollIds \cup ExportIds
BY Kinds DEF Core, WorkerShape, WavePC, ExportPC, PollPC, PollHolds, PollEnds

\* A task that a goroutine of a wave or an export holds is not in the running map.
LEMMA HeldApart ==
  ASSUME Core, NEW g \in WaveIds \cup ExportIds, workers[g].pc \notin Loose,
         workers[g].task \in Tasks
  PROVE  /\ g \in Place[workers[g].task]
         /\ workers[g].task \notin Running
         /\ workers[<<"poll", workers[g].task>>].pc \notin PollEnds
<1> DEFINE t == workers[g].task
<1>1. g \in Place[t]
  BY AtPlace
<1>2. Slot \notin Place[t]
  <2>1. g # Slot
    BY Places
  <2> QED
    BY <1>1, <2>1 DEF Core, OnePlace
<1> QED
  BY <1>1, <1>2, AtPlace

LEMMA QuietStarts ==
  ASSUME TypeInv, Core, NEW g \in WorkerIds,
         StartCheck(g) \/ StartLaunch(g) \/ LimitCheck(g)
  PROVE  Quiet(g)
<1> DEFINE w == workers[g]
<1>0. w.pc \in {"start", "launch", "limit"}
  BY DEF StartCheck, StartLaunch, LimitCheck, At
<1>1. w \in Worker /\ w.task \in Tasks
  BY <1>0, Busy
<1>2. Same
  BY DEF StartCheck, StartLaunch, LimitCheck, Same, containerVars, loopVars, resultVars, Running
<1>3. g \in WaveIds \cup PollIds /\ (w.pc = "limit" => g \in WaveIds)
  BY <1>0, Whose
<1>4. g \in PollIds => g \notin WaveIds
  BY Kinds
<1>5. "launch" \in WorkerPC /\ "limit" \in WorkerPC /\ "store" \in WorkerPC /\ "stop" \in WorkerPC
  BY DEF WorkerPC
<1>6. \A pc \in {"launch", "limit", "store", "stop"} :
        [w EXCEPT !.pc = pc].pc = pc /\ [w EXCEPT !.pc = pc].task = w.task
  BY <1>1, <1>5, WorkerForms
<1>7. CASE StartCheck(g)
  <2>1. PICK v \in {Leaving(w, "failed"), [w EXCEPT !.pc = "launch"]} : Become(g, v)
    BY <1>7 DEF StartCheck
  <2> DEFINE l == Leaving(w, "failed")
             c == [w EXCEPT !.pc = "launch"]
  <2>5. l.pc = "remove" /\ l.task = w.task /\ c.pc = "launch" /\ c.task = w.task /\ v \in {l, c}
    BY <1>1, <1>6, OutcomeForms
  <2> HIDE DEF l, c
  <2>2. v.pc \in {"launch", "remove"} /\ v.task = w.task
    BY <2>5
  <2>3. w.pc = "start"
    BY <1>7 DEF StartCheck, At
  <2>4. <<w.pc, v.pc>> \in WaveHops /\ <<w.pc, v.pc>> \in PollHops
    BY <2>2, <2>3 DEF WaveHops, PollHops
  <2> QED
    BY <1>2, <1>3, <2>1, <2>2, <2>4, QuietHop
<1>8. CASE StartLaunch(g)
  <2> DEFINE v == [w EXCEPT !.pc = IF g \in WaveIds THEN "limit" ELSE "store"]
  <2>1. Become(g, v) /\ w.pc = "launch"
    BY <1>8 DEF StartLaunch, Goto, At
  <2>2. v.pc = (IF g \in WaveIds THEN "limit" ELSE "store") /\ v.task = w.task
    BY <1>6
  <2>3. \/ g \in WaveIds /\ <<w.pc, v.pc>> \in WaveHops
        \/ g \in PollIds /\ <<w.pc, v.pc>> \in PollHops
    BY <1>3, <1>4, <2>1, <2>2 DEF WaveHops, PollHops
  <2> HIDE DEF v
  <2> QED
    BY <1>2, <2>1, <2>2, <2>3, QuietHop
<1>9. CASE LimitCheck(g)
  <2>1. PICK pc \in {"stop", "store"} : Become(g, [w EXCEPT !.pc = pc])
    BY <1>9 DEF LimitCheck, Goto
  <2> DEFINE v == [w EXCEPT !.pc = pc]
  <2>2. v.pc = pc /\ v.task = w.task /\ w.pc = "limit"
    BY <1>6, <1>9 DEF LimitCheck, At
  <2>3. <<w.pc, v.pc>> \in WaveHops /\ g \in WaveIds
    BY <1>3, <2>2 DEF WaveHops
  <2>4. Become(g, v)
    BY <2>1
  <2> HIDE DEF v
  <2> QED
    BY <1>2, <2>2, <2>3, <2>4, QuietHop
<1> QED
  BY <1>7, <1>8, <1>9

LEMMA QuietEnds ==
  ASSUME TypeInv, Core, NEW g \in WorkerIds,
         StopActuator(g) \/ FetchOutput(g) \/ ClearOutput(g) \/ Persist(g)
  PROVE  Quiet(g)
<1> DEFINE w == workers[g]
<1>0. w.pc \in {"stop", "output", "clear", "persist"}
  BY DEF StopActuator, FetchOutput, ClearOutput, Persist, At
<1>1. w \in Worker /\ w.task \in Tasks
  BY <1>0, Busy
<1>2. Same
  BY DEF StopActuator, FetchOutput, ClearOutput, Persist, Same, containerVars, loopVars,
         resultVars, Running
<1>3. "clear" \in WorkerPC /\ "persist" \in WorkerPC
  BY DEF WorkerPC
<1>4. \A pc \in {"clear", "persist"} :
        [w EXCEPT !.pc = pc].pc = pc /\ [w EXCEPT !.pc = pc].task = w.task
  BY <1>1, <1>3, WorkerForms
<1>5. CASE StopActuator(g)
  <2>1. Become(g, Idle) /\ w.pc = "stop"
    BY <1>5 DEF StopActuator, At
  <2>2. <<w.pc, Idle.pc>> \in WaveHops \cap ExportHops \cap PollHops
    BY <2>1, WorkerForms DEF WaveHops, ExportHops, PollHops
  <2>3. g \in WaveIds \cup PollIds \cup ExportIds
    BY <2>1, Whose
  <2>4. Idle.pc = "idle"
    BY WorkerForms
  <2> QED
    BY <1>2, <2>1, <2>2, <2>3, <2>4, QuietHop
<1>6. CASE ~StopActuator(g)
  <2> DEFINE fails    == Leaving(w, "failed")
             succeeds == Leaving(w, "success")
             clears   == [w EXCEPT !.pc = "clear"]
             persists == [w EXCEPT !.pc = "persist"]
  <2>0. /\ fails.pc = "remove" /\ fails.task = w.task
        /\ succeeds.pc = "remove" /\ succeeds.task = w.task
        /\ clears.pc = "clear" /\ clears.task = w.task
        /\ persists.pc = "persist" /\ persists.task = w.task
    BY <1>1, <1>4, OutcomeForms
  <2>1. \/ w.pc = "output" /\ (Become(g, clears) \/ Become(g, fails))
        \/ w.pc = "clear" /\ Become(g, persists)
        \/ w.pc = "persist" /\ (Become(g, succeeds) \/ Become(g, fails))
    BY <1>6 DEF FetchOutput, ClearOutput, Persist, At, Goto
  <2> HIDE DEF fails, succeeds, clears, persists
  <2>2. PICK v : Become(g, v) /\ v.task = w.task /\ <<w.pc, v.pc>> \in ExportHops
    BY <2>0, <2>1 DEF ExportHops
  <2>4. g \in ExportIds
    <3>1. w.pc \in {"output", "clear", "persist"}
      BY <1>6 DEF FetchOutput, ClearOutput, Persist, At
    <3> QED
      BY <3>1, Whose
  <2> QED
    BY <1>2, <2>2, <2>4, QuietHop
<1> QED
  BY <1>5, <1>6

LEMMA QuietPolls ==
  ASSUME TypeInv, Core, NEW g \in PollIds, PollQuery(g) \/ PollForget(g)
  PROVE  Quiet(g)
<1> DEFINE w == workers[g]
<1>0. g \in WorkerIds /\ w.pc \in {"query", "forget"}
  BY Kinds DEF PollQuery, PollForget, At
<1>1. w \in Worker /\ w.task \in Tasks
  BY <1>0, Busy
<1>2. Same
  BY DEF PollQuery, PollForget, Same, containerVars, loopVars, resultVars, Running
<1>3. CASE PollQuery(g)
  <2> DEFINE st == AsyncStatus(w.task)
  <2>1. PICK pc \in {"forget", "ready"} : Become(g, [w EXCEPT !.st = st, !.pc = pc])
    BY <1>3 DEF PollQuery
  <2> DEFINE v == [w EXCEPT !.st = st, !.pc = pc]
  <2>2. v.pc = pc /\ v.task = w.task
    BY <1>1 DEF Worker
  <2>3. <<w.pc, v.pc>> \in PollHops
    BY <1>3, <2>2 DEF PollQuery, At, PollHops
  <2>4. Become(g, v)
    BY <2>1
  <2> HIDE DEF v
  <2> QED
    BY <1>0, <1>2, <2>2, <2>3, <2>4, QuietHop
<1>4. CASE PollForget(g)
  <2> DEFINE v == [w EXCEPT !.pc = "ready"]
  <2>1. Become(g, v) /\ w.pc = "forget"
    BY <1>4 DEF PollForget, Goto, At
  <2>2. v.pc = "ready" /\ v.task = w.task
    BY <1>1 DEF Worker
  <2>3. <<w.pc, v.pc>> \in PollHops
    BY <2>1, <2>2 DEF PollHops
  <2> HIDE DEF v
  <2> QED
    BY <1>0, <1>2, <2>1, <2>2, <2>3, QuietHop
<1> QED
  BY <1>3, <1>4

\* A poll goroutine stores a task that is in the running map already.
LEMMA QuietStore ==
  ASSUME TypeInv, Core, NEW g \in PollIds, ToRunning(g) \/ ToRunningStore(g)
  PROVE  Quiet(g)
<1> DEFINE w == workers[g]
<1>0. g \in WorkerIds /\ w.pc \in {"store", "restore"}
  BY Kinds DEF ToRunning, ToRunningStore, At
<1>1. w \in Worker /\ w.task \in Tasks
  BY <1>0, Busy
<1>2. w.task = g[2] /\ w.task \in Running /\ runningTaskMap \in [Tasks -> Entry]
  BY <1>0 DEF Core, WorkerShape, PollHolds, TypeInv, TypeOK, ContainerTypeOK
<1>3. UNCHANGED <<client, sched, waitingTasks, runningTaskCount, finshedTask>>
  BY DEF ToRunning, ToRunningStore, LoadOrStore, Restore, loopVars, resultVars
<1>4. Running' = Running
  BY <1>2 DEF ToRunning, ToRunningStore, LoadOrStore, Restore, Running, Entry
<1>5. Same
  BY <1>3, <1>4 DEF Same
<1>6. CASE ToRunning(g)
  <2> DEFINE v == [w EXCEPT !.pc = "restore"]
  <2>1. Become(g, v) /\ w.pc = "store"
    BY <1>2, <1>6 DEF ToRunning, Goto, At, Running
  <2>2. v.pc = "restore" /\ v.task = w.task
    BY <1>1 DEF Worker
  <2>3. <<w.pc, v.pc>> \in PollHops
    BY <2>1, <2>2 DEF PollHops
  <2> HIDE DEF v
  <2> QED
    BY <1>0, <1>5, <2>1, <2>2, <2>3, QuietHop
<1>7. CASE ToRunningStore(g)
  <2>1. Become(g, Idle) /\ w.pc = "restore" /\ Idle.pc = "idle"
    BY <1>7, WorkerForms DEF ToRunningStore, At
  <2>2. <<w.pc, Idle.pc>> \in PollHops
    BY <2>1 DEF PollHops
  <2> QED
    BY <1>0, <1>5, <2>1, <2>2, QuietHop
<1> QED
  BY <1>6, <1>7

\* A start that failed and an export have no entry in the running map to delete.
LEMMA QuietLeave ==
  ASSUME TypeInv, Core, NEW g \in WaveIds \cup ExportIds, LeaveRunning(g)
  PROVE  Quiet(g)
<1> DEFINE w == workers[g]
<1>0. g \in WorkerIds /\ w.pc = "remove"
  BY Kinds DEF LeaveRunning, At
<1>1. w \in Worker /\ w.task \in Tasks
  BY <1>0, Busy
<1>2. w.task \notin Running
  BY <1>0, <1>1, HeldApart DEF Loose
<1>3. ~runningTaskMap[w.task].in /\ runningTaskMap \in [Tasks -> Entry]
  BY <1>1, <1>2 DEF Running, TypeInv, TypeOK, ContainerTypeOK
<1>4. UNCHANGED <<client, sched, waitingTasks, runningTaskCount, finshedTask>>
  BY DEF LeaveRunning, LoadAndDelete, loopVars, resultVars
<1>5. Running' = Running
  BY <1>1, <1>3 DEF LeaveRunning, LoadAndDelete, Running, Absent
<1>6. Same
  BY <1>4, <1>5 DEF Same
<1> DEFINE v == Left(w)
<1>7. Become(g, v)
  BY <1>3 DEF LeaveRunning
<1>8. v.pc \in {"finish", "spawn"} /\ v.task = w.task
  BY <1>1, LeftForm
<1> HIDE DEF v
<1>9. <<w.pc, v.pc>> \in WaveHops /\ <<w.pc, v.pc>> \in ExportHops
  BY <1>0, <1>8 DEF WaveHops, ExportHops
<1> QED
  BY <1>0, <1>6, <1>7, <1>8, <1>9, QuietHop

-----------------------------------------------------------------------------
(* The steps that move a task from one place to another, or count it.      *)

LEMMA AtPlaceNext ==
  ASSUME NEW t \in Tasks
  PROVE  /\ Slot \in Place'[t] <=> t \in Running' \/ workers'[<<"poll", t>>].pc \in PollEnds
         /\ \A g \in WaveIds \cup ExportIds :
              g \in Place'[t] <=> workers'[g].task = t /\ workers'[g].pc \notin Loose
BY Places DEF Place

\* Only the running map, and a goroutine that ends a poll, makes a new place.
LEMMA PlaceStep ==
  ASSUME Core, NEW g \in WorkerIds, GoesOn(g), UNCHANGED <<client, sched, waitingTasks>>,
         workers'[g].pc \notin Loose => workers[g].pc \notin Loose,
         NEW t \in Tasks, NEW p \in Place'[t], p # Slot
  PROVE  p \in Place[t]
<1>1. Waits(t)' = Waits(t)
  BY DEF Waits
<1>2. ASSUME NEW h \in WaveIds \cup ExportIds, workers'[h].task = t, workers'[h].pc \notin Loose
      PROVE  workers[h].task = t /\ workers[h].pc \notin Loose
  BY <1>2, Kinds DEF GoesOn, Loose
<1> QED
  BY <1>1, <1>2 DEF Place

LEMMA ShapeStep ==
  ASSUME Core, NEW g \in WaveIds \cup ExportIds \cup PollIds, GoesOn(g),
         UNCHANGED <<client, sched>>, workers[g].pc # "idle",
         g \in WaveIds => workers'[g].pc \in WavePC /\ workers[g].pc # "ready",
         g \in ExportIds => workers'[g].pc \in ExportPC,
         g \in PollIds => workers'[g].pc \in PollPC,
         \A h \in PollIds : /\ workers'[h].pc \in PollHolds => h[2] \in Running'
                            /\ workers'[h].pc \in PollEnds => h[2] \notin Running'
  PROVE  ClientShape' /\ SchedShape' /\ WorkerShape'
<1>1. ClientShape'
  BY DEF Core, ClientShape
<1>2. SchedShape'
  <2>1. CASE g \in WaveIds
    <3>1. sched.pc \notin {"idle", "pop", "mark"}
      BY <2>1 DEF Core, SchedShape
    <3> QED
      BY <3>1 DEF Core, SchedShape
  <2>2. CASE g \notin WaveIds
    <3>1. \A h \in WaveIds : workers'[h] = workers[h]
      BY <2>2, Kinds DEF GoesOn
    <3> QED
      BY <3>1 DEF Core, SchedShape
  <2> QED
    BY <2>1, <2>2
<1>3. WorkerShape'
  <2>1. \A h \in WaveIds : workers'[h].pc \in WavePC
    BY Kinds DEF GoesOn, Core, WorkerShape
  <2>2. \A h \in CallbackIds : workers'[h].pc = "idle"
    BY Kinds DEF GoesOn, Core, WorkerShape
  <2>3. \A h \in ExportIds : workers'[h].pc \in ExportPC
    BY Kinds DEF GoesOn, Core, WorkerShape
  <2>4. \A h \in PollIds : /\ workers'[h].pc \in PollPC
                           /\ workers'[h].pc # "idle" => workers'[h].task = h[2]
    BY Kinds DEF GoesOn, Core, WorkerShape
  <2> QED
    BY <2>1, <2>2, <2>3, <2>4 DEF WorkerShape
<1> QED
  BY <1>1, <1>2, <1>3

\* What a goroutine at pc "inc" or "dec" adds to the counts.
LEMMA Counters ==
  ASSUME TypeInv, Core
  PROVE  /\ IsFiniteSet(Running) /\ IsFiniteSet(WorkersAt({"inc"}))
         /\ IsFiniteSet(WorkersAt({"dec"})) /\ IsFiniteSet(WaveBudget)
         /\ runningTaskCount \in Int /\ sched.left \in Nat /\ TaskLimit \in Nat
         /\ Cardinality({t \in Tasks : client[t].pc = "dec"}) = 0
         /\ Cardinality(Running) \in Nat /\ Cardinality(WorkersAt({"inc"})) \in Nat
         /\ Cardinality(WorkersAt({"dec"})) \in Nat /\ Cardinality(WaveBudget) \in Nat
         /\ runningTaskCount = Cardinality(Running) - Cardinality(WorkersAt({"inc"}))
                                 + Cardinality(WorkersAt({"dec"}))
         /\ runningTaskCount + Cardinality(WaveBudget) + sched.left
              + (IF sched.pc = "mark" THEN 1 ELSE 0) <= TaskLimit
<1>1. IsFiniteSet(Running) /\ IsFiniteSet(WorkersAt({"inc"}))
        /\ IsFiniteSet(WorkersAt({"dec"})) /\ IsFiniteSet(WaveBudget)
  BY WorkersFinite, TaskAssumption, FS_Subset DEF Running, WorkersAt, WaveBudget
<1>2. Cardinality(Running) \in Nat /\ Cardinality(WorkersAt({"inc"})) \in Nat
        /\ Cardinality(WorkersAt({"dec"})) \in Nat /\ Cardinality(WaveBudget) \in Nat
  BY <1>1, FS_CardinalityType
<1>3. runningTaskCount \in Int /\ sched.left \in Nat /\ TaskLimit \in Nat
  BY SchedulerAssumption DEF TypeInv, TypeOK, ContainerTypeOK, SchedulerTypeOK, Sched
<1>4. {t \in Tasks : client[t].pc = "dec"} = {}
  BY DEF Core, ClientShape
<1>5. Cardinality({t \in Tasks : client[t].pc = "dec"}) = 0
  BY <1>4, FS_EmptySet
<1> QED
  BY <1>1, <1>2, <1>3, <1>5 DEF Core, CountAccounts, Budget

\* CountAccounts in the next state, with no client at "dec".
LEMMA CountNext ==
  ASSUME ClientShape', Cardinality(Running') \in Nat,
         Cardinality(WorkersAt({"inc"})') \in Nat, Cardinality(WorkersAt({"dec"})') \in Nat,
         runningTaskCount' = Cardinality(Running') - Cardinality(WorkersAt({"inc"})')
                               + Cardinality(WorkersAt({"dec"})')
  PROVE  CountAccounts'
<1>1. {t \in Tasks : client'[t].pc = "dec"} = {}
  BY DEF ClientShape
<1>2. Cardinality({t \in Tasks : client'[t].pc = "dec"}) = 0
  BY <1>1, FS_EmptySet
<1> QED
  BY <1>2 DEF CountAccounts

\* A goroutine of a wave stores its task: it is in a slot now, and not counted yet.
LEMMA StoreStep ==
  ASSUME TypeInv, Core, NEW g \in WaveIds, ToRunning(g)
  PROVE  Core'
<1> DEFINE w == workers[g]
           t == w.task
<1>0. g \in WorkerIds /\ w.pc = "store" /\ w.pc \notin Loose
  BY Kinds DEF ToRunning, At, Loose
<1>1. w \in Worker /\ t \in Tasks
  BY <1>0, Busy
<1>2. g \in Place[t] /\ t \notin Running /\ workers[<<"poll", t>>].pc \notin PollEnds
  BY <1>0, <1>1, HeldApart
<1>3. UNCHANGED <<client, sched, waitingTasks, runningTaskCount, finshedTask>>
  BY DEF ToRunning, LoadOrStore, loopVars, resultVars
<1>4. Running' = Running \cup {t}
  BY <1>1 DEF ToRunning, LoadOrStore, Running, Present, TypeInv, TypeOK, ContainerTypeOK
<1> DEFINE v == [w EXCEPT !.pc = "inc"]
<1>5. Become(g, v) /\ v.pc = "inc" /\ v.task = t
  BY <1>1, <1>2 DEF ToRunning, Goto, Worker, Running
<1> HIDE DEF v
<1>6. workers'[g] = v /\ \A h \in WorkerIds : h # g => workers'[h] = workers[h]
  BY <1>0, <1>5 DEF Become, TypeInv, TypeOK, SchedulerTypeOK
<1>7. GoesOn(g)
  BY <1>5, <1>6 DEF GoesOn
<1>8. g \notin PollIds /\ g \notin ExportIds
  BY Kinds
<1>9. ClientShape' /\ SchedShape' /\ WorkerShape'
  <2>1. workers'[g].pc \in WavePC /\ workers[g].pc # "ready" /\ workers[g].pc # "idle"
    BY <1>0, <1>5, <1>6 DEF WavePC
  <2>2. ASSUME NEW h \in PollIds
        PROVE  /\ workers'[h].pc \in PollHolds => h[2] \in Running'
               /\ workers'[h].pc \in PollEnds => h[2] \notin Running'
    <3>1. workers'[h] = workers[h] /\ h = <<"poll", h[2]>>
      BY <1>6, <1>8, Kinds
    <3> QED
      BY <1>2, <1>4, <3>1 DEF Core, WorkerShape
  <2> QED
    BY <1>3, <1>7, <1>8, <2>1, <2>2, ShapeStep
<1>10. \A u \in Tasks : \A p \in Place'[u] : p # Slot => p \in Place[u]
  BY <1>0, <1>3, <1>7, PlaceStep
<1>11. OnePlace' /\ ReportedOnce'
  <2>1. Place'[t] \subseteq {Slot}
    <3>1. g \notin Place'[t]
      BY <1>1, <1>5, <1>6, AtPlaceNext DEF Loose
    <3> QED
      BY <1>1, <1>2, <1>10, <3>1 DEF Core, OnePlace
  <2>2. ASSUME NEW u \in Tasks, u # t PROVE Place'[u] \subseteq Place[u]
    <3>1. workers'[<<"poll", u>>] = workers[<<"poll", u>>]
      BY <1>6, <1>8, Kinds
    <3>2. Slot \in Place'[u] => Slot \in Place[u]
      BY <1>4, <2>2, <3>1, AtPlace, AtPlaceNext
    <3> QED
      BY <1>10, <3>2
  <2> HIDE DEF t
  <2> QED
    BY <1>1, <1>2, <1>3, <2>1, <2>2, OtherPlace
<1>12. QueuedOnce'
  BY <1>3 DEF Core, QueuedOnce
<1>13. CountAccounts'
  <2>1. g \notin WorkersAt({"inc"}) /\ g \in WorkersAt({"inc"})'
          /\ WorkersAt({"inc"}) \ {g} = WorkersAt({"inc"})' \ {g}
    BY <1>0, <1>5, <1>6 DEF WorkersAt
  <2>2. WorkersAt({"dec"})' = WorkersAt({"dec"})
    BY <1>0, <1>5, <1>6 DEF WorkersAt
  <2>3. Cardinality(WorkersAt({"inc"})') = Cardinality(WorkersAt({"inc"})) + 1
          /\ Cardinality(WorkersAt({"inc"})') \in Nat
    BY <2>1, Counters, CardinalityChange
  <2>4. t \notin Running /\ t \in Running' /\ Running \ {t} = Running' \ {t}
    BY <1>2, <1>4
  <2> HIDE DEF t
  <2>5. Cardinality(Running') = Cardinality(Running) + 1 /\ Cardinality(Running') \in Nat
    BY <2>4, Counters, CardinalityChange
  <2>6. runningTaskCount' = Cardinality(Running') - Cardinality(WorkersAt({"inc"})')
                              + Cardinality(WorkersAt({"dec"})')
    BY <1>3, <2>2, <2>3, <2>5, Counters
  <2>7. Cardinality(WorkersAt({"dec"})') \in Nat
    BY <2>2, Counters
  <2> QED
    BY <1>9, <2>3, <2>5, <2>6, <2>7, CountNext
<1>14. Budget'
  <2>1. WaveBudget' = WaveBudget
    BY <1>0, <1>5, <1>6, Kinds DEF WaveBudget, WillCount
  <2> QED
    BY <1>3, <2>1, BudgetKept
<1> QED
  BY <1>9, <1>11, <1>12, <1>13, <1>14 DEF Core

\* It counts: the slot that was set aside for it is now in the running count.
LEMMA CountUpStep ==
  ASSUME TypeInv, Core, NEW g \in WaveIds, ToRunningCount(g)
  PROVE  Core'
<1>0. g \in WorkerIds /\ workers[g].pc = "inc"
  BY Kinds DEF ToRunningCount, At
<1>1. /\ UNCHANGED <<client, sched, waitingTasks, finshedTask>>
      /\ Running' = Running /\ runningTaskCount' = runningTaskCount + 1
  BY DEF ToRunningCount, AddCount, loopVars, resultVars, Running
<1>2. workers'[g].pc = "idle" /\ \A h \in WorkerIds : h # g => workers'[h] = workers[h]
  BY <1>0, WorkerForms DEF ToRunningCount, Become, TypeInv, TypeOK, SchedulerTypeOK
<1>3. GoesOn(g)
  BY <1>2 DEF GoesOn
<1>4. g \notin PollIds /\ g \notin ExportIds
  BY Kinds
<1>5. \A h \in PollIds : workers'[h] = workers[h]
  BY <1>2, <1>4, Kinds
<1>6. ClientShape' /\ SchedShape' /\ WorkerShape'
  <2>1. workers'[g].pc \in WavePC
    BY <1>2 DEF WavePC
  <2>2. \A h \in PollIds : /\ workers'[h].pc \in PollHolds => h[2] \in Running'
                           /\ workers'[h].pc \in PollEnds => h[2] \notin Running'
    BY <1>1, <1>5 DEF Core, WorkerShape
  <2> QED
    BY <1>0, <1>1, <1>3, <1>4, <2>1, <2>2, ShapeStep
<1>7. OnePlace' /\ QueuedOnce' /\ ReportedOnce'
  <2>1. \A u \in Tasks : \A p \in Place'[u] : p # Slot => p \in Place[u]
    BY <1>0, <1>1, <1>2, <1>3, PlaceStep DEF Loose
  <2>2. \A u \in Tasks : Slot \in Place'[u] => Slot \in Place[u]
    BY <1>1, <1>5, Kinds, AtPlace, AtPlaceNext
  <2>3. \A u \in Tasks : Place'[u] \subseteq Place[u]
    BY <2>1, <2>2
  <2> QED
    BY <1>1, <2>3, FewerPlaces
<1>8. CountAccounts'
  <2>1. g \in WorkersAt({"inc"}) /\ g \notin WorkersAt({"inc"})'
          /\ WorkersAt({"inc"}) \ {g} = WorkersAt({"inc"})' \ {g}
    BY <1>0, <1>2 DEF WorkersAt
  <2>2. WorkersAt({"dec"})' = WorkersAt({"dec"})
    BY <1>0, <1>2 DEF WorkersAt
  <2>3. Cardinality(WorkersAt({"inc"})') = Cardinality(WorkersAt({"inc"})) - 1
          /\ Cardinality(WorkersAt({"inc"})') \in Nat
    BY <2>1, Counters, CardinalityChange
  <2> QED
    BY <1>1, <1>6, <2>2, <2>3, Counters, CountNext
<1>9. Budget'
  <2>1. g \in WaveBudget /\ g \notin WaveBudget' /\ WaveBudget \ {g} = WaveBudget' \ {g}
    BY <1>0, <1>2, Kinds DEF WaveBudget, WillCount
  <2>2. Cardinality(WaveBudget') = Cardinality(WaveBudget) - 1 /\ Cardinality(WaveBudget') \in Nat
    BY <2>1, Counters, CardinalityChange
  <2> QED
    BY <1>1, <2>2, Counters DEF Budget
<1> QED
  BY <1>6, <1>7, <1>8, <1>9 DEF Core

\* A poll goroutine deletes its task from the running map; it has the slot still.
LEMMA LeaveStep ==
  ASSUME TypeInv, Core, NEW g \in PollIds, LeaveRunning(g)
  PROVE  Core'
<1> DEFINE w == workers[g]
           t == w.task
<1>0. g \in WorkerIds /\ w.pc = "remove" /\ g = <<"poll", g[2]>>
  BY Kinds DEF LeaveRunning, At
<1>1. w \in Worker /\ t \in Tasks
  BY <1>0, Busy
<1>2. t = g[2] /\ t \in Running
  BY <1>0 DEF Core, WorkerShape, PollHolds
<1>3. UNCHANGED <<client, sched, waitingTasks, runningTaskCount, finshedTask>>
  BY DEF LeaveRunning, LoadAndDelete, loopVars, resultVars
<1>4. Running' = Running \ {t}
  BY <1>1 DEF LeaveRunning, LoadAndDelete, Running, Absent, TypeInv, TypeOK, ContainerTypeOK
<1> DEFINE v == [w EXCEPT !.pc = "dec"]
<1>5. Become(g, v) /\ v.pc = "dec" /\ v.task = t
  BY <1>1, <1>2 DEF LeaveRunning, Worker, Running
<1> HIDE DEF v
<1>6. workers'[g] = v /\ \A h \in WorkerIds : h # g => workers'[h] = workers[h]
  BY <1>0, <1>5 DEF Become, TypeInv, TypeOK, SchedulerTypeOK
<1>7. GoesOn(g)
  BY <1>5, <1>6 DEF GoesOn
<1>8. \A h \in PollIds : h # g => workers'[h] = workers[h] /\ h[2] # t
  BY <1>0, <1>2, <1>6, Kinds
<1>9. ClientShape' /\ SchedShape' /\ WorkerShape'
  <2>1. workers'[g].pc \in PollPC \ PollHolds
    BY <1>5, <1>6 DEF PollPC, PollEnds, PollHolds
  <2>2. ASSUME NEW h \in PollIds
        PROVE  /\ workers'[h].pc \in PollHolds => h[2] \in Running'
               /\ workers'[h].pc \in PollEnds => h[2] \notin Running'
    BY <1>2, <1>4, <1>8, <2>1 DEF Core, WorkerShape
  <2>3. g \notin WaveIds /\ g \notin ExportIds /\ workers[g].pc # "idle"
    BY <1>0, Kinds
  <2> QED
    BY <1>3, <1>7, <2>1, <2>2, <2>3, ShapeStep
<1>10. OnePlace' /\ QueuedOnce' /\ ReportedOnce'
  <2>1. \A u \in Tasks : \A p \in Place'[u] : p # Slot => p \in Place[u]
    BY <1>0, <1>3, <1>7, PlaceStep DEF Loose
  <2>2. ASSUME NEW u \in Tasks, Slot \in Place'[u] PROVE Slot \in Place[u]
    <3>1. CASE u = t
      BY <1>1, <1>2, <3>1, AtPlace
    <3>2. CASE u # t
      <4>1. <<"poll", u>> # g /\ <<"poll", u>> \in PollIds
        BY <1>2, <3>2, Kinds
      <4>2. workers'[<<"poll", u>>] = workers[<<"poll", u>>]
        BY <1>8, <4>1
      <4> QED
        BY <1>4, <2>2, <4>2, AtPlace, AtPlaceNext
    <3> QED
      BY <3>1, <3>2
  <2>3. \A u \in Tasks : Place'[u] \subseteq Place[u]
    BY <2>1, <2>2
  <2> QED
    BY <1>3, <2>3, FewerPlaces
<1>11. CountAccounts'
  <2>1. g \notin WorkersAt({"dec"}) /\ g \in WorkersAt({"dec"})'
          /\ WorkersAt({"dec"}) \ {g} = WorkersAt({"dec"})' \ {g}
    BY <1>0, <1>5, <1>6 DEF WorkersAt
  <2>2. WorkersAt({"inc"})' = WorkersAt({"inc"})
    BY <1>0, <1>5, <1>6 DEF WorkersAt
  <2>3. Cardinality(WorkersAt({"dec"})') = Cardinality(WorkersAt({"dec"})) + 1
          /\ Cardinality(WorkersAt({"dec"})') \in Nat
    BY <2>1, Counters, CardinalityChange
  <2>4. t \in Running /\ t \notin Running' /\ Running \ {t} = Running' \ {t}
    BY <1>2, <1>4
  <2> HIDE DEF t
  <2>5. Cardinality(Running') = Cardinality(Running) - 1 /\ Cardinality(Running') \in Nat
    BY <2>4, Counters, CardinalityChange
  <2>6. runningTaskCount' = Cardinality(Running') - Cardinality(WorkersAt({"inc"})')
                              + Cardinality(WorkersAt({"dec"})')
    BY <1>3, <2>2, <2>3, <2>5, Counters
  <2>7. Cardinality(WorkersAt({"inc"})') \in Nat
    BY <2>2, Counters
  <2> QED
    BY <1>9, <2>3, <2>5, <2>6, <2>7, CountNext
<1>12. Budget'
  <2>1. WaveBudget' = WaveBudget
    BY <1>6, Kinds DEF WaveBudget
  <2> QED
    BY <1>3, <2>1, BudgetKept
<1> QED
  BY <1>9, <1>10, <1>11, <1>12 DEF Core

\* It lowers the count.
LEMMA CountDownStep ==
  ASSUME TypeInv, Core, NEW g \in PollIds, LeaveRunningCount(g)
  PROVE  Core'
<1> DEFINE v == Left(workers[g])
<1>0. g \in WorkerIds /\ workers[g].pc = "dec"
  BY Kinds DEF LeaveRunningCount, At
<1>1. /\ UNCHANGED <<client, sched, waitingTasks, finshedTask>>
      /\ Running' = Running /\ runningTaskCount' = runningTaskCount - 1
  BY DEF LeaveRunningCount, AddCount, loopVars, resultVars, Running, TypeInv, TypeOK,
         ContainerTypeOK
<1>2. v.pc \in {"finish", "spawn"} /\ v.task = workers[g].task
  BY <1>0, Busy, LeftForm
<1>3. Become(g, v)
  BY DEF LeaveRunningCount
<1> HIDE DEF v
<1>4. workers'[g] = v /\ \A h \in WorkerIds : h # g => workers'[h] = workers[h]
  BY <1>0, <1>3 DEF Become, TypeInv, TypeOK, SchedulerTypeOK
<1>5. GoesOn(g)
  BY <1>2, <1>4 DEF GoesOn
<1>6. \A h \in PollIds : /\ workers'[h].pc \in PollHolds => workers[h].pc \in PollHolds
                         /\ workers'[h].pc \in PollEnds <=> workers[h].pc \in PollEnds
  BY <1>0, <1>2, <1>4, Kinds DEF PollHolds, PollEnds
<1>7. ClientShape' /\ SchedShape' /\ WorkerShape'
  <2>1. workers'[g].pc \in PollPC
    BY <1>2, <1>4 DEF PollPC, PollEnds
  <2>2. \A h \in PollIds : /\ workers'[h].pc \in PollHolds => h[2] \in Running'
                           /\ workers'[h].pc \in PollEnds => h[2] \notin Running'
    BY <1>1, <1>6 DEF Core, WorkerShape
  <2>3. g \notin WaveIds /\ g \notin ExportIds /\ workers[g].pc # "idle"
    BY <1>0, Kinds
  <2> QED
    BY <1>1, <1>5, <2>1, <2>2, <2>3, ShapeStep
<1>8. OnePlace' /\ QueuedOnce' /\ ReportedOnce'
  <2>1. \A u \in Tasks : \A p \in Place'[u] : p # Slot => p \in Place[u]
    BY <1>0, <1>1, <1>5, PlaceStep DEF Loose
  <2>2. \A u \in Tasks : Slot \in Place'[u] => Slot \in Place[u]
    BY <1>1, <1>6, Kinds, AtPlace, AtPlaceNext
  <2>3. \A u \in Tasks : Place'[u] \subseteq Place[u]
    BY <2>1, <2>2
  <2> QED
    BY <1>1, <2>3, FewerPlaces
<1>9. CountAccounts'
  <2>1. g \in WorkersAt({"dec"}) /\ g \notin WorkersAt({"dec"})'
          /\ WorkersAt({"dec"}) \ {g} = WorkersAt({"dec"})' \ {g}
    BY <1>0, <1>2, <1>4 DEF WorkersAt
  <2>2. WorkersAt({"inc"})' = WorkersAt({"inc"})
    BY <1>0, <1>2, <1>4 DEF WorkersAt
  <2>3. Cardinality(WorkersAt({"dec"})') = Cardinality(WorkersAt({"dec"})) - 1
          /\ Cardinality(WorkersAt({"dec"})') \in Nat
    BY <2>1, Counters, CardinalityChange
  <2> QED
    BY <1>1, <1>7, <2>2, <2>3, Counters, CountNext
<1>10. Budget'
  <2>1. WaveBudget' = WaveBudget
    BY <1>4, Kinds DEF WaveBudget
  <2> QED
    BY <1>1, <2>1, Counters DEF Budget
<1> QED
  BY <1>7, <1>8, <1>9, <1>10 DEF Core

\* A report: after it the task is nowhere.
LEMMA FinishStep ==
  ASSUME TypeInv, Core, NEW g \in WorkerIds, Finish(g)
  PROVE  Core'
<1> DEFINE w == workers[g]
           t == w.task
<1>0. w.pc = "finish" /\ g \in WaveIds \cup PollIds \cup ExportIds
  BY Whose DEF Finish, At
<1>1. w \in Worker /\ t \in Tasks /\ finshedTask \in [Tasks -> Seq({"success", "failed"})]
  BY <1>0, Busy DEF TypeInv, TypeOK, SchedulerTypeOK
<1>2. /\ UNCHANGED <<client, sched, waitingTasks, runningTaskCount>>
      /\ Running' = Running
  BY DEF Finish, containerVars, Running
<1>3. PICK v \in {Idle, [w EXCEPT !.pc = "stop"]} : Become(g, v)
  BY DEF Finish
<1>4. v.pc \in {"idle", "stop"} /\ (v.pc # "idle" => v.task = t)
  <2> DEFINE s == [w EXCEPT !.pc = "stop"]
  <2>1. "stop" \in WorkerPC
    BY DEF WorkerPC
  <2>2. Idle.pc = "idle" /\ s.pc = "stop" /\ s.task = t /\ v \in {Idle, s}
    BY <1>1, <2>1, WorkerForms
  <2> HIDE DEF s
  <2> QED
    BY <2>2
<1>5. workers'[g] = v /\ \A h \in WorkerIds : h # g => workers'[h] = workers[h]
  BY <1>3 DEF Become, TypeInv, TypeOK, SchedulerTypeOK
<1>6. GoesOn(g)
  BY <1>4, <1>5 DEF GoesOn
<1>7. \A h \in PollIds : /\ workers'[h].pc \in PollHolds => workers[h].pc \in PollHolds
                         /\ workers'[h].pc \in PollEnds => workers[h].pc \in PollEnds
  BY <1>4, <1>5, Kinds DEF PollHolds, PollEnds
<1>8. ClientShape' /\ SchedShape' /\ WorkerShape'
  <2>1. workers'[g].pc \in PollPC \cap WavePC \cap ExportPC
    BY <1>4, <1>5 DEF PollPC, WavePC, ExportPC
  <2>2. \A h \in PollIds : /\ workers'[h].pc \in PollHolds => h[2] \in Running'
                           /\ workers'[h].pc \in PollEnds => h[2] \notin Running'
    BY <1>2, <1>7 DEF Core, WorkerShape
  <2> QED
    BY <1>0, <1>2, <1>6, <2>1, <2>2, ShapeStep
<1>9. \A u \in Tasks : Place'[u] \subseteq Place[u]
  <2>1. \A u \in Tasks : \A p \in Place'[u] : p # Slot => p \in Place[u]
    BY <1>0, <1>2, <1>6, PlaceStep DEF Loose
  <2>2. \A u \in Tasks : Slot \in Place'[u] => Slot \in Place[u]
    BY <1>2, <1>7, Kinds, AtPlace, AtPlaceNext
  <2> QED
    BY <2>1, <2>2
<1>10. Place[t] # {} /\ Place'[t] = {}
  <2>1. CASE g \in PollIds
    <3>1. g = <<"poll", t>> /\ w.pc \in PollEnds /\ t \notin Running
      BY <1>0, <2>1, Kinds DEF Core, WorkerShape, PollEnds
    <3>2. Slot \in Place[t]
      BY <1>1, <3>1, AtPlace
    <3>3. Slot \notin Place'[t]
      BY <1>1, <1>2, <1>4, <1>5, <3>1, AtPlaceNext DEF PollEnds
    <3> QED
      BY <1>1, <1>9, <3>2, <3>3 DEF Core, OnePlace
  <2>2. CASE g \in WaveIds \cup ExportIds
    <3>1. g \in Place[t]
      BY <1>0, <1>1, <2>2, HeldApart DEF Loose
    <3>2. g \notin Place'[t]
      BY <1>1, <1>4, <1>5, <2>2, AtPlaceNext DEF Loose
    <3> QED
      BY <1>1, <1>9, <3>1, <3>2 DEF Core, OnePlace
  <2> QED
    BY <1>0, <2>1, <2>2
<1>11. OnePlace' /\ QueuedOnce'
  BY <1>2, <1>9 DEF Core, OnePlace, QueuedOnce
<1>12. ReportedOnce'
  <2>1. PICK e : finshedTask' = [finshedTask EXCEPT ![t] = Append(@, e)]
    BY DEF Finish
  <2>2. finshedTask[t] = <<>>
    BY <1>1, <1>10 DEF Core, ReportedOnce
  <2>3. Len(finshedTask'[t]) = 1
    BY <1>1, <2>1, <2>2
  <2>4. \A u \in Tasks : u # t => finshedTask'[u] = finshedTask[u]
    BY <1>1, <2>1
  <2> HIDE DEF t
  <2> QED
    BY <1>9, <1>10, <2>3, <2>4 DEF Core, ReportedOnce
<1>13. CountAccounts'
  <2>1. WorkersAt({"inc"})' = WorkersAt({"inc"}) /\ WorkersAt({"dec"})' = WorkersAt({"dec"})
    BY <1>0, <1>4, <1>5 DEF WorkersAt
  <2> QED
    BY <1>2, <1>8, <2>1, NothingCounted
<1>14. Budget'
  <2>1. WaveBudget' = WaveBudget
    BY <1>0, <1>4, <1>5, Kinds DEF WaveBudget, WillCount
  <2> QED
    BY <1>2, <2>1, BudgetKept
<1> QED
  BY <1>8, <1>11, <1>12, <1>13, <1>14 DEF Core

\* An export goroutine takes the task over.
LEMMA SpawnStep ==
  ASSUME TypeInv, Core, NEW g \in WorkerIds, SpawnExport(g)
  PROVE  Core'
<1> DEFINE w == workers[g]
           t == w.task
<1>0. w.pc = "spawn" /\ g \in WaveIds \cup PollIds \cup ExportIds
  BY Whose DEF SpawnExport, At
<1>1. w \in Worker /\ t \in Tasks /\ w.att \in Attempts
  BY <1>0, Busy DEF Worker
<1>2. /\ UNCHANGED <<client, sched, waitingTasks, runningTaskCount, finshedTask>>
      /\ Running' = Running
  BY DEF SpawnExport, containerVars, loopVars, resultVars, Running
<1> DEFINE v == Holding("output", t, w.att)
<1>3. PICK i \in 1..ExportWorkers :
        /\ IsFree("export", i)
        /\ workers' = [workers EXCEPT ![g] = Idle, ![<<"export", i>>] = v]
  BY DEF SpawnExport
<1> DEFINE e == <<"export", i>>
<1>4. e \in ExportIds /\ e \in WorkerIds /\ workers[e].pc = "idle" /\ e # g
  BY <1>0, <1>3, Kinds DEF IsFree
<1>5. v.pc = "output" /\ v.task = t
  <2>1. "output" \in WorkerPC
    BY DEF WorkerPC
  <2> QED
    BY <1>1, <2>1, WorkerForms
<1> HIDE DEF v
<1>6. /\ workers'[g] = Idle /\ workers'[e] = v
      /\ \A h \in WorkerIds : h # g /\ h # e => workers'[h] = workers[h]
  BY <1>3, <1>4 DEF TypeInv, TypeOK, SchedulerTypeOK
<1>7. Idle.pc = "idle"
  BY WorkerForms
<1> HIDE DEF e
<1>8. ClientShape' /\ SchedShape' /\ WorkerShape'
  <2>1. ClientShape'
    BY <1>2 DEF Core, ClientShape
  <2>2. ASSUME NEW h \in WaveIds
        PROVE  workers'[h] = workers[h] \/ (h = g /\ workers'[h].pc = "idle")
    <3>1. h # e /\ h \in WorkerIds
      BY <1>4, Kinds
    <3> QED
      BY <1>6, <1>7, <3>1
  <2>3. SchedShape'
    BY <1>2, <2>2 DEF Core, SchedShape
  <2>4. \A h \in WaveIds : workers'[h].pc \in WavePC
    BY <2>2 DEF Core, WorkerShape, WavePC
  <2>5. \A h \in CallbackIds : workers'[h].pc = "idle"
    BY <1>0, <1>4, <1>6, Kinds DEF Core, WorkerShape
  <2>6. \A h \in ExportIds : workers'[h].pc \in ExportPC
    BY <1>5, <1>6, <1>7, Kinds DEF Core, WorkerShape, ExportPC
  <2>7. \A h \in PollIds : workers'[h] = workers[h] \/ workers'[h].pc = "idle"
    BY <1>4, <1>6, <1>7, Kinds
  <2>8. \A h \in PollIds :
          /\ workers'[h].pc \in PollPC
          /\ workers'[h].pc # "idle" => workers'[h].task = h[2]
          /\ workers'[h].pc \in PollHolds => h[2] \in Running'
          /\ workers'[h].pc \in PollEnds => h[2] \notin Running'
    BY <1>2, <2>7 DEF Core, WorkerShape, PollPC, PollHolds, PollEnds
  <2> QED
    BY <2>1, <2>3, <2>4, <2>5, <2>6, <2>8 DEF WorkerShape
<1>9. ASSUME NEW u \in Tasks, NEW p \in Place'[u], p # e
      PROVE  /\ p \in Place[u]
             /\ u = t => IF g \in PollIds THEN p = Slot ELSE p = g
  <2>1. Waits(u)' = Waits(u)
    BY <1>2 DEF Waits
  <2>2. workers'[<<"poll", u>>].pc \in PollEnds => workers[<<"poll", u>>].pc \in PollEnds
    BY <1>4, <1>6, <1>7, Kinds DEF PollEnds
  <2>3. ASSUME NEW h \in WaveIds \cup ExportIds, h # e,
               workers'[h].task = u, workers'[h].pc \notin Loose
        PROVE  workers[h].task = u /\ workers[h].pc \notin Loose
    BY <1>6, <1>7, <2>3, Kinds DEF Loose
  <2>4. p \in Place[u]
    BY <1>2, <1>9, <2>1, <2>2, <2>3 DEF Place
  <2>5. CASE g \in PollIds
    <3>1. u = t => Slot \in Place[u]
      BY <1>0, <2>5, Kinds, AtPlace DEF Core, WorkerShape, PollEnds
    <3> QED
      BY <2>4, <2>5, <3>1 DEF Core, OnePlace
  <2>6. CASE g \in WaveIds \cup ExportIds
    <3>1. u = t => g \in Place[u]
      BY <1>0, <1>1, <2>6, HeldApart DEF Loose
    <3>2. g \notin PollIds
      BY <2>6, Kinds
    <3> QED
      BY <2>4, <3>1, <3>2 DEF Core, OnePlace
  <2> QED
    BY <1>0, <2>4, <2>5, <2>6
<1>10. Place[t] # {} /\ Place'[t] \subseteq {e}
  <2>1. CASE g \in PollIds
    <3>1. g = <<"poll", t>> /\ w.pc \in PollEnds /\ t \notin Running
      BY <1>0, <2>1, Kinds DEF Core, WorkerShape, PollEnds
    <3>2. Slot \in Place[t]
      BY <1>1, <3>1, AtPlace
    <3>3. Slot \notin Place'[t]
      BY <1>1, <1>2, <1>6, <1>7, <3>1, AtPlaceNext DEF PollEnds
    <3> QED
      BY <1>1, <1>9, <2>1, <3>2, <3>3
  <2>2. CASE g \in WaveIds \cup ExportIds
    <3>1. g \in Place[t] /\ g \notin PollIds
      BY <1>0, <1>1, <2>2, HeldApart, Kinds DEF Loose
    <3>2. g \notin Place'[t]
      BY <1>1, <1>6, <1>7, <2>2, AtPlaceNext DEF Loose
    <3> QED
      BY <1>1, <1>9, <3>1, <3>2
  <2> QED
    BY <1>0, <2>1, <2>2
<1>11. ASSUME NEW u \in Tasks, u # t PROVE Place'[u] \subseteq Place[u]
  <2>1. e \notin Place'[u]
    BY <1>4, <1>5, <1>6, <1>11, AtPlaceNext
  <2> QED
    BY <1>9, <2>1
<1>12. OnePlace' /\ ReportedOnce'
  <2> HIDE DEF t
  <2> QED
    BY <1>1, <1>2, <1>10, <1>11, OtherPlace
<1>13. QueuedOnce'
  BY <1>2 DEF Core, QueuedOnce
<1>14. CountAccounts'
  <2>1. WorkersAt({"inc"})' = WorkersAt({"inc"}) /\ WorkersAt({"dec"})' = WorkersAt({"dec"})
    BY <1>0, <1>4, <1>5, <1>6, <1>7 DEF WorkersAt
  <2> QED
    BY <1>2, <1>8, <2>1, NothingCounted
<1>15. Budget'
  <2>1. WaveBudget' \subseteq WaveBudget
    BY <1>4, <1>6, <1>7, Kinds DEF WaveBudget, WillCount
  <2> QED
    BY <1>2, <2>1, BudgetKept
<1> QED
  BY <1>8, <1>12, <1>13, <1>14, <1>15 DEF Core

LEMMA WorkerCore ==
  ASSUME TypeInv, TypeInv', Core, NEW g \in WorkerIds, WorkerStep(g)
  PROVE  Core'
<1>1. CASE StartCheck(g) \/ StartLaunch(g) \/ LimitCheck(g)
  BY <1>1, QuietStarts, QuietStep
<1>2. CASE StopActuator(g) \/ FetchOutput(g) \/ ClearOutput(g) \/ Persist(g)
  BY <1>2, QuietEnds, QuietStep
<1>3. CASE ToRunning(g)
  <2>1. g \in WaveIds \cup PollIds
    BY <1>3, Whose DEF ToRunning, At
  <2> QED
    BY <1>3, <2>1, StoreStep, QuietStore, QuietStep
<1>4. CASE ToRunningStore(g)
  <2>1. g \in PollIds
    BY <1>4, Whose DEF ToRunningStore, At
  <2> QED
    BY <1>4, <2>1, QuietStore, QuietStep
<1>5. CASE ToRunningCount(g)
  <2>1. g \in WaveIds
    BY <1>5, Whose DEF ToRunningCount, At
  <2> QED
    BY <1>5, <2>1, CountUpStep
<1>6. CASE LeaveRunning(g)
  <2>1. g \in WaveIds \cup PollIds \cup ExportIds
    BY <1>6, Whose DEF LeaveRunning, At
  <2> QED
    BY <1>6, <2>1, LeaveStep, QuietLeave, QuietStep
<1>7. CASE LeaveRunningCount(g)
  <2>1. g \in PollIds
    BY <1>7, Whose DEF LeaveRunningCount, At
  <2> QED
    BY <1>7, <2>1, CountDownStep
<1>8. CASE Finish(g)
  BY <1>8, FinishStep
<1>9. CASE SpawnExport(g)
  BY <1>9, SpawnStep
<1> QED
  BY <1>1, <1>2, <1>3, <1>4, <1>5, <1>6, <1>7, <1>8, <1>9 DEF WorkerStep

-----------------------------------------------------------------------------
(* The steps of the clients, of the loops and of the actuator.             *)

LEMMA ClientCore ==
  ASSUME TypeInv, Core, PollMode, NEW t \in Tasks, ClientStep(t)
  PROVE  Core'
<1>0. client \in [Tasks -> Client] /\ waitingTasks \in Seq(Tasks)
  BY DEF TypeInv, TypeOK, SchedulerTypeOK, ContainerTypeOK
<1>1. client[t].pc \in {"out", "push", "active"} /\ client[t].stops = 0 /\ MaxStops = 0
  BY DEF Core, ClientShape, PollMode
<1>2. AddTaskMark(t) \/ AddTaskPush(t) \/ AddTaskTimeout(t)
  BY <1>1 DEF ClientStep, StopTaskMap, StopTaskDec, StopTaskActuator
<1>3. /\ UNCHANGED <<sched, workers, runningTaskCount, finshedTask>>
      /\ Running' = Running
  BY <1>2 DEF AddTaskMark, AddTaskPush, AddTaskTimeout, TakeStopMark, Push, containerVars,
              resultVars, Running
<1>4. PICK pc \in {"out", "push", "active"} :
        client' = [client EXCEPT ![t].pc = pc] /\ client[t].pc # "active"
  BY <1>2 DEF AddTaskMark, AddTaskPush, AddTaskTimeout, ClientAt
<1>5. /\ \A u \in Tasks : u # t => client'[u] = client[u]
      /\ client'[t].pc = pc /\ client'[t].stops = client[t].stops
  BY <1>0, <1>4 DEF Client
<1>6. ClientShape' /\ SchedShape' /\ WorkerShape'
  BY <1>1, <1>3, <1>5 DEF Core, ClientShape, SchedShape, WorkerShape
<1>7. OnePlace' /\ QueuedOnce' /\ ReportedOnce'
  <2>1. CASE AddTaskMark(t) \/ AddTaskTimeout(t)
    <3>1. UNCHANGED waitingTasks
      BY <2>1 DEF AddTaskMark, AddTaskTimeout, TakeStopMark, containerVars
    <3>2. \A u \in Tasks : Waits(u)' = Waits(u)
      BY <3>1 DEF Waits
    <3>3. \A u \in Tasks : client'[u].pc # "active" => client[u].pc # "active"
      BY <1>4, <1>5
    <3>4. \A u \in Tasks : Place'[u] \subseteq Place[u]
      BY <1>3, <3>2, <3>3 DEF Place
    <3> QED
      BY <1>3, <3>1, <3>4, FewerPlaces
  <2>2. CASE AddTaskPush(t)
    <3>1. waitingTasks' = Append(waitingTasks, t) /\ client'[t].pc = "active"
      BY <1>0, <2>2 DEF AddTaskPush, Push, ClientAt, Client
    <3>2. Outside \in Place[t]
      BY <1>4, AtPlace
    <3>3. \A p \in Place[t] : p = Outside
      BY <3>2 DEF Core, OnePlace
    <3>4. ~Waits(t)
      BY <3>3, AtPlace, Places
    <3>5. \A u \in Tasks : u # t => Waits(u)' = Waits(u)
      BY <1>0, <3>1 DEF Waits
    <3>6. \A u \in Tasks : u # t => Place'[u] \subseteq Place[u]
      BY <1>3, <1>5, <3>5 DEF Place
    <3>7. Place'[t] \subseteq {Queue}
      <4>1. Hand \notin Place[t] /\ Slot \notin Place[t]
        BY <3>3, Places
      <4>2. \A g \in WaveIds \cup ExportIds : g \notin Place[t]
        BY <3>3, Places
      <4> QED
        BY <1>3, <3>1, <4>1, <4>2, AtPlace DEF Place
    <3>8. OnePlace' /\ ReportedOnce'
      BY <1>3, <3>2, <3>6, <3>7, OtherPlace
    <3>9. QueuedOnce'
      BY <1>0, <3>1, <3>4 DEF Core, QueuedOnce, Waits
    <3> QED
      BY <3>8, <3>9
  <2> QED
    BY <1>2, <2>1, <2>2
<1>8. CountAccounts' /\ Budget'
  <2>1. /\ WorkersAt({"inc"})' = WorkersAt({"inc"}) /\ WorkersAt({"dec"})' = WorkersAt({"dec"})
        /\ WaveBudget' = WaveBudget
    BY <1>3 DEF WorkersAt, WaveBudget
  <2> QED
    BY <1>3, <1>6, <2>1, NothingCounted, BudgetKept
<1> QED
  BY <1>6, <1>7, <1>8 DEF Core

\* A poll round begins, or goes on with its tasks.
LEMMA PollRound ==
  ASSUME TypeInv, Core, Same,
         \A g \in WorkerIds \ PollIds : workers'[g] = workers[g],
         \A g \in PollIds :
           \/ workers'[g] = workers[g]
           \/ /\ workers[g].pc \in {"idle", "ready"}
              /\ workers'[g].pc \in {"idle"} \cup PollHolds
              /\ workers'[g].pc # "idle" => workers'[g].task = g[2] /\ g[2] \in Running
  PROVE  Core'
<1>1. \A g \in WaveIds \cup CallbackIds \cup ExportIds : workers'[g] = workers[g]
  BY Kinds
<1>2. ClientShape' /\ SchedShape'
  BY <1>1 DEF Core, Same, ClientShape, SchedShape
<1>3. \A g \in PollIds :
        /\ workers'[g].pc \in PollPC
        /\ workers'[g].pc # "idle" => workers'[g].task = g[2]
        /\ workers'[g].pc \in PollHolds => g[2] \in Running
        /\ workers'[g].pc \in PollEnds => workers[g].pc \in PollEnds
  BY DEF Core, WorkerShape, PollPC, PollHolds, PollEnds
<1>4. WorkerShape'
  BY <1>1, <1>3 DEF Core, Same, WorkerShape
<1>5. \A t \in Tasks : Place'[t] \subseteq Place[t]
  <2>1. \A t \in Tasks : Waits(t)' = Waits(t)
    BY DEF Same, Waits
  <2> QED
    BY <1>1, <1>3, <2>1, Kinds DEF Same, Place
<1>6. OnePlace' /\ QueuedOnce' /\ ReportedOnce'
  BY <1>5, FewerPlaces DEF Same
<1>7. /\ WorkersAt({"inc"})' = WorkersAt({"inc"}) /\ WorkersAt({"dec"})' = WorkersAt({"dec"})
      /\ WaveBudget' = WaveBudget
  BY <1>1, Kinds DEF WorkersAt, WaveBudget, PollHolds
<1>8. CountAccounts' /\ Budget'
  BY <1>2, <1>7, NothingCounted, BudgetKept DEF Same
<1> QED
  BY <1>2, <1>4, <1>6, <1>8 DEF Core

LEMMA PollCore ==
  ASSUME TypeInv, TypeInv', Core, PollStep
  PROVE  Core'
<1>0. workers \in [WorkerIds -> Worker] /\ runningTaskMap \in [Tasks -> Entry]
  BY DEF TypeInv, TypeOK, SchedulerTypeOK, ContainerTypeOK
<1>1. CASE PollSnapshot
  <2>1. Same
    BY <1>1 DEF PollSnapshot, Same, containerVars, loopVars, resultVars, Running
  <2>2. \A g \in WorkerIds \ PollIds : workers'[g] = workers[g]
    BY <1>1 DEF PollSnapshot
  <2>3. ASSUME NEW g \in PollIds
        PROVE  \/ workers'[g] = workers[g]
               \/ /\ workers[g].pc \in {"idle", "ready"}
                  /\ workers'[g].pc \in {"idle"} \cup PollHolds
                  /\ workers'[g].pc # "idle" => workers'[g].task = g[2] /\ g[2] \in Running
    <3>1. g \in WorkerIds /\ g[2] \in Tasks /\ workers[g].pc = "idle"
      BY <1>1, Kinds DEF PollSnapshot, Active
    <3>2. CASE g[2] \in Running
      <4> DEFINE h == Holding("query", g[2], runningTaskMap[g[2]].att)
                 v == [h EXCEPT !.late = runningTaskMap[g[2]].late]
      <4>1. runningTaskMap[g[2]].att \in Attempts /\ "query" \in WorkerPC
        BY <1>0, <3>1 DEF Entry, WorkerPC
      <4>2. h \in Worker /\ h.pc = "query" /\ h.task = g[2]
        BY <3>1, <4>1, WorkerForms
      <4>3. workers'[g] = v
        BY <1>1, <3>1, <3>2 DEF PollSnapshot
      <4> HIDE DEF h
      <4>4. v.pc = "query" /\ v.task = g[2]
        BY <4>2 DEF Worker
      <4> QED
        BY <3>1, <3>2, <4>3, <4>4 DEF PollHolds
    <3>3. CASE g[2] \notin Running
      BY <1>1, <3>1, <3>3 DEF PollSnapshot
    <3> QED
      BY <3>2, <3>3
  <2> QED
    BY <2>1, <2>2, <2>3, PollRound
<1>2. CASE PollLaunch
  <2>1. Same
    BY <1>2 DEF PollLaunch, Same, containerVars, loopVars, resultVars, Running
  <2>2. PICK expired : workers' = [g \in WorkerIds |->
                         IF g \in Active(PollIds)
                         THEN PollBody(workers[g], workers[g].task \in expired)
                         ELSE workers[g]]
    BY <1>2 DEF PollLaunch
  <2>3. \A g \in WorkerIds \ PollIds : workers'[g] = workers[g]
    BY <2>2 DEF Active
  <2>4. ASSUME NEW g \in PollIds
        PROVE  \/ workers'[g] = workers[g]
               \/ /\ workers[g].pc \in {"idle", "ready"}
                  /\ workers'[g].pc \in {"idle"} \cup PollHolds
                  /\ workers'[g].pc # "idle" => workers'[g].task = g[2] /\ g[2] \in Running
    <3>1. CASE g \notin Active(PollIds)
      BY <2>2, <3>1, Kinds
    <3>2. CASE g \in Active(PollIds)
      <4> DEFINE w == workers[g]
                 v == PollBody(w, w.task \in expired)
      <4>1. w.pc = "ready" /\ w.task = g[2] /\ g[2] \in Running
        BY <1>2, <3>2 DEF PollLaunch, At, Core, WorkerShape, PollHolds
      <4>2. w \in Worker /\ w.task \in Tasks /\ g \in WorkerIds
        BY <1>0, <4>1, Kinds
      <4>3. v \in {Idle, Retry(w), Export(w), Leaving(w, "timeout")}
        BY DEF PollBody
      <4>4. v.pc \in {"idle"} \cup PollHolds /\ (v.pc # "idle" => v.task = w.task)
        <5>1. \A x \in {Retry(w), Export(w), Leaving(w, "timeout")} :
                x.task = w.task /\ x.pc \in {"start", "remove"}
          BY <4>2, OutcomeForms
        <5> HIDE DEF v
        <5> QED
          BY <4>3, <5>1, WorkerForms DEF PollHolds
      <4>5. workers'[g] = v
        BY <2>2, <3>2, <4>2
      <4> HIDE DEF v
      <4> QED
        BY <4>1, <4>4, <4>5
    <3> QED
      BY <3>1, <3>2
  <2> QED
    BY <2>1, <2>3, <2>4, PollRound
<1>3. ASSUME NEW g \in PollIds, PollQuery(g) \/ PollForget(g) PROVE Core'
  BY <1>3, QuietPolls, QuietStep, Kinds
<1> QED
  BY <1>1, <1>2, <1>3 DEF PollStep

\* A round begins: the slots it may fill are set aside.
LEMMA SchedCountStep ==
  ASSUME TypeInv, Core, SchedCount
  PROVE  Core'
<1>0. /\ UNCHANGED <<client, workers, waitingTasks, runningTaskCount, finshedTask>>
      /\ Running' = Running
  BY DEF SchedCount, containerVars, resultVars, Running
<1>1. /\ sched.pc = "idle" /\ runningTaskCount < TaskLimit
      /\ sched'.pc = "pop" /\ sched'.task = sched.task
      /\ sched'.left = IF TaskLimit - runningTaskCount > MaxWave THEN MaxWave
                       ELSE TaskLimit - runningTaskCount
  BY DEF SchedCount, TypeInv, TypeOK, SchedulerTypeOK, Sched
<1>2. \A g \in WaveIds : workers[g].pc = "idle"
  BY <1>1 DEF Core, SchedShape
<1>3. ClientShape' /\ SchedShape' /\ WorkerShape'
  BY <1>0, <1>1, <1>2 DEF Core, ClientShape, SchedShape, WorkerShape
<1>4. \A t \in Tasks : Place'[t] \subseteq Place[t]
  BY <1>0, <1>1 DEF Place, Waits
<1>5. OnePlace' /\ QueuedOnce' /\ ReportedOnce'
  BY <1>0, <1>4, FewerPlaces
<1>6. CountAccounts'
  BY <1>0, <1>3, NothingCounted DEF WorkersAt
<1>7. Budget'
  <2>1. WaveBudget' = {}
    BY <1>0, <1>2 DEF WaveBudget, WillCount
  <2>2. Cardinality(WaveBudget') = 0
    BY <2>1, FS_EmptySet
  <2>3. MaxWave \in Nat
    BY SchedulerAssumption
  <2> QED
    BY <1>0, <1>1, <2>2, <2>3, Counters DEF Budget
<1> QED
  BY <1>3, <1>5, <1>6, <1>7 DEF Core

\* A task goes from the head of the queue into the hand of the loop.
LEMMA SchedPopStep ==
  ASSUME TypeInv, Core, SchedPop
  PROVE  Core'
<1>0. /\ UNCHANGED <<client, workers, runningTaskCount, finshedTask>>
      /\ Running' = Running
  BY DEF SchedPop, Pop, resultVars, Running
<1>1. /\ waitingTasks \in Seq(Tasks) /\ waitingTasks # <<>>
      /\ waitingTasks' = Tail(waitingTasks)
      /\ sched.pc = "pop" /\ sched.left \in Nat \ {0} /\ sched.task = NoTask
      /\ sched' = [pc |-> "mark", left |-> sched.left - 1, task |-> Head(waitingTasks)]
  BY DEF SchedPop, Pop, TypeInv, TypeOK, SchedulerTypeOK, ContainerTypeOK, Sched, BusyOK
<1>2. PICK t \in Tasks : t = Head(waitingTasks) /\ t # NoTask
  BY <1>1, SchedulerAssumption
<1>3. ClientShape' /\ SchedShape' /\ WorkerShape'
  BY <1>0, <1>1 DEF Core, ClientShape, SchedShape, WorkerShape
<1>4. Queue \in Place[t]
  <2>1. Waits(t)
    BY <1>1, <1>2 DEF Waits
  <2> QED
    BY <1>2, <2>1, AtPlace
<1>5. ~Waits(t)'
  <2>1. \A i \in 1..Len(waitingTasks') : waitingTasks'[i] = waitingTasks[i + 1]
                                            /\ i + 1 \in 1..Len(waitingTasks) /\ i + 1 # 1
    BY <1>1
  <2>2. 1 \in 1..Len(waitingTasks) /\ waitingTasks[1] = t
    BY <1>1, <1>2
  <2> QED
    BY <2>1, <2>2 DEF Core, QueuedOnce, Waits
<1>6. \A u \in Tasks : Waits(u)' => Waits(u)
  <2>1. \A i \in 1..Len(waitingTasks') : waitingTasks'[i] = waitingTasks[i + 1]
                                            /\ i + 1 \in 1..Len(waitingTasks)
    BY <1>1
  <2> QED
    BY <2>1 DEF Waits
<1>7. QueuedOnce'
  <2>1. \A i \in 1..Len(waitingTasks') : waitingTasks'[i] = waitingTasks[i + 1]
                                            /\ i + 1 \in 1..Len(waitingTasks)
    BY <1>1
  <2>2. \A i, j \in Nat : i + 1 = j + 1 => i = j
    OBVIOUS
  <2> QED
    BY <2>1, <2>2 DEF Core, QueuedOnce
<1>8. OnePlace' /\ ReportedOnce'
  <2>1. Place'[t] \subseteq {Hand}
    <3>1. Outside \notin Place[t] /\ Slot \notin Place[t]
            /\ \A g \in WaveIds \cup ExportIds : g \notin Place[t]
      BY <1>2, <1>4, Places DEF Core, OnePlace
    <3>2. /\ client'[t].pc = "active"
          /\ ~(t \in Running' \/ workers'[<<"poll", t>>].pc \in PollEnds)
          /\ \A g \in WaveIds \cup ExportIds :
               ~(workers'[g].task = t /\ workers'[g].pc \notin Loose)
      BY <1>0, <1>2, <3>1, AtPlace
    <3> QED
      BY <1>2, <1>5, <3>2 DEF Place
  <2>2. ASSUME NEW u \in Tasks, u # t PROVE Place'[u] \subseteq Place[u]
    <3>1. sched'.task # u
      BY <1>1, <1>2, <2>2
    <3> QED
      BY <1>0, <1>6, <3>1 DEF Place
  <2> QED
    BY <1>0, <1>2, <1>4, <2>1, <2>2, OtherPlace
<1>9. CountAccounts'
  BY <1>0, <1>3, NothingCounted DEF WorkersAt
<1>10. Budget'
  <2>1. WaveBudget' = WaveBudget
    BY <1>0 DEF WaveBudget
  <2>2. sched'.pc = "mark" /\ sched'.left = sched.left - 1
    BY <1>1
  <2> QED
    BY <1>0, <1>1, <2>1, <2>2, Counters DEF Budget
<1> QED
  BY <1>3, <1>7, <1>8, <1>9, <1>10 DEF Core

\* The task joins the wave, or is dropped.
LEMMA SchedMarkStep ==
  ASSUME TypeInv, Core, SchedMark
  PROVE  Core'
<1>0. /\ UNCHANGED <<client, waitingTasks, runningTaskCount, finshedTask>>
      /\ Running' = Running
  BY DEF SchedMark, TakeStopMark, resultVars, Running
<1>1. /\ sched.pc = "mark" /\ sched'.pc = "pop" /\ sched'.left = sched.left
      /\ sched'.task = NoTask
  BY DEF SchedMark, TypeInv, TypeOK, SchedulerTypeOK, Sched
<1>2. PICK t \in Tasks : sched.task = t
  BY <1>1 DEF TypeInv, TypeOK, SchedulerTypeOK, BusyOK, Sched
<1>3. Hand \in Place[t] /\ NoTask \notin Tasks
  BY <1>2, AtPlace, SchedulerAssumption
<1>4. CASE UNCHANGED workers
  <2>1. ClientShape' /\ SchedShape' /\ WorkerShape'
    BY <1>0, <1>1, <1>4 DEF Core, ClientShape, SchedShape, WorkerShape
  <2>2. \A u \in Tasks : Place'[u] \subseteq Place[u]
    BY <1>0, <1>1, <1>3, <1>4 DEF Place, Waits
  <2>3. OnePlace' /\ QueuedOnce' /\ ReportedOnce'
    BY <1>0, <2>2, FewerPlaces
  <2>4. CountAccounts'
    BY <1>0, <1>4, <2>1, NothingCounted DEF WorkersAt
  <2>5. WaveBudget' = WaveBudget
    BY <1>4 DEF WaveBudget
  <2>6. Budget'
    BY <1>0, <1>1, <2>5, Counters DEF Budget
  <2> QED
    BY <2>1, <2>3, <2>4, <2>6 DEF Core
<1>5. CASE ~UNCHANGED workers
  <2> DEFINE v == Holding("ready", t, 0)
  <2>1. PICK i \in 1..MaxWave : IsFree("sched", i) /\ Become(<<"sched", i>>, v)
    BY <1>2, <1>5 DEF SchedMark
  <2>2. PICK g \in WaveIds : g = <<"sched", i>>
    BY Kinds
  <2>3. v.pc = "ready" /\ v.task = t
    <3>1. "ready" \in WorkerPC
      BY DEF WorkerPC
    <3> QED
      BY <3>1, WorkerForms
  <2> HIDE DEF v
  <2>4. /\ workers[g].pc = "idle" /\ workers'[g] = v /\ g \in WorkerIds
        /\ \A h \in WorkerIds : h # g => workers'[h] = workers[h]
    BY <2>1, <2>2, Kinds DEF IsFree, Become, TypeInv, TypeOK, SchedulerTypeOK
  <2>5. \A h \in PollIds \cup CallbackIds \cup ExportIds : workers'[h] = workers[h]
    BY <2>4, Kinds
  <2>6. ClientShape' /\ SchedShape' /\ WorkerShape'
    <3>1. \A h \in WaveIds : workers'[h].pc \in {workers[h].pc, "ready"} \cap WavePC
      BY <2>3, <2>4, Kinds DEF Core, WorkerShape, WavePC
    <3>2. \A h \in WaveIds : workers'[h].pc \in {"idle", "ready"}
      BY <1>1, <3>1 DEF Core, SchedShape
    <3> QED
      BY <1>0, <1>1, <2>5, <3>1, <3>2 DEF Core, ClientShape, SchedShape, WorkerShape
  <2>7. Place'[t] \subseteq {g}
    <3>1. /\ Outside \notin Place[t] /\ Queue \notin Place[t] /\ Slot \notin Place[t]
          /\ \A h \in WaveIds \cup ExportIds : h \notin Place[t]
      BY <1>3, Places DEF Core, OnePlace
    <3>2. /\ client'[t].pc = "active" /\ ~Waits(t)' /\ sched'.task # t
          /\ ~(t \in Running' \/ workers'[<<"poll", t>>].pc \in PollEnds)
          /\ \A h \in WaveIds \cup ExportIds :
               h # g => ~(workers'[h].task = t /\ workers'[h].pc \notin Loose)
      BY <1>0, <1>1, <1>3, <2>4, <2>5, <3>1, Kinds, AtPlace DEF Waits
    <3> QED
      BY <3>2 DEF Place
  <2>8. ASSUME NEW u \in Tasks, u # t PROVE Place'[u] \subseteq Place[u]
    <3>1. workers'[g].task # u /\ sched'.task # u
      BY <1>1, <1>3, <2>3, <2>4, <2>8
    <3>2. \A h \in WaveIds \cup ExportIds :
            workers'[h].task = u /\ workers'[h].pc \notin Loose
              => workers[h].task = u /\ workers[h].pc \notin Loose
      BY <2>4, <3>1, Kinds
    <3>3. Waits(u)' = Waits(u) /\ workers'[<<"poll", u>>] = workers[<<"poll", u>>]
      BY <1>0, <2>5, Kinds DEF Waits
    <3> QED
      BY <1>0, <3>1, <3>2, <3>3 DEF Place
  <2>9. OnePlace' /\ ReportedOnce'
    BY <1>0, <1>3, <2>7, <2>8, OtherPlace
  <2>10. QueuedOnce'
    BY <1>0 DEF Core, QueuedOnce
  <2>11. CountAccounts'
    <3>1. WorkersAt({"inc"})' = WorkersAt({"inc"}) /\ WorkersAt({"dec"})' = WorkersAt({"dec"})
      BY <2>3, <2>4 DEF WorkersAt
    <3> QED
      BY <1>0, <2>6, <3>1, NothingCounted
  <2>12. Budget'
    <3>1. g \notin WaveBudget /\ g \in WaveBudget' /\ WaveBudget \ {g} = WaveBudget' \ {g}
      BY <2>3, <2>4, Kinds DEF WaveBudget, WillCount
    <3>2. Cardinality(WaveBudget') = Cardinality(WaveBudget) + 1
            /\ Cardinality(WaveBudget') \in Nat
      BY <3>1, Counters, CardinalityChange
    <3> QED
      BY <1>0, <1>1, <3>2, Counters DEF Budget
  <2> QED
    BY <2>6, <2>9, <2>10, <2>11, <2>12 DEF Core
<1> QED
  BY <1>4, <1>5

\* The wave starts.
LEMMA SchedLaunchStep ==
  ASSUME TypeInv, Core, SchedLaunch
  PROVE  Core'
<1>0. /\ UNCHANGED <<client, waitingTasks, runningTaskCount, finshedTask>>
      /\ Running' = Running
  BY DEF SchedLaunch, containerVars, resultVars, Running
<1>1. /\ sched.pc = "pop" /\ sched'.left = 0 /\ sched'.task = sched.task
      /\ sched'.pc = IF Active(WaveIds) = {} THEN "idle" ELSE "wait"
  BY DEF SchedLaunch, TypeInv, TypeOK, SchedulerTypeOK, Sched
<1>2. \A g \in WaveIds : workers[g].pc \in {"idle", "ready"}
  BY <1>1 DEF Core, SchedShape
<1>3. \A g \in WorkerIds \ WaveIds : workers'[g] = workers[g]
  BY DEF SchedLaunch, Active
<1>4. ASSUME NEW g \in WaveIds
      PROVE  \/ workers[g].pc = "idle" /\ workers'[g] = workers[g]
             \/ /\ workers[g].pc = "ready" /\ workers'[g].pc = "start"
                /\ workers'[g].task = workers[g].task
  <2>1. g \in WorkerIds /\ workers[g] \in Worker
    BY Kinds DEF TypeInv, TypeOK, SchedulerTypeOK
  <2>2. CASE workers[g].pc = "idle"
    BY <2>1, <2>2 DEF SchedLaunch, Active
  <2>3. CASE workers[g].pc = "ready"
    <3>1. workers'[g] = [workers[g] EXCEPT !.pc = "start"]
      BY <2>1, <2>3 DEF SchedLaunch, Active
    <3> QED
      BY <2>1, <2>3, <3>1 DEF Worker
  <2> QED
    BY <1>2, <2>2, <2>3
<1>5. \A g \in PollIds \cup CallbackIds \cup ExportIds : workers'[g] = workers[g]
  BY <1>3, Kinds
<1>6. ClientShape' /\ SchedShape' /\ WorkerShape'
  <2>1. Active(WaveIds) = {} => \A g \in WaveIds : workers'[g].pc = "idle"
    BY <1>4 DEF Active
  <2>2. \A g \in WaveIds : workers'[g].pc \in WavePC
    BY <1>4 DEF WavePC
  <2> QED
    BY <1>0, <1>1, <1>5, <2>1, <2>2 DEF Core, ClientShape, SchedShape, WorkerShape
<1>7. \A t \in Tasks : Place'[t] \subseteq Place[t]
  <2>1. \A g \in WaveIds \cup ExportIds :
          workers'[g].task = workers[g].task
            /\ (workers'[g].pc \in Loose <=> workers[g].pc \in Loose)
    BY <1>4, <1>5 DEF Loose
  <2>2. \A t \in Tasks : Waits(t)' = Waits(t) /\ workers'[<<"poll", t>>] = workers[<<"poll", t>>]
    BY <1>0, <1>5, Kinds DEF Waits
  <2> QED
    BY <1>0, <1>1, <2>1, <2>2 DEF Place
<1>8. OnePlace' /\ QueuedOnce' /\ ReportedOnce'
  BY <1>0, <1>7, FewerPlaces
<1>9. CountAccounts'
  <2>1. WorkersAt({"inc"})' = WorkersAt({"inc"}) /\ WorkersAt({"dec"})' = WorkersAt({"dec"})
    BY <1>3, <1>4 DEF WorkersAt
  <2> QED
    BY <1>0, <1>6, <2>1, NothingCounted
<1>10. Budget'
  <2>1. WaveBudget' = WaveBudget
    BY <1>4 DEF WaveBudget, WillCount
  <2> QED
    BY <1>0, <1>1, <2>1, Counters DEF Budget
<1> QED
  BY <1>6, <1>8, <1>9, <1>10 DEF Core

LEMMA SchedCore ==
  ASSUME TypeInv, Core, SchedStep
  PROVE  Core'
<1>1. CASE SchedDone
  <2>0. /\ UNCHANGED <<client, workers, waitingTasks, runningTaskCount, finshedTask>>
        /\ Running' = Running
    BY <1>1 DEF SchedDone, containerVars, resultVars, Running
  <2>1. /\ sched.pc = "wait" /\ sched.left = 0 /\ sched'.pc = "idle"
        /\ sched'.left = sched.left /\ sched'.task = sched.task
    BY <1>1 DEF SchedDone, Core, SchedShape, TypeInv, TypeOK, SchedulerTypeOK, Sched
  <2>2. \A g \in WaveIds : workers[g].pc = "idle"
    BY <1>1 DEF SchedDone, Active
  <2>3. ClientShape' /\ SchedShape' /\ WorkerShape'
    BY <2>0, <2>1, <2>2 DEF Core, ClientShape, SchedShape, WorkerShape
  <2>4. \A t \in Tasks : Place'[t] \subseteq Place[t]
    BY <2>0, <2>1 DEF Place, Waits
  <2>5. OnePlace' /\ QueuedOnce' /\ ReportedOnce'
    BY <2>0, <2>4, FewerPlaces
  <2>6. CountAccounts'
    BY <2>0, <2>3, NothingCounted DEF WorkersAt
  <2>7. WaveBudget' = WaveBudget
    BY <2>0 DEF WaveBudget
  <2>8. Budget'
    BY <2>0, <2>1, <2>7, Counters DEF Budget
  <2> QED
    BY <2>3, <2>5, <2>6, <2>8 DEF Core
<1> QED
  BY <1>1, SchedCountStep, SchedPopStep, SchedMarkStep, SchedLaunchStep DEF SchedStep

LEMMA CoreStep ==
  ASSUME PollMode, NoCallbacks, TypeInv, TypeInv', Core, [Next]_vars
  PROVE  Core'
<1>1. CASE UNCHANGED vars
  BY <1>1, FrameStep DEF vars, Same, containerVars, schedulerVars, loopVars, resultVars, Running
<1>2. ASSUME NEW t \in Tasks, Deadline(t) PROVE Core'
  <2>1. Running' = Running
    BY <1>2 DEF Deadline, PassDeadline, Running, Entry, TypeInv, TypeOK, ContainerTypeOK
  <2>2. Same /\ UNCHANGED workers
    BY <1>2, <2>1 DEF Deadline, PassDeadline, Same, schedulerVars, loopVars, resultVars
  <2> QED
    BY <2>2, FrameStep
<1>3. CASE ActuatorStep
  BY <1>3, FrameStep DEF ActuatorStep, Same, containerVars, schedulerVars, loopVars,
                         resultVars, Running
<1>4. CASE CallbackStep
  <2>1. PICK t \in Tasks : ProcessedExpire(t)
    BY <1>4 DEF CallbackStep, CallbackDrop, CallbackHandle, NoCallbacks
  <2> QED
    BY <2>1, FrameStep DEF ProcessedExpire, Same, containerVars, Running
<1> QED
  BY <1>1, <1>2, <1>3, <1>4, ClientCore, SchedCore, PollCore, WorkerCore DEF Next

\* Without the callback channel no run ever comes to send to it.
LEMMA NoCallbacksStep ==
  ASSUME PollMode, TypeInv, NoCallbacks, [Next]_vars
  PROVE  NoCallbacks'
<1>1. ASSUME UNCHANGED <<callbackChannel, runs>> PROVE NoCallbacks'
  BY <1>1 DEF NoCallbacks
<1>2. CASE UNCHANGED vars
  BY <1>1, <1>2 DEF vars, actuatorVars
<1>3. ASSUME NEW t \in Tasks, ClientStep(t) \/ Deadline(t) PROVE NoCallbacks'
  BY <1>1, <1>3 DEF ClientStep, AddTaskMark, AddTaskPush, AddTaskTimeout, StopTaskMap,
                    StopTaskDec, StopTaskActuator, Clear, Deadline, actuatorVars
<1>4. CASE SchedStep
  BY <1>1, <1>4 DEF SchedStep, SchedCount, SchedPop, SchedMark, SchedLaunch, SchedDone,
                    actuatorVars
<1>5. CASE PollStep
  BY <1>1, <1>5 DEF PollStep, PollSnapshot, PollLaunch, PollQuery, PollForget, Forget,
                    actuatorVars
<1>6. CASE CallbackStep
  <2>1. PICK t \in Tasks : ProcessedExpire(t)
    BY <1>6 DEF CallbackStep, CallbackDrop, CallbackHandle, NoCallbacks
  <2> QED
    BY <1>1, <2>1 DEF ProcessedExpire, actuatorVars
<1>7. ASSUME NEW g \in WorkerIds, WorkerStep(g) PROVE NoCallbacks'
  <2>1. CASE StartLaunch(g)
    BY <2>1 DEF StartLaunch, Launch, NoCallbacks
  <2>2. CASE ~StartLaunch(g)
    BY <1>1, <1>7, <2>2 DEF WorkerStep, StartCheck, LimitCheck, ToRunning, ToRunningCount,
                            ToRunningStore, LeaveRunning, LeaveRunningCount, Finish, StopActuator,
                            SpawnExport, FetchOutput, ClearOutput, Persist, Clear, actuatorVars
  <2> QED
    BY <2>1, <2>2
<1>8. CASE ActuatorStep
  <2>1. PICK r \in runs : RunStep(r)
    BY <1>8 DEF ActuatorStep
  <2>2. r \in Run /\ r.pc # "callback"
    BY DEF NoCallbacks, TypeInv, TypeOK, ActuatorTypeOK
  <2>3. UNCHANGED callbackChannel
    BY <2>1, <2>2 DEF RunStep, RunReturn, RunSave, RunPublish, RunCallback
  <2>4. \A pc \in {"save", "publish"}, ok \in BOOLEAN :
          /\ [r EXCEPT !.ok = ok, !.pc = pc].pc = pc
          /\ [r EXCEPT !.pc = pc].pc = pc
    BY <2>2 DEF Run
  <2>5. ASSUME NEW q \in runs' PROVE q \in runs \/ q.pc \in {"save", "publish"}
    <3>1. CASE RunSave(r)
      BY <2>4, <3>1 DEF RunSave, Move
    <3>2. CASE RunPublish(r)
      BY <3>2 DEF RunPublish, PollMode
    <3>3. ASSUME NEW ok \in BOOLEAN, RunReturn(r, ok)
          PROVE  q \in runs \/ q.pc \in {"save", "publish"}
      <4>1. PICK pc \in {"save", "publish"} :
              runs' \subseteq runs \cup {[r EXCEPT !.ok = ok, !.pc = pc]}
        BY <3>3 DEF RunReturn, Move
      <4> DEFINE v == [r EXCEPT !.ok = ok, !.pc = pc]
      <4>2. v.pc = pc /\ runs' \subseteq runs \cup {v}
        BY <2>4, <4>1
      <4> HIDE DEF v
      <4> QED
        BY <4>2
    <3> QED
      BY <2>1, <2>2, <3>1, <3>2, <3>3 DEF RunStep, RunCallback
  <2> QED
    BY <2>3, <2>5 DEF NoCallbacks
<1> QED
  BY <1>2, <1>3, <1>4, <1>5, <1>6, <1>7, <1>8 DEF Next

-----------------------------------------------------------------------------
(* The invariant, and what follows from it.                                *)

LEMMA PollParts == PollInvariant <=> TypeInv /\ NoCallbacks /\ Core
BY DEF PollInvariant, Shape, Core

LEMMA PollInit == PollMode /\ Init => PollInvariant
<1> SUFFICES ASSUME PollMode, Init PROVE PollInvariant
  OBVIOUS
<1>1. TypeInv
  BY TypeInit
<1>2. /\ waitingTasks = <<>> /\ Running = {} /\ runningTaskCount = 0
      /\ callbackChannel = <<>> /\ runs = {}
      /\ client = [t \in Tasks |-> [pc |-> "out", stops |-> 0, told |-> "waiting"]]
      /\ sched = [pc |-> "idle", left |-> 0, task |-> NoTask]
      /\ \A g \in WorkerIds : workers[g].pc = "idle"
      /\ \A t \in Tasks : finshedTask[t] = <<>>
  BY WorkerForms DEF Init, ContainerInit, ActuatorInit, Running, Absent
<1>3. NoCallbacks /\ ClientShape
  BY <1>2 DEF NoCallbacks, ClientShape
<1>4. SchedShape /\ WorkerShape
  BY <1>2, Kinds DEF SchedShape, WorkerShape, WavePC, ExportPC, PollPC, PollHolds, PollEnds
<1>5. \A t \in Tasks : Place[t] \subseteq {Outside}
  <2>1. \A g \in WaveIds \cup ExportIds : workers[g].pc \in Loose
    BY <1>2, Kinds DEF Loose
  <2>2. \A t \in Tasks : ~Waits(t) /\ sched.task # t /\ t \notin Running
    BY <1>2, SchedulerAssumption DEF Waits
  <2>3. \A t \in Tasks : workers[<<"poll", t>>].pc \notin PollEnds
    BY <1>2, Kinds DEF PollEnds
  <2> QED
    BY <2>1, <2>2, <2>3 DEF Place
<1>6. OnePlace /\ QueuedOnce /\ ReportedOnce
  BY <1>2, <1>5 DEF OnePlace, QueuedOnce, ReportedOnce
<1>7. /\ WorkersAt({"inc"}) = {} /\ WorkersAt({"dec"}) = {} /\ WaveBudget = {}
      /\ {t \in Tasks : client[t].pc = "dec"} = {}
  BY <1>2, Kinds DEF WorkersAt, WaveBudget, WillCount
<1>8. Cardinality({}) = 0
  BY FS_EmptySet
<1>9. CountAccounts
  <2>1. /\ Cardinality(Running) = 0
        /\ Cardinality(WorkersAt({"inc"})) = 0 /\ Cardinality(WorkersAt({"dec"})) = 0
        /\ Cardinality({t \in Tasks : client[t].pc = "dec"}) = 0
    BY <1>2, <1>7, <1>8
  <2>2. runningTaskCount = 0
    BY <1>2
  <2> QED
    BY <2>1, <2>2 DEF CountAccounts
<1>10. Budget
  <2>1. sched.left = 0 /\ sched.pc # "mark" /\ TaskLimit \in Nat
    BY <1>2, SchedulerAssumption
  <2> QED
    BY <1>2, <1>7, <1>8, <2>1 DEF Budget
<1> QED
  BY <1>1, <1>3, <1>4, <1>6, <1>9, <1>10, PollParts DEF Core

LEMMA PollStepKeeps == PollMode /\ PollInvariant /\ [Next]_vars => PollInvariant'
<1> SUFFICES ASSUME PollMode, PollInvariant, [Next]_vars PROVE PollInvariant'
  OBVIOUS
<1>1. TypeInv /\ NoCallbacks /\ Core
  BY PollParts
<1>2. TypeInv'
  BY <1>1, TypeStep
<1>3. NoCallbacks'
  BY <1>1, NoCallbacksStep
<1>4. Core'
  BY <1>1, <1>2, CoreStep
<1> QED
  BY <1>2, <1>3, <1>4 DEF PollInvariant, Shape, Core

\* In poll mode without stops a task is in one place at a time, and the slots
\* taken, set aside or about to be counted never exceed TaskLimit.
THEOREM PollInvariantHolds ==
  ASSUME PollMode
  PROVE  Safety => []PollInvariant
<1>1. Init => PollInvariant
  BY PollInit
<1>2. PollInvariant /\ [Next]_vars => PollInvariant'
  BY PollStepKeeps
<1> QED
  BY <1>1, <1>2, PTL DEF Safety

LEMMA LimitFollows == PollInvariant => RunningWithinLimit /\ NoStartTakenBack
<1> SUFFICES ASSUME PollInvariant PROVE RunningWithinLimit /\ NoStartTakenBack
  OBVIOUS
<1>0. TypeInv /\ Core
  BY PollParts
<1>1. WorkersAt({"inc"}) \subseteq WaveBudget /\ WorkersAt({"limit"}) \subseteq WaveBudget
  BY <1>0, Whose DEF WorkersAt, WaveBudget, WillCount
<1>2. Cardinality(WorkersAt({"inc"})) <= Cardinality(WaveBudget)
  BY <1>0, <1>1, Counters, FS_Subset
<1>3. Cardinality(Running) <= TaskLimit
  BY <1>0, <1>2, Counters
<1>4. ASSUME NEW g \in WorkersAt({"limit"}) PROVE runningTaskCount < TaskLimit
  <2>1. Cardinality(WaveBudget) # 0
    BY <1>0, <1>1, <1>4, Counters, FS_EmptySet
  <2> QED
    BY <1>0, <2>1, Counters
<1> QED
  BY <1>3, <1>4 DEF RunningWithinLimit, NoStartTakenBack

LEMMA ReportFollows == PollInvariant => FinishedOnce /\ FinishedIsGone
<1> SUFFICES ASSUME PollInvariant, NEW t \in Tasks
             PROVE  /\ Len(finshedTask[t]) <= Adds(t)
                    /\ finshedTask[t] # <<>> => Gone(t)
  BY DEF FinishedOnce, FinishedIsGone
<1>0. TypeInv /\ Core
  BY PollParts
<1>1. finshedTask[t] \in Seq({"success", "failed"}) /\ client[t].stops = 0
  BY <1>0 DEF TypeInv, TypeOK, SchedulerTypeOK, Core, ClientShape
<1>2. CASE finshedTask[t] = <<>>
  BY <1>1, <1>2 DEF Adds
<1>3. CASE finshedTask[t] # <<>>
  <2>1. Len(finshedTask[t]) = 1 /\ Place[t] = {}
    BY <1>0, <1>3 DEF Core, ReportedOnce
  <2>2. client[t].pc = "active" /\ ~Waits(t) /\ sched.task # t /\ t \notin Running
    BY <2>1, AtPlace
  <2>3. ASSUME NEW g \in WorkersOn(t, Starting \cup {"restore"}) PROVE FALSE
    <3>1. /\ g \in WorkerIds /\ workers[g].task = t
          /\ workers[g].pc \in {"ready", "start", "launch", "limit", "store", "restore"}
      BY DEF WorkersOn, WorkersAt, Starting
    <3>2. g \in WaveIds \cup PollIds
      BY <1>0, <3>1, Whose
    <3>3. CASE g \in WaveIds
      BY <2>1, <3>1, <3>3, AtPlace DEF Loose
    <3>4. CASE g \in PollIds
      <4>1. workers[g].pc \in PollHolds
        BY <1>0, <3>1, <3>4 DEF Core, WorkerShape, PollPC, PollEnds, PollHolds
      <4> QED
        BY <1>0, <2>2, <3>1, <3>4, <4>1 DEF Core, WorkerShape
    <3> QED
      BY <3>2, <3>3, <3>4
  <2>4. WorkersOn(t, Starting \cup {"restore"}) = {}
    BY <2>3
  <2>5. Gone(t)
    BY <2>2, <2>4 DEF Gone
  <2>6. Adds(t) = 1
    BY <1>1, <2>2 DEF Adds
  <2> QED
    BY <2>1, <2>5, <2>6
<1> QED
  BY <1>2, <1>3

LEMMA StartsFollow ==
  PollInvariant /\ [Next]_vars =>
    \A t \in Tasks : finshedTask[t] # <<>> => starts'[t] = starts[t]
<1> SUFFICES ASSUME PollInvariant, [Next]_vars, NEW t \in Tasks, finshedTask[t] # <<>>
             PROVE  starts'[t] = starts[t]
  OBVIOUS
<1>1. CASE \E g \in WorkerIds : StartLaunch(g)
  <2>1. PICK g \in WorkerIds : StartLaunch(g)
    BY <1>1
  <2>2. workers[g].pc = "launch"
    BY <2>1 DEF StartLaunch, At
  <2>3. workers[g].task # t
    BY <2>2, ReportFollows DEF FinishedIsGone, Gone, WorkersOn, WorkersAt, Starting
  <2>4. starts \in [Tasks -> Nat]
    BY DEF PollInvariant, TypeInv, TypeOK, ActuatorTypeOK
  <2> QED
    BY <2>1, <2>3, <2>4 DEF StartLaunch, Launch
<1>2. CASE ~\E g \in WorkerIds : StartLaunch(g)
  <2>1. UNCHANGED starts
    <3>1. ASSUME NEW u \in Tasks, ClientStep(u) \/ Deadline(u) PROVE UNCHANGED starts
      BY <3>1 DEF ClientStep, AddTaskMark, AddTaskPush, AddTaskTimeout, StopTaskMap,
                  StopTaskDec, StopTaskActuator, Clear, Deadline, actuatorVars
    <3>2. CASE SchedStep
      BY <3>2 DEF SchedStep, SchedCount, SchedPop, SchedMark, SchedLaunch, SchedDone,
                  actuatorVars
    <3>3. CASE PollStep
      BY <3>3 DEF PollStep, PollSnapshot, PollLaunch, PollQuery, PollForget, Forget,
                  actuatorVars
    <3>4. CASE CallbackStep
      BY <3>4 DEF CallbackStep, CallbackDrop, CallbackHandle, ProcessedExpire, Receive,
                  actuatorVars
    <3>5. ASSUME NEW g \in WorkerIds, WorkerStep(g) PROVE UNCHANGED starts
      BY <1>2, <3>5 DEF WorkerStep, StartCheck, LimitCheck, ToRunning, ToRunningCount,
                        ToRunningStore, LeaveRunning, LeaveRunningCount, Finish, StopActuator,
                        SpawnExport, FetchOutput, ClearOutput, Persist, Clear, actuatorVars
    <3>6. CASE ActuatorStep
      BY <3>6 DEF ActuatorStep, RunStep, RunReturn, RunSave, RunPublish, RunCallback
    <3>7. CASE UNCHANGED vars
      BY <3>7 DEF vars, actuatorVars
    <3> QED
      BY <3>1, <3>2, <3>3, <3>4, <3>5, <3>6, <3>7 DEF Next
  <2> QED
    BY <2>1
<1> QED
  BY <1>1, <1>2

\* In poll mode without stops, for every TaskLimit, at most TaskLimit tasks are
\* in runningTaskMap although the count is read before the tasks are stored.
THEOREM LimitKept ==
  ASSUME PollMode
  PROVE  Safety => []RunningWithinLimit
BY PollInvariantHolds, LimitFollows, PTL

\* A goroutine of a wave never finds the running count at the limit after it
\* has started its task: the second check of scheduleOnce never fails.
THEOREM NoStartIsTakenBack ==
  ASSUME PollMode
  PROVE  Safety => []NoStartTakenBack
BY PollInvariantHolds, LimitFollows, PTL

\* runningTaskCount differs from the entries of runningTaskMap by the updates
\* that are under way, and by nothing else.
THEOREM CountIsExact ==
  ASSUME PollMode
  PROVE  Safety => []CountAccounts
<1>1. PollInvariant => CountAccounts
  BY DEF PollInvariant
<1> QED
  BY <1>1, PollInvariantHolds, PTL

\* Every task is reported at most once for its AddTask.
THEOREM ReportedAtMostOnce ==
  ASSUME PollMode
  PROVE  Safety => []FinishedOnce
BY PollInvariantHolds, ReportFollows, PTL

\* A reported task has left the queue and the running map, and no goroutine is
\* about to start it or to store it.
THEOREM ReportedAndGone ==
  ASSUME PollMode
  PROVE  Safety => []FinishedIsGone
BY PollInvariantHolds, ReportFollows, PTL

\* The function of a reported task is never started again.
THEOREM ReportedNeverRestarts ==
  ASSUME PollMode
  PROVE  Safety => NoRestart
<1>1. PollInvariant /\ [Next]_vars =>
        [\A t \in Tasks : finshedTask[t] # <<>> => starts'[t] = starts[t]]_vars
  BY StartsFollow
<1> QED
  BY <1>1, PollInvariantHolds, PTL DEF Safety, NoRestart
=============================================================================
