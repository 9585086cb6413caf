------------------------ MODULE DockerActuatorProofs ------------------------
(***************************************************************************)
(* Proofs about the docker actuator, for any tasks, names, number of       *)
(* containers and number of failing calls.                                 *)
(***************************************************************************)
EXTENDS DockerActuator, TLAPS

Ids == DOMAIN containers

Container == [task : Tasks, state : {"created", "running", "exited", "removed"},
              exit : {"none", "0", "1"}]

Shape ==
  /\ containers \in Seq(Container)
  /\ DOMAIN runningTask \subseteq Tasks
  /\ runningTask \in [DOMAIN runningTask -> Ids]
  /\ caller \in [Tasks -> Int]
  /\ round \subseteq Tasks
  /\ DOMAIN status \subseteq Tasks
  /\ status \in [DOMAIN status -> {"running", "success", "failed"}]

\* an entry is a container of its own task that was started
Owned == \A t \in DOMAIN runningTask :
  /\ containers[runningTask[t]].task = t
  /\ containers[runningTask[t]].state # "created"

\* between ContainerCreate and ContainerStart
Held == \A t \in Tasks : caller[t] \notin {In, Out} =>
  caller[t] \in Latest(t) /\ containers[caller[t]].state = "created"

\* only tasks of the running map are asked for
Polled == \A t \in round \cup DOMAIN status : caller[t] = In

\* a name is in use once
Unique == \A c, d \in Ids :
  containers[c].task = containers[d].task /\ Exists(c) /\ Exists(d) => c = d

NoExit == \A c \in Ids :
  containers[c].state \in {"created", "running"} => containers[c].exit = "none"

Inv == /\ Shape /\ Owned /\ Held /\ Polled /\ Unique /\ NoExit
       /\ EntryIsOwn /\ RunningIsKnown /\ SuccessIsExit0


-----------------------------------------------------------------------------
(* The daemon's containers.                                                *)

\* A task has one last container.
LEMMA OneLatest ==
  ASSUME containers \in Seq(Container), NEW t \in Tasks, NEW c \in Latest(t), NEW d \in Latest(t)
  PROVE  c = d
BY DEF Latest

\* What happens to a container leaves every task its last one.
LEMMA Changed ==
  ASSUME containers \in Seq(Container), NEW c \in Ids, NEW v \in Container,
         v.task = containers[c].task, containers' = [containers EXCEPT ![c] = v]
  PROVE  /\ containers' \in Seq(Container)
         /\ Ids' = Ids
         /\ \A d \in Ids : containers'[d] = IF d = c THEN v ELSE containers[d]
         /\ \A t \in Tasks : Latest(t)' = Latest(t)
<1>1. containers' \in Seq(Container) /\ Len(containers') = Len(containers)
  BY DEF Ids
<1>2. Ids' = Ids /\ \A d \in Ids : containers'[d] = IF d = c THEN v ELSE containers[d]
  BY <1>1 DEF Ids
<1>3. \A d \in Ids : containers'[d].task = containers[d].task
  BY <1>2
<1>4. \A t \in Tasks : Latest(t)' = Latest(t)
  BY <1>1, <1>2, <1>3 DEF Latest, Ids
<1> QED  BY <1>1, <1>2, <1>4

\* The same for a new state.
LEMMA StateSet ==
  ASSUME containers \in Seq(Container), NEW c \in Ids,
         NEW s \in {"created", "running", "exited", "removed"}, SetState(c, s)
  PROVE  /\ containers' \in Seq(Container)
         /\ Ids' = Ids
         /\ \A d \in Ids : /\ containers'[d].task = containers[d].task
                           /\ containers'[d].exit = containers[d].exit
                           /\ containers'[d].state = IF d = c THEN s ELSE containers[d].state
         /\ \A t \in Tasks : Latest(t)' = Latest(t)
<1> DEFINE v == [containers[c] EXCEPT !.state = s]
<1>1. containers[c] \in Container
  BY DEF Ids
<1>2. v \in Container /\ v.task = containers[c].task /\ v.exit = containers[c].exit /\ v.state = s
  BY <1>1 DEF Container
<1>3. containers' = [containers EXCEPT ![c] = v]
  BY DEF SetState
<1> HIDE DEF v
<1>4. /\ containers' \in Seq(Container) /\ Ids' = Ids
      /\ \A d \in Ids : containers'[d] = IF d = c THEN v ELSE containers[d]
      /\ \A t \in Tasks : Latest(t)' = Latest(t)
  BY <1>2, <1>3, Changed
<1> QED  BY <1>2, <1>4

\* A container that is created is its task's last one.
LEMMA Appended ==
  ASSUME containers \in Seq(Container), NEW t \in Tasks,
         containers' = Append(containers, [task |-> t, state |-> "created", exit |-> "none"])
  PROVE  /\ containers' \in Seq(Container)
         /\ Ids' = Ids \cup {Len(containers) + 1}
         /\ Len(containers) + 1 \notin Ids
         /\ \A d \in Ids : containers'[d] = containers[d]
         /\ containers'[Len(containers) + 1] = [task |-> t, state |-> "created", exit |-> "none"]
         /\ Latest(t)' = {Len(containers) + 1}
         /\ \A u \in Tasks \ {t} : Latest(u)' = Latest(u)
<1> DEFINE n == Len(containers) + 1
           v == [task |-> t, state |-> "created", exit |-> "none"]
<1>1. v \in Container
  BY DEF Container
<1>2. /\ containers' \in Seq(Container) /\ Len(containers') = n
      /\ \A d \in Ids : containers'[d] = containers[d]
      /\ containers'[n] = v
  BY <1>1 DEF Ids
<1>3. Ids' = Ids \cup {n} /\ n \notin Ids /\ Ids = 1..Len(containers) /\ Len(containers) \in Nat
  BY <1>2 DEF Ids
<1>4. Latest(t)' = {n}
  BY <1>2, <1>3 DEF Latest, Ids
<1>5. ASSUME NEW u \in Tasks \ {t}
      PROVE  Latest(u)' = Latest(u)
  BY <1>2, <1>3 DEF Latest, Ids
<1> QED  BY <1>2, <1>3, <1>4, <1>5

-----------------------------------------------------------------------------
(* The steps.                                                              *)

LEMMA InitInv == Init => Inv
<1> SUFFICES ASSUME Init PROVE Inv
  OBVIOUS
<1>1. Ids = {} /\ DOMAIN runningTask = {} /\ DOMAIN status = {} /\ round = {}
  BY DEF Init, Ids
<1>2. Shape
  BY <1>1 DEF Init, Shape, Out
<1> QED
  BY <1>1, <1>2 DEF Init, Inv, Owned, Held, Polled, Unique, NoExit, EntryIsOwn, RunningIsKnown,
    SuccessIsExit0, Ids, Out

\* The bound on faults is no part of the invariant.
LEMMA Still ==
  ASSUME Inv, UNCHANGED <<containers, runningTask, caller, round, status, lost>>
  PROVE  Inv'
BY DEF Inv, Shape, Owned, Held, Polled, Unique, NoExit, EntryIsOwn, RunningIsKnown,
  SuccessIsExit0, Ids, Exists, Latest

LEMMA CreateStep ==
  ASSUME Inv, NEW t \in Tasks, Create(t)
  PROVE  Inv'
<1> DEFINE n == Len(containers) + 1
<1>1. CASE UNCHANGED containers
  BY <1>1, Still DEF Create, Inv, Shape, Move
<1>2. CASE ~ UNCHANGED containers
  <2>1. /\ containers' = Append(containers, [task |-> t, state |-> "created", exit |-> "none"])
        /\ caller[t] = Out /\ Named(t) = {}
        /\ Move(t, n) \/ UNCHANGED caller
        /\ UNCHANGED <<runningTask, round, status, lost>>
    BY <1>2 DEF Create
  <2>2. /\ containers' \in Seq(Container)
        /\ Ids' = Ids \cup {n} /\ n \notin Ids
        /\ \A d \in Ids : containers'[d] = containers[d]
        /\ containers'[n] = [task |-> t, state |-> "created", exit |-> "none"]
        /\ Latest(t)' = {n}
        /\ \A u \in Tasks \ {t} : Latest(u)' = Latest(u)
    BY <2>1, Appended DEF Inv, Shape
  <2>3. n \in Nat \ {0} /\ Ids \subseteq Nat
    BY DEF Inv, Shape, Ids
  <2>4. /\ caller' \in [Tasks -> Int]
        /\ caller'[t] \in {Out, n} /\ \A u \in Tasks \ {t} : caller'[u] = caller[u]
    BY <2>1, <2>3 DEF Inv, Shape, Move, Out
  <2>5. Shape'
    BY <2>1, <2>2, <2>4 DEF Inv, Shape
  <2>6. Owned' /\ NoExit'
    <3>1. \A u \in DOMAIN runningTask : runningTask[u] \in Ids
      BY DEF Inv, Shape
    <3>2. Owned'
      BY <2>1, <2>2, <3>1 DEF Inv, Owned
    <3>3. NoExit'
      BY <2>2 DEF Inv, NoExit
    <3> QED  BY <3>2, <3>3
  <2>7. Held'
    <3> SUFFICES ASSUME NEW u \in Tasks, caller'[u] \notin {In, Out}
                 PROVE  caller'[u] \in Latest(u)' /\ containers'[caller'[u]].state = "created"
      BY DEF Held, In, Out
    <3>1. CASE u = t
      BY <3>1, <2>2, <2>4
    <3>2. CASE u # t
      <4>1. caller'[u] = caller[u] /\ caller[u] \in Latest(u) /\ containers[caller[u]].state = "created"
        BY <3>2, <2>4 DEF Inv, Held
      <4>2. caller[u] \in Ids
        BY <4>1 DEF Latest, Ids
      <4> QED  BY <3>2, <4>1, <4>2, <2>2
    <3> QED  BY <3>1, <3>2
  <2>8. Polled'
    BY <2>1, <2>4 DEF Inv, Shape, Polled, In, Out
  <2>9. Unique'
    <3>1. \A c \in Ids : containers[c].task = t => ~Exists(c)
      BY <2>1 DEF Named, Ids
    <3> QED  BY <2>2, <3>1 DEF Inv, Unique, Exists
  <2>10. EntryIsOwn'
    BY <2>1, <2>2, <2>3, <2>4 DEF Inv, Shape, EntryIsOwn, In, Out
  <2>11. RunningIsKnown'
    BY <2>1, <2>2 DEF Inv, RunningIsKnown, Ids
  <2>12. SuccessIsExit0'
    <3> SUFFICES ASSUME NEW u \in DOMAIN status, status[u] = "success", NEW c \in Latest(u)'
                 PROVE  containers'[c].exit = "0"
      BY <2>1 DEF SuccessIsExit0
    <3>1. u \in Tasks /\ caller[u] = In
      BY DEF Inv, Shape, Polled
    <3>2. u # t /\ c \in Latest(u)
      BY <3>1, <2>1, <2>2 DEF In, Out
    <3>3. c \in Ids
      BY <3>2 DEF Latest, Ids
    <3> QED  BY <3>2, <3>3, <2>2 DEF Inv, SuccessIsExit0
  <2> QED  BY <2>5, <2>6, <2>7, <2>8, <2>9, <2>10, <2>11, <2>12 DEF Inv
<1> QED  BY <1>1, <1>2

LEMMA LaunchStep ==
  ASSUME Inv, NEW t \in Tasks, Launch(t)
  PROVE  Inv'
<1> DEFINE c == caller[t]
<1>1. c \notin {In, Out} /\ c \in Latest(t) /\ c \in Ids /\ containers[c].state = "created"
  <2>1. c \notin {In, Out}
    BY DockerAssumption DEF Launch, ContainerIds, In, Out
  <2> QED  BY <2>1 DEF Inv, Held, Latest, Ids
<1>2. containers[c].task = t /\ containers[c].exit = "none" /\ Exists(c)
  BY <1>1 DEF Latest, Inv, NoExit, Exists
<1>3. containers \in Seq(Container) /\ UNCHANGED <<round, status>> /\ t \notin round \cup DOMAIN status
  BY <1>1 DEF Inv, Shape, Launch, Polled
<1>4. /\ containers' \in Seq(Container) /\ Ids' = Ids
      /\ \A d \in Ids : /\ containers'[d].task = containers[d].task
                        /\ containers'[d].exit = containers[d].exit
                        /\ d # c => containers'[d].state = containers[d].state
                        /\ containers'[c].state \in {"created", "running"}
      /\ \A u \in Tasks : Latest(u)' = Latest(u)
  <2>1. CASE UNCHANGED containers
    BY <1>1, <1>3, <2>1 DEF Ids, Latest
  <2>2. CASE SetState(c, "running")
    BY <1>1, <1>3, <2>2, StateSet
  <2> QED  BY <2>1, <2>2 DEF Launch
<1>5. /\ caller' \in [Tasks -> Int]
      /\ caller'[t] \in {In, Out} /\ \A u \in Tasks \ {t} : caller'[u] = caller[u]
  BY DEF Inv, Shape, Launch, Move, In, Out
<1>6. /\ Held' /\ NoExit' /\ Unique' /\ Polled'
  <2>1. Held'
    <3> SUFFICES ASSUME NEW u \in Tasks, caller'[u] \notin {In, Out}
                 PROVE  caller'[u] \in Latest(u)' /\ containers'[caller'[u]].state = "created"
      BY DEF Held, In, Out
    <3>1. u # t /\ caller'[u] = caller[u]
      BY <1>5
    <3>2. caller[u] \in Latest(u) /\ containers[caller[u]].state = "created"
      BY <3>1 DEF Inv, Held
    <3>3. caller[u] \in Ids /\ containers[caller[u]].task = u
      BY <3>2 DEF Latest, Ids
    <3> QED  BY <1>2, <1>4, <3>1, <3>2, <3>3
  <2>2. NoExit'
    BY <1>2, <1>4 DEF Inv, NoExit
  <2>3. Unique'
    BY <1>2, <1>4 DEF Inv, Unique, Exists
  <2>4. Polled'
    BY <1>3, <1>5 DEF Inv, Shape, Polled
  <2> QED  BY <2>1, <2>2, <2>3, <2>4
<1>7. SuccessIsExit0'
  <2> SUFFICES ASSUME NEW u \in DOMAIN status, status[u] = "success", NEW d \in Latest(u)'
               PROVE  containers'[d].exit = "0"
    BY <1>3 DEF SuccessIsExit0
  <2>1. u \in Tasks
    BY DEF Inv, Shape
  <2>2. d \in Latest(u) /\ d \in Ids
    BY <1>4, <2>1 DEF Latest, Ids
  <2> QED  BY <1>4, <2>2 DEF Inv, SuccessIsExit0
<1>8. CASE /\ SetState(c, "running") /\ Move(t, In) /\ Store(t, c) /\ lost' = lost
  <2>1. /\ DOMAIN runningTask' = DOMAIN runningTask \cup {t}
        /\ runningTask' \in [DOMAIN runningTask' -> Ids]
        /\ runningTask'[t] = c
        /\ \A u \in DOMAIN runningTask \ {t} : runningTask'[u] = runningTask[u]
    BY <1>1, <1>8 DEF Store, Inv, Shape
  <2>2. \A u \in DOMAIN runningTask : runningTask[u] \in Ids
    BY DEF Inv, Shape
  <2>3. Shape'
    BY <1>3, <1>4, <1>5, <2>1 DEF Inv, Shape
  <2>7. containers'[c].state = "running"
    BY <1>1, <1>3, <1>8, StateSet
  <2>4. Owned'
    <3> SUFFICES ASSUME NEW u \in DOMAIN runningTask'
                 PROVE  /\ containers'[runningTask'[u]].task = u
                        /\ containers'[runningTask'[u]].state # "created"
      BY DEF Owned
    <3>1. CASE u = t
      BY <3>1, <1>1, <1>2, <1>4, <2>1, <2>7
    <3>2. CASE u # t
      <4>1. /\ u \in DOMAIN runningTask /\ runningTask'[u] = runningTask[u]
            /\ runningTask[u] \in Ids /\ runningTask[u] # c
            /\ containers[runningTask[u]].task = u /\ containers[runningTask[u]].state # "created"
        BY <3>2, <1>1, <2>1, <2>2 DEF Inv, Owned
      <4> QED  BY <4>1, <1>4
    <3> QED  BY <3>1, <3>2
  <2>5. EntryIsOwn'
    <3> SUFFICES ASSUME NEW u \in DOMAIN runningTask', caller'[u] = In
                 PROVE  runningTask'[u] \in Latest(u)'
      BY DEF EntryIsOwn, In
    <3>1. u \in Tasks
      BY <2>3 DEF Shape
    <3>2. CASE u = t
      BY <3>2, <1>1, <1>4, <2>1
    <3>3. CASE u # t
      BY <3>1, <3>3, <1>4, <1>5, <2>1 DEF Inv, EntryIsOwn
    <3> QED  BY <3>2, <3>3
  <2>6. RunningIsKnown'
    <3> SUFFICES ASSUME NEW d \in Ids, containers'[d].state = "running", d \notin lost
                 PROVE  containers'[d].task \in DOMAIN runningTask' /\ runningTask'[containers'[d].task] = d
      BY <1>4, <1>8 DEF RunningIsKnown, Ids
    <3>1. CASE d = c
      BY <3>1, <1>2, <1>4, <2>1
    <3>2. CASE d # c
      <4>1. containers[d].state = "running" /\ containers'[d].task = containers[d].task
        BY <3>2, <1>4
      <4>2. containers[d].task # t
        BY <3>2, <4>1, <1>1, <1>2 DEF Inv, Unique, Exists
      <4> QED  BY <4>1, <4>2, <2>1 DEF Inv, RunningIsKnown, Ids
    <3> QED  BY <3>1, <3>2
  <2> QED  BY <1>6, <1>7, <2>3, <2>4, <2>5, <2>6 DEF Inv
<1>9. CASE /\ Move(t, Out) /\ lost' = lost \cup {c} /\ UNCHANGED runningTask
  <2>0. caller'[t] = Out
    BY <1>9 DEF Move, Inv, Shape
  <2>1. \A u \in DOMAIN runningTask : runningTask[u] \in Ids /\ u \in Tasks
    BY DEF Inv, Shape
  <2>2. Shape'
    BY <1>3, <1>4, <1>5, <1>9 DEF Inv, Shape
  <2>3. Owned'
    <3> SUFFICES ASSUME NEW u \in DOMAIN runningTask
                 PROVE  /\ containers'[runningTask[u]].task = u
                        /\ containers'[runningTask[u]].state # "created"
      BY <1>9 DEF Owned
    <3>1. /\ runningTask[u] \in Ids /\ runningTask[u] # c
          /\ containers[runningTask[u]].task = u /\ containers[runningTask[u]].state # "created"
      BY <1>1, <2>1 DEF Inv, Owned
    <3> QED  BY <3>1, <1>4
  <2>4. EntryIsOwn'
    BY <1>4, <1>5, <1>9, <2>0, <2>1 DEF Inv, EntryIsOwn, In, Out
  <2>5. RunningIsKnown'
    BY <1>4, <1>9 DEF Inv, RunningIsKnown, Ids
  <2> QED  BY <1>6, <1>7, <2>2, <2>3, <2>4, <2>5 DEF Inv
<1> QED  BY <1>8, <1>9 DEF Launch

-----------------------------------------------------------------------------
(* The steps in which containers, entries and tasks only leave.            *)

\* containers are removed that were started, or none
Removing ==
  /\ containers' \in Seq(Container) /\ Ids' = Ids
  /\ \A d \in Ids : /\ containers'[d].task = containers[d].task
                    /\ containers'[d].exit = containers[d].exit
                    /\ \/ containers'[d].state = containers[d].state
                       \/ containers'[d].state = "removed" /\ containers[d].state # "created"
  /\ \A u \in Tasks : Latest(u)' = Latest(u)

\* entries go of which the container does not run
Forgetting ==
  /\ DOMAIN runningTask' \subseteq DOMAIN runningTask
  /\ runningTask' \in [DOMAIN runningTask' -> Ids]
  /\ \A u \in DOMAIN runningTask' : runningTask'[u] = runningTask[u]
  /\ \A u \in DOMAIN runningTask \ DOMAIN runningTask' :
       containers'[runningTask[u]].state # "running"

\* tasks leave the running map
Leaving ==
  /\ caller' \in [Tasks -> Int]
  /\ \A u \in Tasks : caller'[u] = caller[u] \/ (caller[u] = In /\ caller'[u] = Out)

LEMMA LeavingStep ==
  ASSUME Inv, Removing, Forgetting, Leaving, UNCHANGED lost
  PROVE  Owned' /\ Held' /\ Unique' /\ NoExit' /\ EntryIsOwn' /\ RunningIsKnown'
<1>1. \A u \in DOMAIN runningTask : runningTask[u] \in Ids /\ u \in Tasks
  BY DEF Inv, Shape
<1>2. Owned'
  BY <1>1 DEF Inv, Owned, Removing, Forgetting
<1>3. Held'
  <2> SUFFICES ASSUME NEW u \in Tasks, caller'[u] \notin {In, Out}
               PROVE  caller'[u] \in Latest(u)' /\ containers'[caller'[u]].state = "created"
    BY DEF Held, In, Out
  <2>1. caller'[u] = caller[u]
    BY DEF Leaving
  <2>2. caller[u] \in Latest(u) /\ containers[caller[u]].state = "created"
    BY <2>1 DEF Inv, Held
  <2>3. caller[u] \in Ids
    BY <2>2 DEF Latest, Ids
  <2> QED  BY <2>1, <2>2, <2>3 DEF Removing
<1>4. Unique'
  BY DEF Inv, Unique, Removing, Exists
<1>5. NoExit'
  BY DEF Inv, NoExit, Removing
<1>6. EntryIsOwn'
  BY <1>1 DEF Inv, EntryIsOwn, Removing, Forgetting, Leaving, In, Out
<1>7. RunningIsKnown'
  <2> SUFFICES ASSUME NEW d \in Ids, containers'[d].state = "running", d \notin lost
               PROVE  containers'[d].task \in DOMAIN runningTask' /\ runningTask'[containers'[d].task] = d
    BY DEF RunningIsKnown, Removing, Ids
  <2>1. containers[d].state = "running" /\ containers'[d].task = containers[d].task
    BY DEF Removing
  <2>2. containers[d].task \in DOMAIN runningTask /\ runningTask[containers[d].task] = d
    BY <2>1 DEF Inv, RunningIsKnown, Ids
  <2> QED  BY <2>1, <2>2 DEF Forgetting
<1> QED  BY <1>2, <1>3, <1>4, <1>5, <1>6, <1>7

LEMMA NothingRemoved ==
  ASSUME Inv, UNCHANGED containers
  PROVE  Removing
BY DEF Inv, Shape, Removing, Ids, Latest

LEMMA OneRemoved ==
  ASSUME Inv, NEW c \in Ids, containers[c].state # "created", SetState(c, "removed")
  PROVE  Removing /\ containers'[c].state = "removed"
BY StateSet DEF Inv, Shape, Removing

LEMMA NothingForgotten ==
  ASSUME Inv, UNCHANGED runningTask
  PROVE  Forgetting
BY DEF Inv, Shape, Forgetting

LEMMA OneForgotten ==
  ASSUME Inv, NEW t \in DOMAIN runningTask, Forget(t), containers'[runningTask[t]].state # "running"
  PROVE  Forgetting
<1>1. /\ DOMAIN runningTask' = DOMAIN runningTask \ {t}
      /\ runningTask' = [u \in DOMAIN runningTask \ {t} |-> runningTask[u]]
  BY DEF Forget, Restrict
<1> QED  BY <1>1 DEF Inv, Shape, Forgetting

LEMMA Kept ==
  ASSUME Inv, UNCHANGED caller
  PROVE  Leaving
BY DEF Inv, Shape, Leaving

\* The entry of a task that is running is its last container.
LEMMA EntryIsLatest ==
  ASSUME Inv, NEW t \in DOMAIN runningTask, caller[t] = In
  PROVE  Latest(t) = {runningTask[t]}
<1>1. t \in Tasks /\ runningTask[t] \in Latest(t)
  BY DEF Inv, Shape, EntryIsOwn
<1>2. containers \in Seq(Container)
  BY DEF Inv, Shape
<1> QED  BY <1>1, <1>2, OneLatest

\* One entry and its container go.
LEMMA OneGone ==
  ASSUME Inv, NEW t \in DOMAIN runningTask,
         SetState(runningTask[t], "removed") \/ UNCHANGED containers,
         containers[runningTask[t]].state # "running" \/ SetState(runningTask[t], "removed"),
         Forget(t)
  PROVE  Removing /\ Forgetting
<1>1. runningTask[t] \in Ids /\ containers[runningTask[t]].state # "created"
  BY DEF Inv, Shape, Owned
<1>2. Removing /\ containers'[runningTask[t]].state # "running"
  BY <1>1, OneRemoved, NothingRemoved
<1> QED  BY <1>2, OneForgotten

LEMMA AskStep ==
  ASSUME Inv, NEW t \in Tasks, Ask(t)
  PROVE  Inv'
<1>1. t \in round /\ caller[t] = In /\ UNCHANGED <<caller, lost>> /\ Leaving
  BY Kept DEF Ask, Inv, Polled
<1>2. ASSUME Removing, Forgetting,
             NEW s \in {"running", "success", "failed"}, Told(t, s),
             s = "success" => \A c \in Latest(t) : containers[c].exit = "0"
      PROVE  Inv'
  <2>1. Owned' /\ Held' /\ Unique' /\ NoExit' /\ EntryIsOwn' /\ RunningIsKnown'
    BY <1>1, <1>2, LeavingStep
  <2>2. /\ round' = round \ {t}
        /\ DOMAIN status' = DOMAIN status \cup {t}
        /\ status' \in [DOMAIN status' -> {"running", "success", "failed"}]
        /\ status'[t] = s /\ \A u \in DOMAIN status \ {t} : status'[u] = status[u]
    BY <1>2 DEF Told, Inv, Shape
  <2>3. Shape'
    BY <1>1, <1>2, <2>2 DEF Inv, Shape, Removing, Forgetting
  <2>4. Polled'
    BY <1>1, <2>2 DEF Inv, Polled, In
  <2>5. SuccessIsExit0'
    <3> SUFFICES ASSUME NEW u \in DOMAIN status', status'[u] = "success", NEW c \in Latest(u)'
                 PROVE  containers'[c].exit = "0"
      BY DEF SuccessIsExit0
    <3>1. u \in Tasks
      BY <2>2 DEF Inv, Shape
    <3>2. c \in Latest(u) /\ c \in Ids
      BY <1>2, <3>1 DEF Removing, Latest, Ids
    <3>3. containers[c].exit = "0"
      BY <1>2, <2>2, <3>2 DEF Inv, SuccessIsExit0
    <3> QED  BY <1>2, <3>2, <3>3 DEF Removing
  <2> QED  BY <2>1, <2>3, <2>4, <2>5 DEF Inv
<1>3. CASE t \notin DOMAIN runningTask /\ Told(t, "failed") /\ UNCHANGED <<containers, runningTask>>
  BY <1>2, <1>3, NothingRemoved, NothingForgotten
<1>4. ASSUME t \in DOMAIN runningTask, Told(t, Verdict(runningTask[t])),
             \/ UNCHANGED <<containers, runningTask>>
             \/ /\ containers[runningTask[t]].state # "running"
                /\ DropEntry(t)
                /\ SetState(runningTask[t], "removed") \/ UNCHANGED containers
      PROVE  Inv'
  <2>1. /\ Verdict(runningTask[t]) \in {"running", "success", "failed"}
        /\ Verdict(runningTask[t]) = "success" => \A d \in Latest(t) : containers[d].exit = "0"
    BY <1>1, <1>4, EntryIsLatest DEF Verdict
  <2>2. Removing /\ Forgetting
    <3>1. CASE UNCHANGED containers /\ UNCHANGED runningTask
      BY <3>1, NothingRemoved, NothingForgotten
    <3>2. CASE /\ containers[runningTask[t]].state # "running"
               /\ SetState(runningTask[t], "removed") \/ UNCHANGED containers
               /\ Forget(t)
      BY <1>4, <3>2, OneGone
    <3>3. CASE SetState(runningTask[t], "removed") /\ UNCHANGED runningTask
      <4>1. runningTask[t] \in Ids /\ containers[runningTask[t]].state # "created"
        BY <1>4 DEF Inv, Shape, Owned
      <4> QED  BY <3>3, <4>1, OneRemoved, NothingForgotten
    <3> QED  BY <1>4, <3>1, <3>2, <3>3 DEF DropEntry
  <2> QED  BY <1>2, <1>4, <2>1, <2>2
<1>5. CASE RoundFails /\ UNCHANGED runningTask
  <2>1. round' = {} /\ DOMAIN status' = {} /\ UNCHANGED containers
    BY <1>5 DEF RoundFails
  <2>2. Owned' /\ Held' /\ Unique' /\ NoExit' /\ EntryIsOwn' /\ RunningIsKnown'
    BY <1>1, <1>5, <2>1, LeavingStep, NothingRemoved, NothingForgotten
  <2>3. status' \in [DOMAIN status' -> {"running", "success", "failed"}]
    BY <1>5 DEF RoundFails
  <2>4. Shape' /\ Polled' /\ SuccessIsExit0'
    BY <1>1, <1>5, <2>1, <2>3 DEF Inv, Shape, Polled, SuccessIsExit0, Ids
  <2> QED  BY <2>2, <2>4 DEF Inv
<1> QED  BY <1>3, <1>4, <1>5 DEF Ask

LEMMA RoundStep ==
  ASSUME Inv, RoundBegin
  PROVE  Inv'
<1>1. /\ round' = {t \in Tasks : caller[t] = In}
      /\ UNCHANGED <<containers, runningTask, caller, status, lost>>
  BY DEF RoundBegin
<1>2. Owned' /\ Held' /\ Unique' /\ NoExit' /\ EntryIsOwn' /\ RunningIsKnown'
  BY <1>1, LeavingStep, NothingRemoved, NothingForgotten, Kept
<1>3. Shape' /\ Polled' /\ SuccessIsExit0'
  BY <1>1 DEF Inv, Shape, Polled, SuccessIsExit0, Ids, Latest, In
<1> QED  BY <1>2, <1>3 DEF Inv

LEMMA ActStep ==
  ASSUME Inv, NEW t \in Tasks, Act(t)
  PROVE  Inv'
<1>1. /\ t \in DOMAIN status /\ caller[t] = In /\ round = {} /\ UNCHANGED <<round, lost>>
      /\ DOMAIN status' = DOMAIN status \ {t}
      /\ status' = [u \in DOMAIN status \ {t} |-> status[u]]
  BY DEF Act, Inv, Polled, Restrict
<1>2. ASSUME Removing, Forgetting, Move(t, Out) \/ UNCHANGED caller
      PROVE  Inv'
  <2>1. Leaving /\ \A u \in Tasks \ {t} : caller'[u] = caller[u]
    BY <1>1, <1>2 DEF Inv, Shape, Leaving, Move, Out
  <2>2. Owned' /\ Held' /\ Unique' /\ NoExit' /\ EntryIsOwn' /\ RunningIsKnown'
    BY <1>1, <1>2, <2>1, LeavingStep
  <2>3. Shape'
    BY <1>1, <1>2, <2>1 DEF Inv, Shape, Removing, Forgetting, Leaving
  <2>4. Polled'
    BY <1>1, <2>1 DEF Inv, Shape, Polled, In
  <2>5. SuccessIsExit0'
    <3> SUFFICES ASSUME NEW u \in DOMAIN status', status'[u] = "success", NEW c \in Latest(u)'
                 PROVE  containers'[c].exit = "0"
      BY DEF SuccessIsExit0
    <3>1. u \in Tasks /\ u \in DOMAIN status /\ status[u] = "success"
      BY <1>1 DEF Inv, Shape
    <3>2. c \in Latest(u) /\ c \in Ids
      BY <1>2, <3>1 DEF Removing, Latest, Ids
    <3> QED  BY <1>2, <3>1, <3>2 DEF Inv, SuccessIsExit0, Removing
  <2> QED  BY <2>2, <2>3, <2>4, <2>5 DEF Inv
<1>3. CASE UNCHANGED containers /\ UNCHANGED runningTask
  BY <1>2, <1>3, NothingRemoved, NothingForgotten DEF Act
<1>4. CASE /\ t \in DOMAIN runningTask
           /\ SetState(runningTask[t], "removed") /\ Forget(t) /\ Move(t, Out)
  BY <1>2, <1>4, OneGone
<1> QED  BY <1>3, <1>4 DEF Act, Stop, StopFails

LEMMA AutoRemoveStep ==
  ASSUME Inv, NEW c \in Ids, AutoRemove(c)
  PROVE  Inv'
<1>1. /\ Removing
      /\ UNCHANGED <<runningTask, caller, round, status, lost>>
  BY OneRemoved DEF AutoRemove
<1>2. Owned' /\ Held' /\ Unique' /\ NoExit' /\ EntryIsOwn' /\ RunningIsKnown'
  BY <1>1, LeavingStep, NothingForgotten, Kept
<1>3. Shape' /\ Polled'
  BY <1>1 DEF Inv, Shape, Polled, Removing
<1>4. SuccessIsExit0'
  BY <1>1 DEF Inv, Shape, SuccessIsExit0, Removing, Latest, Ids
<1> QED  BY <1>2, <1>3, <1>4 DEF Inv

LEMMA ExitedStep ==
  ASSUME Inv, NEW c \in Ids, Exited(c)
  PROVE  Inv'
<1>1. containers[c].state = "running" /\ UNCHANGED <<runningTask, caller, round, status, lost>>
  BY DEF Exited
<1>2. PICK e \in {"0", "1"} :
        containers' = [containers EXCEPT ![c].state = "exited", ![c].exit = e]
  BY DEF Exited
<1> DEFINE v == [containers[c] EXCEPT !.state = "exited", !.exit = e]
<1>3. containers \in Seq(Container) /\ containers[c] \in Container
  BY DEF Inv, Shape, Ids
<1>4. v \in Container /\ v.task = containers[c].task /\ v.state = "exited"
  BY <1>3 DEF Container
<1>5. containers' = [containers EXCEPT ![c] = v]
  BY <1>2
<1> HIDE DEF v
<1>6. /\ containers' \in Seq(Container) /\ Ids' = Ids
      /\ \A d \in Ids : containers'[d] = IF d = c THEN v ELSE containers[d]
      /\ \A t \in Tasks : Latest(t)' = Latest(t)
  BY <1>3, <1>4, <1>5, Changed
<1>7. /\ \A d \in Ids : containers'[d].task = containers[d].task
      /\ containers'[c].state = "exited"
      /\ \A d \in Ids \ {c} : containers'[d] = containers[d]
  BY <1>4, <1>6
<1>8. \A t \in DOMAIN runningTask : runningTask[t] \in Ids /\ t \in Tasks
  BY DEF Inv, Shape
<1>9. Shape' /\ Polled'
  BY <1>1, <1>6 DEF Inv, Shape, Polled
<1>10. Owned'
  <2> SUFFICES ASSUME NEW t \in DOMAIN runningTask
               PROVE  /\ containers'[runningTask[t]].task = t
                      /\ containers'[runningTask[t]].state # "created"
    BY <1>1 DEF Owned
  <2> QED  BY <1>7, <1>8 DEF Inv, Owned
<1>11. Held'
  <2> SUFFICES ASSUME NEW t \in Tasks, caller[t] \notin {In, Out}
               PROVE  caller[t] \in Latest(t)' /\ containers'[caller[t]].state = "created"
    BY <1>1 DEF Held, In, Out
  <2>1. caller[t] \in Latest(t) /\ containers[caller[t]].state = "created"
    BY DEF Inv, Held
  <2>2. caller[t] \in Ids \ {c}
    BY <2>1, <1>1 DEF Latest, Ids
  <2> QED  BY <1>6, <1>7, <2>1, <2>2
<1>12. Unique' /\ NoExit'
  <2>1. Exists(c) /\ \A d \in Ids : Exists(d)' <=> Exists(d)
    BY <1>1, <1>7 DEF Exists
  <2>2. Unique'
    BY <1>6, <1>7, <2>1 DEF Inv, Unique
  <2>3. NoExit'
    BY <1>6, <1>7 DEF Inv, NoExit
  <2> QED  BY <2>2, <2>3
<1>13. EntryIsOwn'
  BY <1>1, <1>6, <1>8 DEF Inv, EntryIsOwn, In
<1>14. RunningIsKnown'
  <2> SUFFICES ASSUME NEW d \in Ids, containers'[d].state = "running", d \notin lost
               PROVE  containers'[d].task \in DOMAIN runningTask /\ runningTask[containers'[d].task] = d
    BY <1>1, <1>6 DEF RunningIsKnown, Ids
  <2> QED  BY <1>7 DEF Inv, RunningIsKnown, Ids
<1>15. SuccessIsExit0'
  <2> SUFFICES ASSUME NEW t \in DOMAIN status, status[t] = "success", NEW d \in Latest(t)'
               PROVE  containers'[d].exit = "0"
    BY <1>1 DEF SuccessIsExit0
  <2>1. d \in Latest(t) /\ d \in Ids
    BY <1>6 DEF Inv, Shape, Latest, Ids
  <2>2. containers[d].exit = "0"
    BY <2>1 DEF Inv, SuccessIsExit0
  <2>3. d # c
    BY <1>1, <2>2 DEF Inv, NoExit
  <2> QED  BY <1>7, <2>1, <2>2, <2>3
<1> QED  BY <1>9, <1>10, <1>11, <1>12, <1>13, <1>14, <1>15 DEF Inv

-----------------------------------------------------------------------------
(* The theorems.                                                           *)

\* The invariant holds: every step of the actuator, its caller and the daemon keeps it.
THEOREM InvHolds == Spec => []Inv
<1>1. Inv /\ [Next]_vars => Inv'
  <2> SUFFICES ASSUME Inv, [Next]_vars PROVE Inv'
    OBVIOUS
  <2>1. CASE UNCHANGED vars
    BY <2>1, Still DEF vars
  <2>2. CASE Next
    <3>1. CASE RoundBegin
      BY <3>1, RoundStep
    <3>2. ASSUME NEW t \in Tasks, Create(t) \/ Launch(t) \/ Ask(t) \/ Act(t)
          PROVE  Inv'
      BY <3>2, CreateStep, LaunchStep, AskStep, ActStep
    <3>3. ASSUME NEW c \in DOMAIN containers, Exited(c) \/ AutoRemove(c)
          PROVE  Inv'
      BY <3>3, ExitedStep, AutoRemoveStep DEF Ids
    <3> QED  BY <2>2, <3>1, <3>2, <3>3 DEF Next
  <2> QED  BY <2>1, <2>2
<1> QED  BY InitInv, <1>1, PTL DEF Spec

\* GetAsyncTaskStatus answers "success" only for a task whose last container exited
\* with 0, whatever entries and containers earlier starts have left behind.
THEOREM SuccessHasExit0 == Spec => []SuccessIsExit0
<1>1. Inv => SuccessIsExit0
  BY DEF Inv
<1> QED  BY InvHolds, <1>1, PTL

\* The entry of a task that is running is the container of its last start.
THEOREM EntryOfLastStart == Spec => []EntryIsOwn
<1>1. Inv => EntryIsOwn
  BY DEF Inv
<1> QED  BY InvHolds, <1>1, PTL

\* Every container that runs has its entry, by which Stop removes it, but for those
\* whose ContainerStart answered with an error.
THEOREM RunningHasEntry == Spec => []RunningIsKnown
<1>1. Inv => RunningIsKnown
  BY DEF Inv
<1> QED  BY InvHolds, <1>1, PTL
=============================================================================
