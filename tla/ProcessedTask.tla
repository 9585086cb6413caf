--------------------------- MODULE ProcessedTask ----------------------------
(***************************************************************************)
(* checkProcessed and cleanProcessTask (task_scheduler.go): the ids of the *)
(* tasks whose end was processed a moment ago, in a map for the lookup and *)
(* in a ring buffer, ordered by time, for forgetting them.                 *)
(*                                                                         *)
(* Both functions hold the scheduler's lock while they work, so that one   *)
(* call is one step.                                                       *)
(***************************************************************************)
EXTENDS Integers, Sequences, FiniteSets

CONSTANTS
  Ids,        (* task ids                                                    *)
  NoId,       (* fills a slot of the ring that was never written             *)
  BuffLen,    (* bufflen, the size of the ring                               *)
  Window,     (* the age in ticks beyond which cleanProcessTask forgets      *)
  MaxTime     (* bound: the clock stops there                                *)

ASSUME ProcessedAssumption ==
  /\ NoId \notin Ids
  /\ BuffLen \in Nat \ {0}
  /\ Window \in Nat
  /\ MaxTime \in Nat

VARIABLES
  now,                (* the clock                                           *)
  processedTask,      (* the map: the set of its keys                        *)
  taskProcessedTime,  (* the ring                                            *)
  head, tail, count   (* its bounds and its fill                             *)

vars == <<now, processedTask, taskProcessedTime, head, tail, count>>

Slots == 0..(BuffLen - 1)
processTime == [t : Nat, taskId : Ids \cup {NoId}]

\* mutant: the index does not wrap around
After_NoWrap(i, n) == i + n

\* the slot n places further on in the ring
After(i, n) == (i + n) % BuffLen

Init ==
  /\ now = 0
  /\ processedTask = {}
  /\ taskProcessedTime = [i \in Slots |-> [t |-> 0, taskId |-> NoId]]
  /\ head = 0 /\ tail = 0 /\ count = 0

\* mutant: the oldest id leaves the ring and stays in the map
Accept_StillInMap(k) ==
  LET full == count >= BuffLen IN
  /\ k \notin processedTask
  /\ processedTask' = processedTask \cup {k}
  /\ head' = IF full THEN After(head, 1) ELSE head
  /\ taskProcessedTime' = [taskProcessedTime EXCEPT ![tail] = [t |-> now, taskId |-> k]]
  /\ tail' = After(tail, 1)
  /\ count' = IF full THEN count ELSE count + 1
  /\ UNCHANGED now

\* checkProcessed of an id that is not in the map: it is remembered, in place
\* of the oldest one when the ring is full, and the answer is true
Accept(k) ==
  LET full == count >= BuffLen IN
  /\ k \notin processedTask
  /\ processedTask' =
       (IF full THEN processedTask \ {taskProcessedTime[head].taskId}
                ELSE processedTask) \cup {k}
  /\ head' = IF full THEN After(head, 1) ELSE head
  /\ taskProcessedTime' = [taskProcessedTime EXCEPT ![tail] = [t |-> now, taskId |-> k]]
  /\ tail' = After(tail, 1)
  /\ count' = IF full THEN count ELSE count + 1
  /\ UNCHANGED now

\* checkProcessed of an id that is in the map: the answer is false
Reject(k) ==
  /\ k \in processedTask
  /\ UNCHANGED vars

\* mutant: an entry is forgotten one tick too early
Old_Sooner(i) == taskProcessedTime[After(head, i)].t <= now - Window

\* the entry i places behind the head is older than Window
Old(i) == taskProcessedTime[After(head, i)].t < now - Window

\* cleanProcessTask at a tick: the loop drops entries at the head until one is
\* not old or none is left
Clean ==
  LET dropped == CHOOSE n \in 0..count :
                   (\A i \in 0..(n - 1) : Old(i)) /\ (n = count \/ ~Old(n))
  IN /\ processedTask' = processedTask \
          {taskProcessedTime[After(head, i)].taskId : i \in 0..(dropped - 1)}
     /\ head' = After(head, dropped)
     /\ count' = count - dropped
     /\ UNCHANGED <<now, taskProcessedTime, tail>>

\* time.Now moves on
Tick ==
  /\ now < MaxTime
  /\ now' = now + 1
  /\ UNCHANGED <<processedTask, taskProcessedTime, head, tail, count>>

Next == Tick \/ Clean \/ \E k \in Ids : Accept(k) \/ Reject(k)

Spec == Init /\ [][Next]_vars

-----------------------------------------------------------------------------
(* Properties.                                                             *)

\* the entries of the ring, oldest first
Ring == [i \in 1..count |-> taskProcessedTime[After(head, i - 1)]]

TypeOK ==
  /\ now \in Nat
  /\ processedTask \in SUBSET Ids
  /\ taskProcessedTime \in [Slots -> processTime]
  /\ head \in Slots /\ tail \in Slots
  /\ count \in 0..BuffLen

\* The map and the ring hold the same ids, and the ring holds none twice: else
\* the entry that leaves the ring first would take another one's key along, or
\* a key would stay in the map for good and its task be ignored for ever.
RingIsMap ==
  /\ processedTask = {Ring[i].taskId : i \in 1..count}
  /\ Cardinality(processedTask) = count
  /\ tail = After(head, count)

Recent == INSTANCE RecentlyProcessed WITH recent <- Ring

\* Map and ring together implement the list of RecentlyProcessed: an id is
\* accepted again only after it was forgotten, all ids that are old are
\* forgotten although the loop stops at the first that is not, and no other.
RecentSpec == Recent!Spec
=============================================================================
