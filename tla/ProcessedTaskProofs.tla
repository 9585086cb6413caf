------------------------- MODULE ProcessedTaskProofs -------------------------
(***************************************************************************)
(* Proofs about ProcessedTask: map and ring agree in every reachable       *)
(* state, and together they implement the list of RecentlyProcessed.       *)
(*                                                                         *)
(* The argument: read from the head, the ring is a list (Ring).  A call of *)
(* checkProcessed or cleanProcessTask drops a prefix of that list and      *)
(* appends at most one entry (RingAfterAccept, RingAfterClean).  The list  *)
(* is ordered by time, so the loop of cleanProcessTask, which stops at the *)
(* first entry that is not old, drops every old one.                       *)
(***************************************************************************)
EXTENDS ProcessedTask, FiniteSetTheorems, SequenceTheorems, TLAPS

\* the ring holds no id twice, and the map holds its ids
SameIds ==
  /\ processedTask = {Ring[i].taskId : i \in 1..count}
  /\ \A i, j \in 1..count : Ring[i].taskId = Ring[j].taskId => i = j

\* the entries are in the order of their times, and none is of the future
InOrder ==
  /\ \A i, j \in 1..count : i <= j => Ring[i].t <= Ring[j].t
  /\ \A i \in 1..count : Ring[i].t <= now

Inv ==
  /\ TypeOK
  /\ tail = After(head, count)
  /\ SameIds
  /\ InOrder

-----------------------------------------------------------------------------
(* The slots and the list.                                                 *)

\* the slot n places on, without the division
LEMMA AfterIs ==
  ASSUME NEW i \in Slots, NEW n \in 0..BuffLen
  PROVE  /\ After(i, n) \in Slots
         /\ After(i, n) = IF i + n < BuffLen THEN i + n ELSE i + n - BuffLen
  BY ProcessedAssumption DEF After, Slots

\* a place of the list is a slot of its own
LEMMA AfterDiffers ==
  ASSUME NEW h \in Slots, NEW i \in 0..BuffLen, NEW j \in 0..BuffLen,
         After(h, i) = After(h, j)
  PROVE  i = j \/ (i = 0 /\ j = BuffLen) \/ (i = BuffLen /\ j = 0)
  <1>1. After(h, i) = IF h + i < BuffLen THEN h + i ELSE h + i - BuffLen
    BY AfterIs
  <1>2. After(h, j) = IF h + j < BuffLen THEN h + j ELSE h + j - BuffLen
    BY AfterIs
  <1>3. BuffLen \in Nat /\ h \in 0..(BuffLen - 1)
    BY ProcessedAssumption DEF Slots
  <1>4. (IF h + i < BuffLen THEN h + i ELSE h + i - BuffLen)
          = (IF h + j < BuffLen THEN h + j ELSE h + j - BuffLen)
    BY <1>1, <1>2
  <1>5. CASE h + i < BuffLen
    BY <1>3, <1>4, <1>5
  <1>6. CASE ~ (h + i < BuffLen)
    BY <1>3, <1>4, <1>6
  <1> QED BY <1>5, <1>6

\* going on in two parts
LEMMA AfterAfter ==
  ASSUME NEW h \in Slots, NEW i \in 0..BuffLen, NEW j \in 0..BuffLen,
         i + j <= BuffLen
  PROVE  After(After(h, i), j) = After(h, i + j)
  <1>1. i + j \in 0..BuffLen
    BY ProcessedAssumption
  <1>2. /\ After(h, i) \in Slots
        /\ After(h, i) = IF h + i < BuffLen THEN h + i ELSE h + i - BuffLen
    BY AfterIs
  <1>3. After(After(h, i), j) =
          IF After(h, i) + j < BuffLen THEN After(h, i) + j ELSE After(h, i) + j - BuffLen
    BY <1>2, AfterIs
  <1>4. After(h, i + j) =
          IF h + (i + j) < BuffLen THEN h + (i + j) ELSE h + (i + j) - BuffLen
    BY <1>1, AfterIs
  <1>5. BuffLen \in Nat /\ h \in 0..(BuffLen - 1)
    BY ProcessedAssumption DEF Slots
  <1> QED BY <1>2, <1>3, <1>4, <1>5

\* the list is a sequence of entries
LEMMA RingIsSeq ==
  ASSUME TypeOK
  PROVE  /\ Ring \in Seq(processTime)
         /\ Len(Ring) = count
         /\ \A i \in 1..count : /\ Ring[i] = taskProcessedTime[After(head, i - 1)]
                                /\ Ring[i] \in processTime
  <1>1. count \in Nat
    BY ProcessedAssumption DEF TypeOK
  <1>2. ASSUME NEW i \in 1..count
        PROVE  taskProcessedTime[After(head, i - 1)] \in processTime
    <2>1. i - 1 \in 0..BuffLen
      BY ProcessedAssumption DEF TypeOK
    <2> QED BY <2>1, AfterIs DEF TypeOK
  <1>3. Ring \in [1..count -> processTime]
    BY <1>2 DEF Ring
  <1>4. Ring \in Seq(processTime) /\ Len(Ring) = count
    BY <1>1, <1>3
  <1> QED BY <1>2, <1>4 DEF Ring

LEMMA RingIsSeqNext == TypeOK' => (Ring \in Seq(processTime) /\ Len(Ring) = count)'
  <1>1. TypeOK => Ring \in Seq(processTime) /\ Len(Ring) = count
    BY RingIsSeq
  <1> QED BY <1>1, PTL

\* a non-empty set of numbers up to c has a least one
LEMMA LeastOf ==
  ASSUME NEW c \in Nat, NEW T, T \subseteq 0..c, T # {}
  PROVE  \E x \in T : \A y \in T : x <= y
  <1> DEFINE R == StrictSubsetOrdering(0..c)
             U == {0..x : x \in T}
  <1>1. IsWellFoundedOn(R, SUBSET (0..c))
    <2>1. IsFiniteSet(0..c)
      BY FS_Interval
    <2> QED BY <2>1, FS_StrictSubsetOrderingWellFounded, FS_FiniteSubsetsOfFinite
  <1>2. U \subseteq SUBSET (0..c)
    <2> SUFFICES ASSUME NEW x \in T PROVE 0..x \subseteq 0..c
      BY DEF U
    <2>1. x \in 0..c
      OBVIOUS
    <2> QED BY <2>1
  <1>3. U # {}
    OBVIOUS
  <1> HIDE DEF R
  <1>4. PICK u \in U : \A v \in U : ~ (<<v, u>> \in R)
    BY <1>1, <1>2, <1>3, WFMin
  <1>5. PICK x \in T : u = 0..x
    BY DEF U
  <1>6. ASSUME NEW y \in T PROVE x <= y
    <2>1. ~ (<<0..y, 0..x>> \in R)
      BY <1>4, <1>5
    <2>2. x \in 0..c /\ y \in 0..c
      OBVIOUS
    <2>3. SUFFICES ASSUME y < x PROVE FALSE
      BY <2>2
    <2>4. 0..y \subseteq 0..x /\ 0..y # 0..x /\ 0..x \subseteq 0..c
      BY <2>2, <2>3
    <2>5. <<0..y, 0..x>> \in R
      BY <2>4 DEF R, StrictSubsetOrdering
    <2> QED BY <2>1, <2>5
  <1> QED BY <1>6

-----------------------------------------------------------------------------
(* What a call does to the list.                                           *)

\* checkProcessed drops s entries, none or the oldest, and appends one
LEMMA RingAfterAccept ==
  ASSUME Inv, NEW k \in Ids, Accept(k),
         NEW s, s = IF count >= BuffLen THEN 1 ELSE 0
  PROVE  /\ TypeOK'
         /\ tail' = After(head', count')
         /\ s \in 0..count /\ count' = count - s + 1
         /\ \A i \in 1..(count - s) : Ring'[i] = Ring[i + s]
         /\ Ring'[count'] = [t |-> now, taskId |-> k]
         /\ processedTask' = (processedTask \ {Ring[i].taskId : i \in 1..s}) \cup {k}
         /\ k \notin processedTask /\ now' = now
  <1>1. /\ BuffLen \in Nat \ {0} /\ count \in 0..BuffLen /\ count \in Nat
        /\ head \in Slots /\ tail \in Slots
        /\ s \in {0, 1} /\ s \in 0..BuffLen /\ s \in 0..count
    BY ProcessedAssumption DEF Inv, TypeOK
  <1>2. /\ tail = After(head, count)
        /\ taskProcessedTime' = [taskProcessedTime EXCEPT ![tail] = [t |-> now, taskId |-> k]]
        /\ tail' = After(tail, 1)
        /\ now' = now
        /\ k \notin processedTask
    BY DEF Accept, Inv
  <1>3. head' = After(head, s)
    <2>1. After(head, 0) = head
      BY <1>1, AfterIs DEF Slots
    <2> QED BY <2>1 DEF Accept
  <1>4. count' = count - s + 1 /\ count' \in 0..BuffLen
    BY <1>1 DEF Accept
  <1>5. head' \in Slots /\ tail' \in Slots
    <2>1. 1 \in 0..BuffLen
      BY <1>1
    <2> QED BY <1>1, <1>2, <1>3, <2>1, AfterIs
  <1>6. tail' = After(head', count')
    <2>1. CASE s = 0
      <3>1. After(head, count + 1) = After(After(head, count), 1)
        BY <1>1, <2>1, AfterAfter
      <3>2. head' = head
        BY <2>1 DEF Accept
      <3> QED BY <1>1, <1>2, <1>4, <2>1, <3>1, <3>2
    <2>2. CASE s = 1
      <3>1. count = BuffLen
        BY <1>1, <2>2
      <3>2. tail = head
        BY <1>1, <1>2, <3>1, AfterIs DEF Slots
      <3>3. After(head', BuffLen) = head'
        BY <1>1, <1>5, AfterIs DEF Slots
      <3> QED BY <1>1, <1>2, <1>3, <1>4, <2>2, <3>1, <3>2, <3>3
    <2> QED BY <1>1, <2>1, <2>2
  <1>7. processedTask' = (processedTask \ {Ring[i].taskId : i \in 1..s}) \cup {k}
    <2>1. CASE s = 0
      <3>1. {Ring[i].taskId : i \in 1..s} = {}
        BY <2>1
      <3> QED BY <2>1, <3>1 DEF Accept
    <2>2. CASE s = 1
      <3>1. {Ring[i].taskId : i \in 1..s} = {Ring[1].taskId}
        BY <2>2
      <3>2. Ring[1] = taskProcessedTime[After(head, 1 - 1)]
        BY <1>1, <2>2, RingIsSeq DEF Inv
      <3>3. After(head, 1 - 1) = head
        BY <1>1, AfterIs DEF Slots
      <3> QED BY <2>2, <3>1, <3>2, <3>3 DEF Accept
    <2> QED BY <1>1, <2>1, <2>2
  <1>8. [t |-> now, taskId |-> k] \in processTime
    BY DEF Inv, TypeOK, processTime
  <1>9. TypeOK'
    <2>1. taskProcessedTime' \in [Slots -> processTime]
      BY <1>2, <1>8 DEF Inv, TypeOK
    <2>2. processedTask' \in SUBSET Ids
      BY <1>7 DEF Inv, TypeOK
    <2> QED BY <1>2, <1>4, <1>5, <2>1, <2>2 DEF Inv, TypeOK
  <1>10. \A i \in 1..count' : Ring'[i] = taskProcessedTime'[After(head', i - 1)]
    BY <1>9, RingIsSeq DEF Ring
  <1>11. ASSUME NEW i \in 1..(count - s) PROVE Ring'[i] = Ring[i + s]
    <2>1. /\ i \in 1..count' /\ i - 1 \in 0..BuffLen /\ i + s \in 1..count
          /\ s + (i - 1) \in 0..BuffLen /\ s + (i - 1) = (i + s) - 1 /\ s + (i - 1) # count
          /\ s + (i - 1) <= BuffLen
      BY <1>1, <1>4
    <2>2. After(head', i - 1) = After(head, s + (i - 1))
      BY <1>1, <1>3, <2>1, AfterAfter
    <2>3. After(head, s + (i - 1)) # tail
      <3>1. SUFFICES ASSUME After(head, s + (i - 1)) = After(head, count) PROVE FALSE
        BY <1>2
      <3>2. \/ s + (i - 1) = count
            \/ s + (i - 1) = 0 /\ count = BuffLen
            \/ s + (i - 1) = BuffLen /\ count = 0
        BY <1>1, <2>1, <3>1, AfterDiffers
      <3> QED BY <1>1, <2>1, <3>2
    <2>4. After(head, s + (i - 1)) \in Slots
      BY <1>1, <2>1, AfterIs
    <2>5. taskProcessedTime'[After(head, s + (i - 1))] = taskProcessedTime[After(head, s + (i - 1))]
      BY <1>2, <2>3, <2>4 DEF Inv, TypeOK
    <2>6. Ring[i + s] = taskProcessedTime[After(head, (i + s) - 1)]
      BY <2>1, RingIsSeq DEF Inv
    <2> QED BY <1>10, <2>1, <2>2, <2>5, <2>6
  <1>12. Ring'[count'] = [t |-> now, taskId |-> k]
    <2>1. count' \in 1..count' /\ count' - 1 = count - s /\ count - s \in 0..BuffLen /\ s + (count - s) = count
      BY <1>1, <1>4
    <2>2. After(head', count' - 1) = After(head, count)
      BY <1>1, <1>3, <2>1, AfterAfter
    <2>3. taskProcessedTime'[tail] = [t |-> now, taskId |-> k]
      BY <1>1, <1>2 DEF Inv, TypeOK
    <2> QED BY <1>2, <1>10, <2>1, <2>2, <2>3
  <1> QED BY <1>1, <1>2, <1>4, <1>6, <1>7, <1>9, <1>11, <1>12

\* the place where the loop of cleanProcessTask stops exists
LEMMA LoopStops ==
  ASSUME Inv
  PROVE  \E n \in 0..count : (\A i \in 0..(n - 1) : Old(i)) /\ (n = count \/ ~Old(n))
  <1> DEFINE T == {n \in 0..count : n = count \/ ~Old(n)}
  <1>1. count \in Nat
    BY ProcessedAssumption DEF Inv, TypeOK
  <1>2. T \subseteq 0..count /\ count \in T
    BY <1>1
  <1>3. PICK x \in T : \A y \in T : x <= y
    BY <1>1, <1>2, LeastOf
  <1>4. x \in 0..count /\ (x = count \/ ~Old(x))
    BY <1>3
  <1>5. ASSUME NEW i \in 0..(x - 1) PROVE Old(i)
    <2>1. i \in 0..count /\ i < x
      BY <1>1, <1>4
    <2>2. i \notin T
      BY <1>3, <1>4, <2>1
    <2> QED BY <2>1, <2>2
  <1> QED BY <1>4, <1>5

\* cleanProcessTask drops the n oldest entries, which are old; the next is not
LEMMA RingAfterClean ==
  ASSUME Inv, Clean
  PROVE  \E n \in 0..count :
           /\ TypeOK'
           /\ tail' = After(head', count')
           /\ count' = count - n
           /\ \A i \in 1..(count - n) : Ring'[i] = Ring[i + n]
           /\ processedTask' = processedTask \ {Ring[i].taskId : i \in 1..n}
           /\ \A i \in 1..n : Ring[i].t < now - Window
           /\ n < count => ~(Ring[n + 1].t < now - Window)
           /\ now' = now
  <1> DEFINE Stop(n) == (\A i \in 0..(n - 1) : Old(i)) /\ (n = count \/ ~Old(n))
             dropped == CHOOSE n \in 0..count : Stop(n)
  <1>1. dropped \in 0..count /\ Stop(dropped)
    BY LoopStops
  <1>2. /\ processedTask' = processedTask \
              {taskProcessedTime[After(head, i)].taskId : i \in 0..(dropped - 1)}
        /\ head' = After(head, dropped)
        /\ count' = count - dropped
        /\ now' = now /\ taskProcessedTime' = taskProcessedTime /\ tail' = tail
    BY DEF Clean
  <1> HIDE DEF dropped
  <1> SUFFICES
           /\ TypeOK'
           /\ tail' = After(head', count')
           /\ count' = count - dropped
           /\ \A i \in 1..(count - dropped) : Ring'[i] = Ring[i + dropped]
           /\ processedTask' = processedTask \ {Ring[i].taskId : i \in 1..dropped}
           /\ \A i \in 1..dropped : Ring[i].t < now - Window
           /\ dropped < count => ~(Ring[dropped + 1].t < now - Window)
           /\ now' = now
    BY <1>1
  <1>3. /\ BuffLen \in Nat \ {0} /\ count \in 0..BuffLen /\ count \in Nat
        /\ head \in Slots /\ tail \in Slots /\ dropped \in 0..BuffLen /\ dropped <= count
    BY <1>1, ProcessedAssumption DEF Inv, TypeOK
  <1>4. head' \in Slots
    BY <1>2, <1>3, AfterIs
  <1>5. TypeOK'
    BY <1>2, <1>3, <1>4 DEF Inv, TypeOK
  <1>6. tail' = After(head', count')
    <2>1. count - dropped \in 0..BuffLen /\ dropped + (count - dropped) = count
      BY <1>3
    <2>2. After(After(head, dropped), count - dropped) = After(head, count)
      BY <1>3, <2>1, AfterAfter
    <2> QED BY <1>2, <2>2 DEF Inv
  <1>7. \A i \in 1..count : Ring[i] = taskProcessedTime[After(head, i - 1)]
    BY RingIsSeq DEF Inv
  <1>8. ASSUME NEW i \in 1..(count - dropped) PROVE Ring'[i] = Ring[i + dropped]
    <2>1. /\ i \in 1..count' /\ i - 1 \in 0..BuffLen /\ i + dropped \in 1..count
          /\ dropped + (i - 1) = (i + dropped) - 1 /\ dropped + (i - 1) <= BuffLen
      BY <1>2, <1>3
    <2>2. After(head', i - 1) = After(head, dropped + (i - 1))
      BY <1>2, <1>3, <2>1, AfterAfter
    <2>3. Ring'[i] = taskProcessedTime'[After(head', i - 1)]
      BY <1>5, <2>1, RingIsSeq DEF Ring
    <2> QED BY <1>2, <1>7, <2>1, <2>2, <2>3
  <1>9. processedTask' = processedTask \ {Ring[i].taskId : i \in 1..dropped}
    <2> DEFINE A == {taskProcessedTime[After(head, i)].taskId : i \in 0..(dropped - 1)}
               B == {Ring[i].taskId : i \in 1..dropped}
    <2>1. ASSUME NEW i \in 0..(dropped - 1) PROVE taskProcessedTime[After(head, i)].taskId \in B
      <3>1. i + 1 \in 1..dropped /\ i + 1 \in 1..count /\ (i + 1) - 1 = i
        BY <1>3
      <3> QED BY <1>7, <3>1
    <2>2. ASSUME NEW i \in 1..dropped PROVE Ring[i].taskId \in A
      <3>1. i - 1 \in 0..(dropped - 1) /\ i \in 1..count
        BY <1>3
      <3> QED BY <1>7, <3>1
    <2>3. A = B
      BY <2>1, <2>2
    <2> QED BY <1>2, <2>3
  <1>10. ASSUME NEW i \in 1..dropped PROVE Ring[i].t < now - Window
    <2>1. i - 1 \in 0..(dropped - 1) /\ i \in 1..count
      BY <1>3
    <2>2. Old(i - 1)
      BY <1>1, <2>1
    <2> QED BY <1>7, <2>1, <2>2 DEF Old
  <1>11. ASSUME dropped < count PROVE ~(Ring[dropped + 1].t < now - Window)
    <2>1. dropped + 1 \in 1..count /\ (dropped + 1) - 1 = dropped
      BY <1>3, <1>11
    <2>2. ~Old(dropped)
      BY <1>1, <1>3, <1>11
    <2> QED BY <1>7, <2>1, <2>2 DEF Old
  <1> QED BY <1>2, <1>5, <1>6, <1>8, <1>9, <1>10, <1>11

-----------------------------------------------------------------------------
(* The invariant.                                                          *)

\* without the ids of the first s entries the map holds those of the others
LEMMA DropIds ==
  ASSUME Inv, NEW s \in 0..count
  PROVE  processedTask \ {Ring[i].taskId : i \in 1..s}
           = {Ring[i + s].taskId : i \in 1..(count - s)}
  <1> DEFINE A == processedTask \ {Ring[i].taskId : i \in 1..s}
             B == {Ring[i + s].taskId : i \in 1..(count - s)}
  <1>1. count \in Nat /\ s \in Nat /\ s <= count
    BY ProcessedAssumption DEF Inv, TypeOK
  <1>2. ASSUME NEW e \in A PROVE e \in B
    <2>1. PICK j \in 1..count : e = Ring[j].taskId
      BY DEF Inv, SameIds
    <2>2. j \notin 1..s
      BY <2>1
    <2>3. j - s \in 1..(count - s) /\ (j - s) + s = j
      BY <1>1, <2>1, <2>2
    <2>4. e = Ring[(j - s) + s].taskId
      BY <2>1, <2>3
    <2> QED BY <2>3, <2>4
  <1>3. ASSUME NEW e \in B PROVE e \in A
    <2>1. PICK i \in 1..(count - s) : e = Ring[i + s].taskId
      OBVIOUS
    <2>2. i + s \in 1..count
      BY <1>1, <2>1
    <2>3. ASSUME NEW j \in 1..s PROVE Ring[j].taskId # e
      <3>1. j \in 1..count /\ j # i + s
        BY <1>1, <2>1
      <3> QED BY <2>1, <2>2, <3>1 DEF Inv, SameIds
    <2> QED BY <2>1, <2>2, <2>3 DEF Inv, SameIds
  <1> QED BY <1>2, <1>3

LEMMA InitInv == Init => Inv
  <1> SUFFICES ASSUME Init PROVE Inv
    OBVIOUS
  <1>1. BuffLen \in Nat \ {0} /\ 0 \in Slots
    BY ProcessedAssumption DEF Slots
  <1>2. TypeOK
    BY <1>1 DEF Init, TypeOK, processTime
  <1>3. tail = After(head, count)
    <2>1. After(0, 0) = 0
      BY <1>1, AfterIs
    <2> QED BY <2>1 DEF Init
  <1>4. 1..count = {}
    BY DEF Init
  <1> QED BY <1>2, <1>3, <1>4 DEF Inv, SameIds, InOrder, Init

LEMMA AcceptInv == ASSUME Inv, NEW k \in Ids, Accept(k) PROVE Inv'
  <1> DEFINE s == IF count >= BuffLen THEN 1 ELSE 0
  <1>1. /\ TypeOK'
        /\ tail' = After(head', count')
        /\ s \in 0..count /\ count' = count - s + 1
        /\ \A i \in 1..(count - s) : Ring'[i] = Ring[i + s]
        /\ Ring'[count'] = [t |-> now, taskId |-> k]
        /\ processedTask' = (processedTask \ {Ring[i].taskId : i \in 1..s}) \cup {k}
        /\ k \notin processedTask /\ now' = now
    BY RingAfterAccept
  <1> HIDE DEF s
  <1>2. count \in Nat /\ s \in Nat /\ s <= count /\ now \in Nat
    BY <1>1, ProcessedAssumption DEF Inv, TypeOK
  <1>3. ASSUME NEW i \in 1..count'
        PROVE  \/ i = count'
               \/ i \in 1..(count - s) /\ i + s \in 1..count
    BY <1>1, <1>2
  <1>4. \A i \in 1..count : Ring[i] \in processTime
    BY RingIsSeq DEF Inv
  <1>5. processedTask' = {Ring'[i].taskId : i \in 1..count'}
    <2> DEFINE A == {Ring[i + s].taskId : i \in 1..(count - s)} \cup {k}
               B == {Ring'[i].taskId : i \in 1..count'}
    <2>1. processedTask' = A
      BY <1>1, DropIds
    <2>2. ASSUME NEW i \in 1..(count - s) PROVE Ring[i + s].taskId \in B
      <3>1. i \in 1..count' /\ Ring'[i].taskId = Ring[i + s].taskId
        BY <1>1, <1>2
      <3> QED BY <3>1
    <2>3. k \in B
      <3>1. count' \in 1..count' /\ Ring'[count'].taskId = k
        BY <1>1, <1>2
      <3> QED BY <3>1
    <2>4. ASSUME NEW i \in 1..count' PROVE Ring'[i].taskId \in A
      BY <1>1, <1>3
    <2>5. A \subseteq B
      BY <2>2, <2>3
    <2>6. B \subseteq A
      BY <2>4
    <2> QED BY <2>1, <2>5, <2>6
  <1>6. ASSUME NEW i \in 1..count', NEW j \in 1..count', Ring'[i].taskId = Ring'[j].taskId
        PROVE  i = j
    <2>1. \A m \in 1..count : Ring[m].taskId # k
      BY <1>1 DEF Inv, SameIds
    <2>2. CASE i = count' /\ j = count'
      BY <2>2
    <2>3. CASE i = count' /\ j # count'
      BY <1>1, <1>3, <1>6, <2>1, <2>3
    <2>4. CASE i # count' /\ j = count'
      BY <1>1, <1>3, <1>6, <2>1, <2>4
    <2>5. CASE i # count' /\ j # count'
      <3>1. /\ i + s \in 1..count /\ j + s \in 1..count
            /\ Ring[i + s].taskId = Ring[j + s].taskId
        BY <1>1, <1>3, <1>6, <2>5
      <3>2. i + s = j + s
        BY <3>1 DEF Inv, SameIds
      <3> QED BY <1>2, <3>2
    <2> QED BY <2>2, <2>3, <2>4, <2>5
  <1>7. \A i \in 1..count' : Ring'[i].t <= now'
    BY <1>1, <1>2, <1>3 DEF Inv, InOrder
  <1>8. ASSUME NEW i \in 1..count', NEW j \in 1..count', i <= j
        PROVE  Ring'[i].t <= Ring'[j].t
    <2>1. CASE j = count'
      BY <1>1, <1>7, <2>1
    <2>2. CASE j # count'
      <3>1. i # count'
        BY <1>1, <1>2, <1>8, <2>2
      <3>2. /\ i + s \in 1..count /\ j + s \in 1..count /\ i + s <= j + s
            /\ Ring'[i] = Ring[i + s] /\ Ring'[j] = Ring[j + s]
        BY <1>1, <1>2, <1>3, <1>8, <2>2, <3>1
      <3> QED BY <3>2 DEF Inv, InOrder
    <2> QED BY <2>1, <2>2
  <1>9. SameIds'
    BY <1>5, <1>6 DEF SameIds
  <1>10. InOrder'
    BY <1>7, <1>8 DEF InOrder
  <1> QED BY <1>1, <1>9, <1>10 DEF Inv

LEMMA CleanInv == ASSUME Inv, Clean PROVE Inv'
  <1>1. PICK n \in 0..count :
           /\ TypeOK'
           /\ tail' = After(head', count')
           /\ count' = count - n
           /\ \A i \in 1..(count - n) : Ring'[i] = Ring[i + n]
           /\ processedTask' = processedTask \ {Ring[i].taskId : i \in 1..n}
           /\ now' = now
    BY RingAfterClean
  <1>2. count \in Nat /\ n \in Nat /\ n <= count
    BY <1>1, ProcessedAssumption DEF Inv, TypeOK
  <1>3. \A i \in 1..count' : i \in 1..(count - n) /\ i + n \in 1..count /\ Ring'[i] = Ring[i + n]
    BY <1>1, <1>2
  <1>4. processedTask' = {Ring'[i].taskId : i \in 1..count'}
    <2> DEFINE A == {Ring[i + n].taskId : i \in 1..(count - n)}
               B == {Ring'[i].taskId : i \in 1..count'}
    <2>1. processedTask' = A
      BY <1>1, DropIds
    <2>2. A = B
      BY <1>1, <1>3
    <2> QED BY <2>1, <2>2
  <1>5. ASSUME NEW i \in 1..count', NEW j \in 1..count', Ring'[i].taskId = Ring'[j].taskId
        PROVE  i = j
    <2>1. i + n = j + n
      BY <1>3, <1>5 DEF Inv, SameIds
    <2> QED BY <1>2, <1>3, <2>1
  <1>6. SameIds'
    BY <1>4, <1>5 DEF SameIds
  <1>7. \A i \in 1..count' : Ring'[i].t <= now'
    BY <1>1, <1>3 DEF Inv, InOrder
  <1>8. ASSUME NEW i \in 1..count', NEW j \in 1..count', i <= j
        PROVE  Ring'[i].t <= Ring'[j].t
    <2>1. i + n \in 1..count /\ j + n \in 1..count /\ i + n <= j + n
      BY <1>2, <1>3, <1>8
    <2> QED BY <1>3, <2>1 DEF Inv, InOrder
  <1>9. InOrder'
    BY <1>7, <1>8 DEF InOrder
  <1> QED BY <1>1, <1>6, <1>9 DEF Inv

LEMMA TickInv == ASSUME Inv, Tick PROVE Inv'
  <1>1. /\ now' = now + 1 /\ processedTask' = processedTask
        /\ taskProcessedTime' = taskProcessedTime /\ head' = head /\ tail' = tail
        /\ count' = count /\ now \in Nat
    BY DEF Tick, Inv, TypeOK
  <1>2. Ring' = Ring
    BY <1>1 DEF Ring
  <1>3. \A i \in 1..count : Ring[i] \in processTime
    BY RingIsSeq DEF Inv
  <1>4. TypeOK' /\ SameIds'
    BY <1>1, <1>2 DEF Inv, TypeOK, SameIds
  <1>5. InOrder'
    <2>1. ASSUME NEW i \in 1..count PROVE Ring[i].t <= now + 1
      <3>1. Ring[i].t \in Nat /\ Ring[i].t <= now
        BY <1>3 DEF processTime, Inv, InOrder
      <3> QED BY <1>1, <3>1
    <2> QED BY <1>1, <1>2, <2>1 DEF Inv, InOrder
  <1> QED BY <1>1, <1>4, <1>5 DEF Inv

LEMMA UnchangedInv == ASSUME Inv, UNCHANGED vars PROVE Inv'
  BY DEF vars, Inv, TypeOK, SameIds, InOrder, Ring

\* the invariant holds in every reachable state
THEOREM InvHolds == Spec => []Inv
  <1>1. Inv /\ [Next]_vars => Inv'
    <2> SUFFICES ASSUME Inv, [Next]_vars PROVE Inv'
      OBVIOUS
    <2>1. CASE Tick BY <2>1, TickInv
    <2>2. CASE Clean BY <2>2, CleanInv
    <2>3. ASSUME NEW k \in Ids, Accept(k) PROVE Inv' BY <2>3, AcceptInv
    <2>4. ASSUME NEW k \in Ids, Reject(k) PROVE Inv' BY <2>4, UnchangedInv DEF Reject
    <2>5. CASE UNCHANGED vars BY <2>5, UnchangedInv
    <2> QED BY <2>1, <2>2, <2>3, <2>4, <2>5 DEF Next
  <1> QED BY <1>1, InitInv, PTL DEF Spec

-----------------------------------------------------------------------------
(* What follows from it.                                                   *)

\* TypeOK, that the ring's bounds stay inside it above all, in every reachable
\* state of any number of ids, any size of the ring and any window
THEOREM RingTypeCorrect == Spec => []TypeOK
  <1>1. Inv => TypeOK
    BY DEF Inv
  <1> QED BY <1>1, InvHolds, PTL

\* as many keys as entries: no entry shares its id with another one
LEMMA AsManyKeys == ASSUME Inv PROVE Cardinality(processedTask) = count
  <1> DEFINE f == [i \in 1..count |-> Ring[i].taskId]
  <1>1. count \in Nat
    BY ProcessedAssumption DEF Inv, TypeOK
  <1>2. f \in Bijection(1..count, processedTask)
    <2>1. f \in [1..count -> processedTask]
      BY DEF Inv, SameIds
    <2>2. \A i, j \in 1..count : f[i] = f[j] => i = j
      BY DEF Inv, SameIds
    <2>3. \A k \in processedTask : \E i \in 1..count : f[i] = k
      BY DEF Inv, SameIds
    <2> QED BY <2>1, <2>2, <2>3 DEF Bijection, Injection, Surjection, IsInjective
  <1>3. ExistsBijection(1..count, processedTask)
    BY <1>2 DEF ExistsBijection
  <1> QED BY <1>1, <1>3, FS_CountingElements

\* The map and the ring agree: checkProcessed never leaves a key in the map
\* whose entry has left the ring, and cleanProcessTask never deletes the key
\* of an entry that is still there.
THEOREM MapIsRing == Spec => []RingIsMap
  <1>1. Inv => RingIsMap
    BY AsManyKeys DEF Inv, SameIds, RingIsMap
  <1> QED BY <1>1, InvHolds, PTL

-----------------------------------------------------------------------------
(* The list of RecentlyProcessed.                                          *)

LEMMA RememberedIs == ASSUME Inv PROVE Recent!Remembered = processedTask
  <1>1. Len(Ring) = count
    BY RingIsSeq DEF Inv
  <1> QED BY <1>1 DEF Inv, SameIds, Recent!Remembered

LEMMA InitRefines == ASSUME Init PROVE Recent!Init
  <1>1. TypeOK
    BY InitInv DEF Inv
  <1>2. Ring \in Seq(processTime) /\ Len(Ring) = 0
    BY <1>1, RingIsSeq DEF Init
  <1>3. Ring = <<>>
    BY <1>2
  <1> QED BY <1>3 DEF Recent!Init, Init

LEMMA AcceptRefines == ASSUME Inv, NEW k \in Ids, Accept(k) PROVE Recent!Accept(k)
  <1> DEFINE s == IF count >= BuffLen THEN 1 ELSE 0
             kept == IF Len(Ring) >= BuffLen THEN Tail(Ring) ELSE Ring
             e == [taskId |-> k, t |-> now]
  <1>1. /\ TypeOK' /\ s \in 0..count /\ count' = count - s + 1
        /\ \A i \in 1..(count - s) : Ring'[i] = Ring[i + s]
        /\ Ring'[count'] = [t |-> now, taskId |-> k]
        /\ k \notin processedTask /\ now' = now
    BY RingAfterAccept
  <1>2. Ring \in Seq(processTime) /\ Len(Ring) = count /\ count \in Nat
    BY RingIsSeq, ProcessedAssumption DEF Inv, TypeOK
  <1>3. Ring' \in Seq(processTime) /\ Len(Ring') = count'
    BY <1>1, RingIsSeqNext
  <1>4. /\ kept \in Seq(processTime) /\ Len(kept) = count - s
        /\ \A i \in 1..(count - s) : kept[i] = Ring[i + s]
    <2>1. CASE count >= BuffLen
      <3>1. Ring # <<>> /\ s = 1 /\ kept = Tail(Ring)
        BY <1>1, <1>2, <2>1
      <3>2. /\ Tail(Ring) \in Seq(processTime) /\ Len(Tail(Ring)) = Len(Ring) - 1
            /\ \A i \in 1..Len(Tail(Ring)) : Tail(Ring)[i] = Ring[i + 1]
        BY <1>2, <3>1, HeadTailProperties
      <3> QED BY <1>2, <3>1, <3>2
    <2>2. CASE ~(count >= BuffLen)
      BY <1>2, <2>2
    <2> QED BY <2>1, <2>2
  <1>5. e \in processTime
    BY DEF Inv, TypeOK, processTime
  <1> HIDE DEF s, kept
  <1>6. /\ Append(kept, e) \in Seq(processTime)
        /\ Len(Append(kept, e)) = count'
        /\ \A i \in 1..(count - s) : Append(kept, e)[i] = kept[i]
        /\ Append(kept, e)[count'] = e
    BY <1>1, <1>2, <1>4, <1>5, AppendProperties
  <1>7. ASSUME NEW i \in 1..count' PROVE Ring'[i] = Append(kept, e)[i]
    <2>1. i = count' \/ i \in 1..(count - s)
      BY <1>1, <1>2
    <2> QED BY <1>1, <1>4, <1>6, <2>1
  <1>8. Ring' = Append(kept, e)
    BY <1>3, <1>6, <1>7, SeqEqual
  <1> QED BY <1>1, <1>8, RememberedIs DEF Recent!Accept, kept

LEMMA CleanRefines == ASSUME Inv, Clean PROVE Recent!Forget
  <1>1. PICK n \in 0..count :
           /\ TypeOK'
           /\ count' = count - n
           /\ \A i \in 1..(count - n) : Ring'[i] = Ring[i + n]
           /\ \A i \in 1..n : Ring[i].t < now - Window
           /\ n < count => ~(Ring[n + 1].t < now - Window)
           /\ now' = now
    BY RingAfterClean
  <1>2. Ring \in Seq(processTime) /\ Len(Ring) = count /\ count \in Nat /\ n \in Nat /\ n <= count
    BY <1>1, RingIsSeq, ProcessedAssumption DEF Inv, TypeOK
  <1>3. Ring' \in Seq(processTime) /\ Len(Ring') = count'
    BY <1>1, RingIsSeqNext
  <1>4. /\ SubSeq(Ring, n + 1, count) \in Seq(processTime)
        /\ Len(SubSeq(Ring, n + 1, count)) = count - n
        /\ \A i \in 1..(count - n) : SubSeq(Ring, n + 1, count)[i] = Ring[i + n]
    BY <1>2, SubSeqProperties
  <1>5. Ring' = SubSeq(Ring, n + 1, count)
    BY <1>1, <1>2, <1>3, <1>4, SeqEqual
  <1>6. ASSUME NEW i \in (n + 1)..count PROVE ~(Ring[i].t < now - Window)
    <2>1. /\ n + 1 \in 1..count /\ i \in 1..count /\ n + 1 <= i /\ n < count
      BY <1>2
    <2>2. Ring[n + 1].t <= Ring[i].t
      BY <2>1 DEF Inv, InOrder
    <2>3. Ring[n + 1].t \in Nat /\ Ring[i].t \in Nat /\ now \in Nat /\ Window \in Nat
      BY <2>1, RingIsSeq, ProcessedAssumption DEF Inv, TypeOK, processTime
    <2> QED BY <1>1, <2>1, <2>2, <2>3
  <1> QED BY <1>1, <1>2, <1>5, <1>6 DEF Recent!Forget, Recent!TooOld

\* every step of map and ring is a step of the list, or none of its own
LEMMA StepRefines == ASSUME Inv, [Next]_vars PROVE [Recent!Next]_(Recent!vars)
  <1>1. CASE Tick
    <2>1. now' = now + 1 /\ Ring' = Ring
      BY <1>1 DEF Tick, Ring
    <2> QED BY <2>1 DEF Recent!Next, Recent!Tick
  <1>2. CASE Clean
    BY <1>2, CleanRefines DEF Recent!Next
  <1>3. ASSUME NEW k \in Ids, Accept(k) PROVE Recent!Next
    BY <1>3, AcceptRefines DEF Recent!Next
  <1>4. ASSUME UNCHANGED vars PROVE UNCHANGED Recent!vars
    BY <1>4 DEF vars, Recent!vars, Ring
  <1>5. ASSUME NEW k \in Ids, Reject(k) PROVE UNCHANGED Recent!vars
    BY <1>4, <1>5 DEF Reject
  <1> QED BY <1>1, <1>2, <1>3, <1>4, <1>5 DEF Next

\* Map and ring implement the list: an id is accepted a second time only after
\* it was forgotten, the oldest one makes room in a full ring, and a call of
\* cleanProcessTask forgets every old id and no other, for every number of
\* ids, every size of the ring and every window.
THEOREM ImplementsRecent == Spec => RecentSpec
  <1>1. Init => Recent!Init
    BY InitRefines
  <1>2. Inv /\ [Next]_vars => [Recent!Next]_(Recent!vars)
    BY StepRefines
  <1> QED BY <1>1, <1>2, InvHolds, PTL DEF Spec, RecentSpec, Recent!Spec
=============================================================================
