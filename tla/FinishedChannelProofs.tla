------------------------ MODULE FinishedChannelProofs ------------------------
(***************************************************************************)
(* Proofs about FinishedChannel: whatever the capacity and however many    *)
(* tasks end at once, no task is delivered twice.                          *)
(*                                                                         *)
(* The argument: a task that is in the channel, with the user or dropped   *)
(* has been sent, its goroutine is "done", and a goroutine that is done    *)
(* sends no more; so each task enters the channel once, and what leaves    *)
(* the channel at its head goes either to the user or to dropped.          *)
(***************************************************************************)
EXTENDS FinishedChannel, FiniteSetTheorems, SequenceTheorems, TLAPS

\* a task past the channel's entrance has been sent
SentOnce ==
  \A t \in Tasks :
    InChannel(t) \/ WasReceived(t) \/ t \in dropped => caller[t] = "done"

\* and is behind it in one place
Apart ==
  \A t \in Tasks :
    /\ InChannel(t) => ~WasReceived(t) /\ t \notin dropped
    /\ WasReceived(t) => t \notin dropped

\* neither the channel nor the user holds a task twice
NoneTwice ==
  /\ \A i, j \in 1..Len(finshedTask) : finshedTask[i] = finshedTask[j] => i = j
  /\ \A i, j \in 1..Len(received) : received[i] = received[j] => i = j

Inv == TypeOK /\ SentOnce /\ Apart /\ NoneTwice

-----------------------------------------------------------------------------
(* The two ends of the channel.                                            *)

\* an element appended at the end is there once, and the others stay
LEMMA AppendOne ==
  ASSUME NEW s \in Seq(Tasks), NEW t \in Tasks,
         \A i, j \in 1..Len(s) : s[i] = s[j] => i = j,
         \A i \in 1..Len(s) : s[i] # t
  PROVE  /\ Append(s, t) \in Seq(Tasks)
         /\ Len(Append(s, t)) = Len(s) + 1
         /\ \A u : (\E i \in 1..Len(Append(s, t)) : Append(s, t)[i] = u)
                     <=> u = t \/ \E i \in 1..Len(s) : s[i] = u
         /\ \A i, j \in 1..Len(Append(s, t)) : Append(s, t)[i] = Append(s, t)[j] => i = j
  <1> DEFINE r == Append(s, t)
  <1>1. /\ r \in Seq(Tasks) /\ Len(r) = Len(s) + 1
        /\ \A i \in 1..Len(s) : r[i] = s[i]
        /\ r[Len(s) + 1] = t
    BY AppendProperties
  <1> HIDE DEF r
  <1>2. Len(s) \in Nat
    OBVIOUS
  <1>3. \A i \in 1..Len(r) : i \in 1..Len(s) \/ i = Len(s) + 1
    BY <1>1, <1>2
  <1>4. Len(s) + 1 \in 1..Len(r) /\ \A i \in 1..Len(s) : i \in 1..Len(r)
    BY <1>1, <1>2
  <1>5. \A u : (\E i \in 1..Len(r) : r[i] = u) <=> u = t \/ \E i \in 1..Len(s) : s[i] = u
    BY <1>1, <1>3, <1>4
  <1>6. ASSUME NEW i \in 1..Len(r), NEW j \in 1..Len(r), r[i] = r[j] PROVE i = j
    BY <1>1, <1>3, <1>6
  <1> QED BY <1>1, <1>5, <1>6 DEF r

\* an element taken out at the head is no more there, and the others stay
LEMMA TakeHead ==
  ASSUME NEW s \in Seq(Tasks), s # <<>>,
         \A i, j \in 1..Len(s) : s[i] = s[j] => i = j
  PROVE  /\ Head(s) \in Tasks /\ Tail(s) \in Seq(Tasks)
         /\ Len(Tail(s)) = Len(s) - 1
         /\ \E i \in 1..Len(s) : s[i] = Head(s)
         /\ \A u : (\E i \in 1..Len(Tail(s)) : Tail(s)[i] = u)
                     <=> u # Head(s) /\ \E i \in 1..Len(s) : s[i] = u
         /\ \A i, j \in 1..Len(Tail(s)) : Tail(s)[i] = Tail(s)[j] => i = j
  <1> DEFINE r == Tail(s)
  <1>1. /\ Head(s) \in Tasks /\ r \in Seq(Tasks) /\ Len(r) = Len(s) - 1
        /\ \A i \in 1..Len(r) : r[i] = s[i + 1]
    BY HeadTailProperties
  <1>2. Len(s) \in Nat \ {0} /\ Head(s) = s[1]
    OBVIOUS
  <1> HIDE DEF r
  <1>3. \A i \in 1..Len(r) : i + 1 \in 1..Len(s) /\ i + 1 # 1
    BY <1>1, <1>2
  <1>4. \A i \in 1..Len(s) : i = 1 \/ (i - 1 \in 1..Len(r) /\ (i - 1) + 1 = i)
    BY <1>1, <1>2
  <1>5. 1 \in 1..Len(s)
    BY <1>2
  <1>6. ASSUME NEW u PROVE (\E i \in 1..Len(r) : r[i] = u)
                             <=> u # Head(s) /\ \E i \in 1..Len(s) : s[i] = u
    <2>1. ASSUME NEW i \in 1..Len(r), r[i] = u
          PROVE  u # Head(s) /\ \E j \in 1..Len(s) : s[j] = u
      BY <1>1, <1>2, <1>3, <1>5, <2>1
    <2>2. ASSUME NEW i \in 1..Len(s), s[i] = u, u # Head(s)
          PROVE  \E j \in 1..Len(r) : r[j] = u
      <3>1. i - 1 \in 1..Len(r) /\ (i - 1) + 1 = i
        BY <1>2, <1>4, <2>2
      <3>2. r[i - 1] = s[(i - 1) + 1]
        BY <1>1, <3>1
      <3> QED BY <2>2, <3>1, <3>2
    <2> QED BY <2>1, <2>2
  <1>7. ASSUME NEW i \in 1..Len(r), NEW j \in 1..Len(r), r[i] = r[j] PROVE i = j
    <2>1. i + 1 = j + 1
      BY <1>1, <1>3, <1>7
    <2> QED BY <2>1
  <1> QED BY <1>1, <1>2, <1>5, <1>6, <1>7 DEF r

-----------------------------------------------------------------------------
(* The invariant.                                                          *)

\* the same for the channel
LEMMA TakeFirst ==
  ASSUME Inv, finshedTask # <<>>, finshedTask' = Tail(finshedTask)
  PROVE  /\ Head(finshedTask) \in Tasks /\ finshedTask' \in Seq(Tasks)
         /\ Len(finshedTask') = Len(finshedTask) - 1
         /\ InChannel(Head(finshedTask))
         /\ \A u : (\E i \in 1..Len(finshedTask') : finshedTask'[i] = u)
                     <=> u # Head(finshedTask) /\ InChannel(u)
         /\ \A i, j \in 1..Len(finshedTask') : finshedTask'[i] = finshedTask'[j] => i = j
  <1>1. /\ finshedTask \in Seq(Tasks)
        /\ \A i, j \in 1..Len(finshedTask) : finshedTask[i] = finshedTask[j] => i = j
    BY DEF Inv, TypeOK, NoneTwice
  <1> DEFINE s == finshedTask
  <1>2. s \in Seq(Tasks) /\ s # <<>> /\ \A i, j \in 1..Len(s) : s[i] = s[j] => i = j
    BY <1>1
  <1> HIDE DEF s
  <1>3. /\ Head(s) \in Tasks /\ Tail(s) \in Seq(Tasks)
        /\ Len(Tail(s)) = Len(s) - 1
        /\ \E i \in 1..Len(s) : s[i] = Head(s)
        /\ \A u : (\E i \in 1..Len(Tail(s)) : Tail(s)[i] = u)
                    <=> u # Head(s) /\ \E i \in 1..Len(s) : s[i] = u
        /\ \A i, j \in 1..Len(Tail(s)) : Tail(s)[i] = Tail(s)[j] => i = j
    BY <1>2, TakeHead
  <1> QED BY <1>3 DEF s, InChannel

LEMMA InitInv == ASSUME Init PROVE Inv
  <1>1. Len(finshedTask) = 0 /\ Len(received) = 0
    BY DEF Init
  <1>2. TypeOK
    <2>1. finshedTask \in Seq(Tasks) /\ received \in Seq(Tasks) /\ Len(finshedTask) <= Capacity
      BY <1>1, FinishedAssumption DEF Init
    <2> QED BY <2>1 DEF Init, TypeOK
  <1> QED BY <1>1, <1>2 DEF Init, Inv, SentOnce, Apart, NoneTwice, InChannel, WasReceived

\* a step of finshed that leaves the channel alone
LEMMA CallerInv ==
  ASSUME Inv, NEW t \in Tasks, NEW pc \in {"send", "pop", "done", "panic"},
         caller[t] # "done", CallerAt(t, pc),
         UNCHANGED <<finshedTask, closed, received, dropped>>
  PROVE  Inv'
  <1>1. TypeOK'
    BY DEF Inv, TypeOK, CallerAt
  <1>2. \A u \in Tasks : /\ InChannel(u)' = InChannel(u)
                         /\ WasReceived(u)' = WasReceived(u)
    BY DEF InChannel, WasReceived
  <1>3. \A u \in Tasks : caller[u] = "done" => caller'[u] = "done"
    BY DEF Inv, TypeOK, CallerAt
  <1> QED BY <1>1, <1>2, <1>3 DEF Inv, SentOnce, Apart, NoneTwice

LEMMA SendInv == ASSUME Inv, NEW t \in Tasks, Send(t) PROVE Inv'
  <1>1. /\ caller[t] = "send" /\ Len(finshedTask) < Capacity
        /\ finshedTask' = Append(finshedTask, t)
        /\ caller' = [caller EXCEPT ![t] = "done"]
        /\ closed' = closed /\ received' = received /\ dropped' = dropped
    BY DEF Send, CallerAt
  <1>2. ~InChannel(t) /\ ~WasReceived(t) /\ t \notin dropped
    BY <1>1 DEF Inv, SentOnce
  <1>3. /\ finshedTask' \in Seq(Tasks) /\ Len(finshedTask') = Len(finshedTask) + 1
        /\ \A u : (\E i \in 1..Len(finshedTask') : finshedTask'[i] = u) <=> u = t \/ InChannel(u)
        /\ \A i, j \in 1..Len(finshedTask') : finshedTask'[i] = finshedTask'[j] => i = j
    BY <1>1, <1>2, AppendOne DEF Inv, TypeOK, NoneTwice, InChannel
  <1>4. TypeOK'
    <2>1. Len(finshedTask') <= Capacity
      BY <1>1, <1>3, FinishedAssumption DEF Inv, TypeOK
    <2> QED BY <1>1, <1>3, <2>1 DEF Inv, TypeOK
  <1>5. \A u \in Tasks : /\ InChannel(u)' <=> u = t \/ InChannel(u)
                         /\ WasReceived(u)' = WasReceived(u)
    BY <1>1, <1>3 DEF InChannel, WasReceived
  <1>6. caller'[t] = "done" /\ \A u \in Tasks : u # t => caller'[u] = caller[u]
    BY <1>1 DEF Inv, TypeOK
  <1>7. SentOnce' /\ Apart'
    BY <1>1, <1>2, <1>5, <1>6 DEF Inv, SentOnce, Apart
  <1>8. NoneTwice'
    BY <1>1, <1>3 DEF Inv, NoneTwice
  <1> QED BY <1>4, <1>7, <1>8 DEF Inv

LEMMA PopOneInv == ASSUME Inv, NEW t \in Tasks, PopOne(t) PROVE Inv'
  <1>1. /\ caller[t] = "pop" /\ finshedTask # <<>>
        /\ finshedTask' = Tail(finshedTask)
        /\ dropped' = dropped \cup {Head(finshedTask)}
        /\ caller' = [caller EXCEPT ![t] = "done"]
        /\ closed' = closed /\ received' = received
    BY DEF PopOne, CallerAt
  <1>2. /\ Head(finshedTask) \in Tasks /\ finshedTask' \in Seq(Tasks)
        /\ Len(finshedTask') = Len(finshedTask) - 1
        /\ InChannel(Head(finshedTask))
        /\ \A u : (\E i \in 1..Len(finshedTask') : finshedTask'[i] = u)
                    <=> u # Head(finshedTask) /\ InChannel(u)
        /\ \A i, j \in 1..Len(finshedTask') : finshedTask'[i] = finshedTask'[j] => i = j
    BY <1>1, TakeFirst
  <1>3. TypeOK'
    <2>1. Len(finshedTask') <= Capacity
      BY <1>1, <1>2, FinishedAssumption DEF Inv, TypeOK
    <2> QED BY <1>1, <1>2, <2>1 DEF Inv, TypeOK
  <1>4. \A u \in Tasks : /\ InChannel(u)' <=> u # Head(finshedTask) /\ InChannel(u)
                         /\ WasReceived(u)' = WasReceived(u)
                         /\ u \in dropped' <=> u \in dropped \/ u = Head(finshedTask)
    BY <1>1, <1>2 DEF InChannel, WasReceived
  <1>5. \A u \in Tasks : caller[u] = "done" => caller'[u] = "done"
    BY <1>1 DEF Inv, TypeOK
  <1>6. SentOnce' /\ Apart'
    BY <1>2, <1>4, <1>5 DEF Inv, SentOnce, Apart
  <1>7. NoneTwice'
    BY <1>1, <1>2 DEF Inv, NoneTwice
  <1> QED BY <1>3, <1>6, <1>7 DEF Inv

LEMMA UserReceiveInv == ASSUME Inv, UserReceive PROVE Inv'
  <1> DEFINE h == Head(finshedTask)
  <1>1. /\ finshedTask # <<>> /\ finshedTask' = Tail(finshedTask)
        /\ received' = Append(received, h)
        /\ closed' = closed /\ caller' = caller /\ dropped' = dropped
    BY DEF UserReceive
  <1>2. /\ h \in Tasks /\ finshedTask' \in Seq(Tasks)
        /\ Len(finshedTask') = Len(finshedTask) - 1
        /\ InChannel(h)
        /\ \A u : (\E i \in 1..Len(finshedTask') : finshedTask'[i] = u) <=> u # h /\ InChannel(u)
        /\ \A i, j \in 1..Len(finshedTask') : finshedTask'[i] = finshedTask'[j] => i = j
    BY <1>1, TakeFirst
  <1>3. ~WasReceived(h) /\ h \notin dropped
    BY <1>2 DEF Inv, Apart
  <1> HIDE DEF h
  <1>4. /\ received' \in Seq(Tasks)
        /\ \A u : (\E i \in 1..Len(received') : received'[i] = u) <=> u = h \/ WasReceived(u)
        /\ \A i, j \in 1..Len(received') : received'[i] = received'[j] => i = j
    BY <1>1, <1>2, <1>3, AppendOne DEF Inv, TypeOK, NoneTwice, WasReceived
  <1>5. TypeOK'
    <2>1. Len(finshedTask') <= Capacity
      BY <1>1, <1>2, FinishedAssumption DEF Inv, TypeOK
    <2> QED BY <1>1, <1>2, <1>4, <2>1 DEF Inv, TypeOK
  <1>6. \A u \in Tasks : /\ InChannel(u)' <=> u # h /\ InChannel(u)
                         /\ WasReceived(u)' <=> u = h \/ WasReceived(u)
    BY <1>2, <1>4 DEF InChannel, WasReceived
  <1>7. SentOnce' /\ Apart'
    BY <1>1, <1>2, <1>3, <1>6 DEF Inv, SentOnce, Apart
  <1>8. NoneTwice'
    BY <1>2, <1>4 DEF NoneTwice
  <1> QED BY <1>5, <1>7, <1>8 DEF Inv

LEMMA UnchangedInv ==
  ASSUME Inv, closed' \in BOOLEAN, UNCHANGED <<finshedTask, caller, received, dropped>>
  PROVE  Inv'
  BY DEF Inv, TypeOK, SentOnce, Apart, NoneTwice, InChannel, WasReceived

\* the invariant holds in every reachable state
THEOREM InvHolds == Spec => []Inv
  <1>1. Inv /\ [Next]_vars => Inv'
    <2> SUFFICES ASSUME Inv, [Next]_vars PROVE Inv'
      OBVIOUS
    <2>1. ASSUME NEW t \in Tasks,
                 Call(t) \/ SendPanic(t) \/ SendTimeout(t) \/ PopTimeout(t)
          PROVE  Inv'
      BY <2>1, CallerInv DEF Call, SendPanic, SendTimeout, PopTimeout
    <2>2. ASSUME NEW t \in Tasks, Send(t) PROVE Inv'
      BY <2>2, SendInv
    <2>3. ASSUME NEW t \in Tasks, PopOne(t) PROVE Inv'
      BY <2>3, PopOneInv
    <2>4. CASE UserReceive
      BY <2>4, UserReceiveInv
    <2>5. CASE Close
      BY <2>5, UnchangedInv DEF Close
    <2>6. CASE UNCHANGED vars
      BY <2>6, UnchangedInv DEF vars, Inv, TypeOK
    <2> QED BY <2>1, <2>2, <2>3, <2>4, <2>5, <2>6 DEF Next
  <1>2. Init => Inv
    BY InitInv
  <1> QED BY <1>1, <1>2, PTL DEF Spec

\* TypeOK, that the channel never holds more than its capacity above all
THEOREM ChannelTypeCorrect == Spec => []TypeOK
  <1>1. Inv => TypeOK
    BY DEF Inv
  <1> QED BY <1>1, InvHolds, PTL

\* A task is in one place at a time, whatever the goroutines that report tasks,
\* the user who reads and the Close that comes in between do: the user receives
\* no task twice, and none that finshed took out to make room.
THEOREM DeliveredAtMostOnce == Spec => []OnePlace
  <1>1. ASSUME Inv, NEW t \in Tasks
        PROVE  Cardinality({p \in {"finshed", "channel", "user", "dropped"} :
                 CASE p = "finshed" -> caller[t] \in {"running", "send", "pop", "panic"}
                   [] p = "channel" -> InChannel(t)
                   [] p = "user"    -> WasReceived(t)
                   [] p = "dropped" -> t \in dropped}) <= 1
    <2> DEFINE In(p) == CASE p = "finshed" -> caller[t] \in {"running", "send", "pop", "panic"}
                          [] p = "channel" -> InChannel(t)
                          [] p = "user"    -> WasReceived(t)
                          [] p = "dropped" -> t \in dropped
               S == {p \in {"finshed", "channel", "user", "dropped"} : In(p)}
    <2>1. /\ In("finshed") => caller[t] # "done"
          /\ In("channel") <=> InChannel(t)
          /\ In("user") <=> WasReceived(t)
          /\ In("dropped") <=> t \in dropped
      OBVIOUS
    <2> HIDE DEF In
    <2>2. \A p, q \in S : p = q
      BY <1>1, <2>1 DEF Inv, SentOnce, Apart
    <2>3. S = {} \/ \E p : S = {p}
      BY <2>2
    <2>4. Cardinality(S) <= 1
      BY <2>3, FS_EmptySet, FS_Singleton
    <2> QED BY <2>4 DEF In
  <1>2. Inv => OnePlace
    BY <1>1 DEF Inv, NoneTwice, OnePlace
  <1> QED BY <1>2, InvHolds, PTL
=============================================================================
