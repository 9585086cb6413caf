------------------------- MODULE RecentlyProcessed --------------------------
(***************************************************************************)
(* What checkProcessed and cleanProcessTask keep, without the ring buffer  *)
(* and the map: the task ids whose end was processed, oldest first, each   *)
(* with the time it was accepted.                                          *)
(***************************************************************************)
EXTENDS Integers, Sequences

CONSTANTS
  Ids,       (* task ids                                                     *)
  BuffLen,   (* how many are remembered at most                              *)
  Window     (* how long one is remembered, unless there are too many        *)

VARIABLES now, recent

vars == <<now, recent>>

Remembered == {recent[i].taskId : i \in 1..Len(recent)}

Init == now = 0 /\ recent = <<>>

\* an id is accepted only while it is not remembered; the oldest one makes room
Accept(k) ==
  /\ k \notin Remembered
  /\ recent' = Append(IF Len(recent) >= BuffLen THEN Tail(recent) ELSE recent,
                      [taskId |-> k, t |-> now])
  /\ UNCHANGED now

TooOld(e) == e.t < now - Window

\* every id that is too old is forgotten, and no other: they are the first ones
Forget ==
  \E n \in 0..Len(recent) :
    /\ \A i \in 1..n : TooOld(recent[i])
    /\ \A i \in (n + 1)..Len(recent) : ~TooOld(recent[i])
    /\ recent' = SubSeq(recent, n + 1, Len(recent))
    /\ UNCHANGED now

Tick ==
  /\ now' = now + 1
  /\ UNCHANGED recent

Next == Tick \/ Forget \/ \E k \in Ids : Accept(k)

Spec == Init /\ [][Next]_vars
=============================================================================
