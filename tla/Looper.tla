------------------------------- MODULE Looper -------------------------------
(***************************************************************************)
(* The message queue of an Android main thread, as far as                  *)
(* PopupCameraService.java uses it: Handler.post, postDelayed,             *)
(* sendEmptyMessageDelayed, hasMessages and removeMessages, and the        *)
(* dispatch of due messages in the order of their due times.               *)
(*                                                                         *)
(* The queue is a wheel of slots: slot d holds, in the order they were     *)
(* posted, the messages that become due in d ticks.  Slot 0 holds the      *)
(* messages that are due; only they may be dispatched.  The framework is   *)
(* not part of this repository: the module is its contract.                *)
(***************************************************************************)
EXTENDS Integers, Sequences

CONSTANT Horizon   \* the longest delay, in ticks

ASSUME HorizonAssumption == Horizon \in Nat \ {0}

Slots == 0..Horizon
QueueOf(M) == [Slots -> Seq(M)]
EmptyQueue == [d \in Slots |-> << >>]

(* What a removed message leaves behind.                                   *)
NoMessage == [what |-> "none", arg |-> "none"]

(* Handler.post is Post(q, 0, m), Handler.postDelayed(m, d) is Post(q, d, m). *)
Post(q, d, m) == [q EXCEPT ![d] = Append(@, m)]

(* The next message is out of the queue: Looper.loop took it.              *)
Taken(q) == [q EXCEPT ![0] = Tail(@)]

(* One tick of SystemClock: what was due in one tick is due now, behind    *)
(* the messages already due.                                               *)
Advanced(q) ==
  [d \in Slots |-> IF d = 0 THEN q[0] \o q[1]
                   ELSE IF d < Horizon THEN q[d + 1] ELSE << >>]

(* Handler.removeMessages(w).  A removed entry keeps its place, and the    *)
(* looper steps over it: nothing can tell it from an entry that is gone.   *)
Cancelled(q, w) ==
  [d \in Slots |-> [i \in 1..Len(q[d]) |->
                      IF q[d][i].what = w THEN NoMessage ELSE q[d][i]]]

(* m is waiting in the queue.                                              *)
IsQueued(q, m) == \E d \in Slots : \E i \in 1..Len(q[d]) : q[d][i] = m

(* Handler.hasMessages(w).                                                 *)
HasMessages(q, w) ==
  \E d \in Slots : \E i \in 1..Len(q[d]) : q[d][i].what = w

(* A message is due, and it is a w.                                        *)
IsNext(q, w) == q[0] # << >> /\ Head(q[0]).what = w
=============================================================================
