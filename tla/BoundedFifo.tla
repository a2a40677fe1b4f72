---------------------------- MODULE BoundedFifo ----------------------------
(***************************************************************************)
(* What the queues of lockfree_queue promise their callers: a bounded      *)
(* first-in first-out buffer whose operations take effect at one instant   *)
(* between their call and their return.  An operation that fails proves    *)
(* the buffer full or empty at such an instant only when Precise holds.    *)
(***************************************************************************)
EXTENDS Naturals, Sequences

CONSTANTS Thread, Value, None, Bound, Precise

VARIABLES
  items,  \* the values in the buffer, oldest first
  call    \* per thread: the phase of its operation and the value it carries

vars == <<items, call>>

Phase == {"idle", "push", "pop", "pushed", "full", "popped", "empty"}
Idle == [phase |-> "idle", value |-> None]

Init ==
  /\ items = <<>>
  /\ call = [t \in Thread |-> Idle]

BeginPush(t, v) ==
  /\ call[t] = Idle
  /\ call' = [call EXCEPT ![t] = [phase |-> "push", value |-> v]]
  /\ UNCHANGED items

BeginPop(t) ==
  /\ call[t] = Idle
  /\ call' = [call EXCEPT ![t] = [phase |-> "pop", value |-> None]]
  /\ UNCHANGED items

Put(t) ==
  /\ call[t].phase = "push"
  /\ Len(items) < Bound
  /\ items' = Append(items, call[t].value)
  /\ call' = [call EXCEPT ![t] = [phase |-> "pushed", value |-> None]]

RefusePush(t) ==
  /\ call[t].phase = "push"
  /\ Precise => Len(items) = Bound
  /\ call' = [call EXCEPT ![t] = [phase |-> "full", value |-> None]]
  /\ UNCHANGED items

Get(t) ==
  /\ call[t].phase = "pop"
  /\ items # <<>>
  /\ items' = Tail(items)
  /\ call' = [call EXCEPT ![t] = [phase |-> "popped", value |-> Head(items)]]

RefusePop(t) ==
  /\ call[t].phase = "pop"
  /\ Precise => items = <<>>
  /\ call' = [call EXCEPT ![t] = [phase |-> "empty", value |-> None]]
  /\ UNCHANGED items

Return(t) ==
  /\ call[t].phase \in {"pushed", "full", "popped", "empty"}
  /\ call' = [call EXCEPT ![t] = Idle]
  /\ UNCHANGED items

Next ==
  \E t \in Thread :
    \/ \E v \in Value : BeginPush(t, v)
    \/ BeginPop(t)
    \/ Put(t) \/ RefusePush(t)
    \/ Get(t) \/ RefusePop(t)
    \/ Return(t)

Spec == Init /\ [][Next]_vars
=============================================================================
