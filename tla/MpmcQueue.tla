----------------------------- MODULE MpmcQueue -----------------------------
(***************************************************************************)
(* The multi-producer multi-consumer ring of lockfree_queue                *)
(* (src/mpmc/queue.zig).  A slot's turn tells which position may use it:   *)
(* a push at position p waits for turn p and leaves p + 1, the pop at p    *)
(* waits for p + 1 and leaves p + capacity.  Positions are claimed by a    *)
(* compare-and-swap on tail and head, which may fail spuriously.           *)
(* Each action holds one access to shared memory.                          *)
(***************************************************************************)
EXTENDS Naturals

CONSTANTS
  Thread,    \* the threads; any of them may push and pop
  Value, None,
  capacity,  \* slots of the ring
  MaxPushes, \* bound: no push begins at this tail
  Running    \* the threads that are never stopped for good

\* What init() accepts, less the power of two that makes the mask a remainder
\* and the ring of one slot, where the turn a push leaves is the very turn the
\* next push waits for.
ASSUME MpmcAssumption ==
  /\ capacity \in Nat \ {0, 1}
  /\ None \notin Value
  /\ MaxPushes \in Nat
  /\ Running \subseteq Thread

VARIABLES
  head, tail,  \* next position to pop, to push
  turn, data,  \* per slot
  thread       \* per thread: where it is, its position and its value

vars == <<head, tail, turn, data, thread>>

Slot == 0..(capacity - 1)
slot(pos) == pos % capacity

PushPc == {"push", "push_check", "push_claim", "write", "publish"}
PopPc == {"pop", "pop_check", "pop_claim", "read", "release"}
Result == {"pushed", "full", "popped", "empty"}

Idle == [pc |-> "idle", pos |-> 0, value |-> None]

Init ==
  /\ head = 0 /\ tail = 0
  /\ turn = [s \in Slot |-> s]
  /\ data = [s \in Slot |-> None]
  /\ thread = [t \in Thread |-> Idle]

goto(t, pc) == thread' = [thread EXCEPT ![t].pc = pc]

Return(t) ==
  /\ thread[t].pc \in Result
  /\ thread' = [thread EXCEPT ![t] = Idle]
  /\ UNCHANGED <<head, tail, turn, data>>

-----------------------------------------------------------------------------
(* push() *)

Push(t, v) ==
  /\ thread[t].pc = "idle"
  /\ tail < MaxPushes
  /\ thread' = [thread EXCEPT ![t] = [pc |-> "push", pos |-> 0, value |-> v]]
  /\ UNCHANGED <<head, tail, turn, data>>

LoadTail(t) ==
  /\ thread[t].pc = "push"
  /\ thread' = [thread EXCEPT ![t].pc = "push_check", ![t].pos = tail]
  /\ UNCHANGED <<head, tail, turn, data>>

\* A later turn means that tail has moved on: try again.
\* mutant: a slot still in use is waited for, not reported
pushVerdictSpin(seen, pos) == IF seen = pos THEN "push_claim" ELSE "push"
\* mutant: a slot whose last message is still there is taken for free
pushVerdictEager(seen, pos) ==
  IF seen = pos \/ seen + capacity = pos + 1 THEN "push_claim" ELSE IF seen < pos THEN "full" ELSE "push"
pushVerdict(seen, pos) ==
  IF seen = pos THEN "push_claim" ELSE IF seen < pos THEN "full" ELSE "push"

CheckPushTurn(t) ==
  /\ thread[t].pc = "push_check"
  /\ goto(t, pushVerdict(turn[slot(thread[t].pos)], thread[t].pos))
  /\ UNCHANGED <<head, tail, turn, data>>

ClaimTail(t) ==
  /\ thread[t].pc = "push_claim" /\ tail = thread[t].pos
  /\ tail' = tail + 1
  /\ goto(t, "write")
  /\ UNCHANGED <<head, turn, data>>

LoseTail(t) ==
  /\ thread[t].pc = "push_claim"
  /\ goto(t, "push")
  /\ UNCHANGED <<head, tail, turn, data>>

WriteData(t) ==
  /\ thread[t].pc = "write"
  /\ data' = [data EXCEPT ![slot(thread[t].pos)] = thread[t].value]
  /\ goto(t, "publish")
  /\ UNCHANGED <<head, tail, turn>>

Publish(t) ==
  /\ thread[t].pc = "publish"
  /\ turn' = [turn EXCEPT ![slot(thread[t].pos)] = thread[t].pos + 1]
  /\ thread' = [thread EXCEPT ![t].pc = "pushed", ![t].value = None]
  /\ UNCHANGED <<head, tail, data>>

-----------------------------------------------------------------------------
(* pop() *)

Pop(t) ==
  /\ thread[t].pc = "idle"
  /\ goto(t, "pop")
  /\ UNCHANGED <<head, tail, turn, data>>

LoadHead(t) ==
  /\ thread[t].pc = "pop"
  /\ thread' = [thread EXCEPT ![t].pc = "pop_check", ![t].pos = head]
  /\ UNCHANGED <<head, tail, turn, data>>

\* mutant: a claimed slot is taken for a written one
popVerdictEarly(seen, pos) ==
  IF seen = pos + 1 \/ (seen = pos /\ tail > pos) THEN "pop_claim" ELSE IF seen < pos + 1 THEN "empty" ELSE "pop"
popVerdict(seen, pos) ==
  IF seen = pos + 1 THEN "pop_claim" ELSE IF seen < pos + 1 THEN "empty" ELSE "pop"

CheckPopTurn(t) ==
  /\ thread[t].pc = "pop_check"
  /\ goto(t, popVerdict(turn[slot(thread[t].pos)], thread[t].pos))
  /\ UNCHANGED <<head, tail, turn, data>>

ClaimHead(t) ==
  /\ thread[t].pc = "pop_claim" /\ head = thread[t].pos
  /\ head' = head + 1
  /\ goto(t, "read")
  /\ UNCHANGED <<tail, turn, data>>

LoseHead(t) ==
  /\ thread[t].pc = "pop_claim"
  /\ goto(t, "pop")
  /\ UNCHANGED <<head, tail, turn, data>>

ReadData(t) ==
  /\ thread[t].pc = "read"
  /\ thread' = [thread EXCEPT ![t].pc = "release", ![t].value = data[slot(thread[t].pos)]]
  /\ UNCHANGED <<head, tail, turn, data>>

Release(t) ==
  /\ thread[t].pc = "release"
  /\ turn' = [turn EXCEPT ![slot(thread[t].pos)] = thread[t].pos + capacity]
  /\ goto(t, "popped")
  /\ UNCHANGED <<head, tail, data>>

-----------------------------------------------------------------------------

\* What a thread does inside a call, and the calls it begins.
Step(t) ==
  \/ LoadTail(t) \/ CheckPushTurn(t) \/ ClaimTail(t) \/ LoseTail(t) \/ WriteData(t) \/ Publish(t)
  \/ LoadHead(t) \/ CheckPopTurn(t) \/ ClaimHead(t) \/ LoseHead(t) \/ ReadData(t) \/ Release(t)
  \/ Return(t)

Next == \E t \in Thread : Step(t) \/ Pop(t) \/ \E v \in Value : Push(t, v)

Spec == Init /\ [][Next]_vars

\* A running thread takes its steps, and its compare-and-swaps do not fail for
\* ever on a position nobody takes; a thread not in Running may stop anywhere.
Fairness ==
  \A t \in Running : WF_vars(Step(t)) /\ SF_vars(ClaimTail(t)) /\ SF_vars(ClaimHead(t))

FairSpec == Spec /\ Fairness

-----------------------------------------------------------------------------
(* Properties. *)

\* Types; head never passes tail, nor tail a full ring.
TypeOK ==
  /\ head \in Nat /\ tail \in Nat
  /\ tail - head \in 0..capacity
  /\ turn \in [Slot -> Nat]
  /\ data \in [Slot -> Value \union {None}]
  /\ thread \in [Thread -> [pc : {"idle"} \union PushPc \union PopPc \union Result,
                           pos : Nat, value : Value \union {None}]]

\* The plain accesses to a slot's data never overlap, whoever makes them.
NoSlotRace ==
  \A t, u \in Thread :
    ( /\ t # u
      /\ thread[t].pc = "write" /\ thread[u].pc \in {"write", "read"})
      => slot(thread[t].pos) # slot(thread[u].pos)

\* The value at a claimed position: in the slot, or on its way there.
valueAt(pos) ==
  IF \E t \in Thread : thread[t].pc = "write" /\ thread[t].pos = pos
  THEN thread[CHOOSE t \in Thread : thread[t].pc = "write" /\ thread[t].pos = pos].value
  ELSE data[slot(pos)]

contents == [i \in 1..(tail - head) |-> valueAt(head + i - 1)]

\* A push has taken effect when its position is claimed, a pop likewise.
callOf(t) ==
  CASE thread[t].pc \in {"push", "push_check", "push_claim"} ->
         [phase |-> "push", value |-> thread[t].value]
    [] thread[t].pc \in {"write", "publish", "pushed"} -> [phase |-> "pushed", value |-> None]
    [] thread[t].pc \in {"pop", "pop_check", "pop_claim"} -> [phase |-> "pop", value |-> None]
    [] thread[t].pc = "read" -> [phase |-> "popped", value |-> data[slot(thread[t].pos)]]
    [] thread[t].pc \in {"release", "popped"} -> [phase |-> "popped", value |-> thread[t].value]
    [] OTHER -> [phase |-> thread[t].pc, value |-> None]

\* The ring is a FIFO buffer of capacity values.  A refusal does not prove it
\* full or empty: the slot in the way may belong to a call that is not done.
Fifo == INSTANCE BoundedFifo WITH
  Bound <- capacity, Precise <- FALSE,
  items <- contents, call <- [t \in Thread |-> callOf(t)]

ImplementsFifo == Fifo!Spec

\* Lock freedom: a call of a running thread returns even when the others stop
\* inside theirs, as only their progress can make it try again.
CallsReturn ==
  \A t \in Running : thread[t].pc # "idle" ~> thread[t].pc = "idle"
=============================================================================
