----------------------------- MODULE SpscQueue -----------------------------
(***************************************************************************)
(* The single-producer single-consumer ring of lockfree_queue              *)
(* (src/spsc/queue.zig) under its C interface (src/lockfree_core.zig),     *)
(* which copies each message into a buffer of its own: allocated by push,  *)
(* freed by a push that is refused, by pop and by destroy.                 *)
(*                                                                         *)
(* Each action holds one access to shared memory.  The producer alone      *)
(* stores tail and the consumer alone stores head, so a thread's load of   *)
(* its own counter is part of the action that begins its call.  The        *)
(* release stores and acquire loads order the plain accesses to the slots; *)
(* the slots are accessed in actions of their own, so that an overlap of   *)
(* the two threads in one slot is a state.                                 *)
(***************************************************************************)
EXTENDS Naturals

CONSTANTS
  Buffer,    \* buffers the allocator hands out
  None,      \* no buffer
  capacity,  \* slots of the ring
  Observer,  \* threads that ask for the length
  MaxPushes  \* bound: pushes that succeed

\* init() takes powers of two only, which makes the mask a remainder; nothing
\* else depends on it.
ASSUME SpscAssumption ==
  /\ capacity \in Nat \ {0}
  /\ None \notin Buffer
  /\ MaxPushes \in Nat

VARIABLES
  head, tail, buffer,  \* the ring; a slot never written holds None
  producer, consumer,  \* the calls in progress
  observer,            \* per observer: the loaded tail, then the answer
  allocated,           \* buffers in use
  destroyed            \* whether the queue was torn down

vars == <<head, tail, buffer, producer, consumer, observer, allocated, destroyed>>

slot(index) == index % capacity

\* The messages pushed and not popped, from the oldest.
contents == [i \in 1..(tail - head) |-> buffer[slot(head + i - 1)]]

Init ==
  /\ head = 0 /\ tail = 0
  /\ buffer = [i \in 0..(capacity - 1) |-> None]
  /\ producer = [pc |-> "idle", msg |-> None]
  /\ consumer = [pc |-> "idle", msg |-> None]
  /\ observer = [o \in Observer |-> [pc |-> "idle", value |-> 0]]
  /\ allocated = {}
  /\ destroyed = FALSE

-----------------------------------------------------------------------------
(* push(): a call that finds the ring full frees its buffer. *)

Push(msg) ==
  /\ ~destroyed /\ producer.pc = "idle"
  /\ msg \notin allocated
  /\ tail < MaxPushes
  /\ allocated' = allocated \union {msg}
  /\ producer' = [pc |-> "check", msg |-> msg]
  /\ UNCHANGED <<head, tail, buffer, consumer, observer, destroyed>>

hasRoom == tail + 1 - head < capacity

CheckFull ==
  /\ producer.pc = "check"
  /\ IF hasRoom
     THEN producer' = [producer EXCEPT !.pc = "write"] /\ UNCHANGED allocated
     ELSE /\ producer' = [pc |-> "full", msg |-> None]
          /\ allocated' = allocated \ {producer.msg}
  /\ UNCHANGED <<head, tail, buffer, consumer, observer, destroyed>>

WriteSlot ==
  /\ producer.pc = "write"
  /\ buffer' = [buffer EXCEPT ![slot(tail)] = producer.msg]
  /\ producer' = [producer EXCEPT !.pc = "publish"]
  /\ UNCHANGED <<head, tail, consumer, observer, allocated, destroyed>>

PublishTail ==
  /\ producer.pc = "publish"
  /\ tail' = tail + 1
  /\ producer' = [pc |-> "pushed", msg |-> None]
  /\ UNCHANGED <<head, buffer, consumer, observer, allocated, destroyed>>

PushReturns ==
  /\ producer.pc \in {"pushed", "full"}
  /\ producer' = [pc |-> "idle", msg |-> None]
  /\ UNCHANGED <<head, tail, buffer, consumer, observer, allocated, destroyed>>

-----------------------------------------------------------------------------
(* pop(): the message is copied out and its buffer freed on return. *)

Pop ==
  /\ ~destroyed /\ consumer.pc = "idle"
  /\ consumer' = [consumer EXCEPT !.pc = "check"]
  /\ UNCHANGED <<head, tail, buffer, producer, observer, allocated, destroyed>>

\* mutant: a message the producer is still writing is taken for published
hasMessageEarly == head # tail \/ producer.pc = "write"
hasMessage == head # tail

CheckEmpty ==
  /\ consumer.pc = "check"
  /\ consumer' = [consumer EXCEPT !.pc = IF hasMessage THEN "read" ELSE "empty"]
  /\ UNCHANGED <<head, tail, buffer, producer, observer, allocated, destroyed>>

ReadSlot ==
  /\ consumer.pc = "read"
  /\ consumer' = [pc |-> "retire", msg |-> buffer[slot(head)]]
  /\ UNCHANGED <<head, tail, buffer, producer, observer, allocated, destroyed>>

RetireHead ==
  /\ consumer.pc = "retire"
  /\ head' = head + 1
  /\ consumer' = [consumer EXCEPT !.pc = "popped"]
  /\ UNCHANGED <<tail, buffer, producer, observer, allocated, destroyed>>

PopReturns ==
  /\ consumer.pc \in {"popped", "empty"}
  /\ allocated' = allocated \ {consumer.msg}
  /\ consumer' = [pc |-> "idle", msg |-> None]
  /\ UNCHANGED <<head, tail, buffer, producer, observer, destroyed>>

-----------------------------------------------------------------------------
(* The queries, allowed to any thread, and destroy(). *)

\* len() and isFull() load tail, then head.
LoadTail(o) ==
  /\ ~destroyed /\ observer[o].pc \in {"idle", "answered"}
  /\ observer' = [observer EXCEPT ![o] = [pc |-> "loaded", value |-> tail]]
  /\ UNCHANGED <<head, tail, buffer, producer, consumer, allocated, destroyed>>

\* The difference is unsigned: below zero it traps, or wraps in a fast build.
LoadHead(o) ==
  /\ observer[o].pc = "loaded"
  /\ observer' = [observer EXCEPT ![o] =
       IF head <= @.value THEN [pc |-> "answered", value |-> @.value - head]
       ELSE [pc |-> "underflow", value |-> 0]]
  /\ UNCHANGED <<head, tail, buffer, producer, consumer, allocated, destroyed>>

\* destroy() is for a queue nobody uses any more; it pops and frees what is left.
\* mutant: the ring is freed with its messages
drainedNone == {}
drained == {contents[i] : i \in 1..(tail - head)}

Destroy ==
  /\ ~destroyed
  /\ producer.pc = "idle" /\ consumer.pc = "idle"
  /\ \A o \in Observer : observer[o].pc # "loaded"
  /\ destroyed' = TRUE
  /\ allocated' = allocated \ drained
  /\ head' = tail
  /\ UNCHANGED <<tail, buffer, producer, consumer, observer>>

-----------------------------------------------------------------------------

ProducerStep ==
  (\E msg \in Buffer : Push(msg)) \/ CheckFull \/ WriteSlot \/ PublishTail \/ PushReturns

ConsumerStep == Pop \/ CheckEmpty \/ ReadSlot \/ RetireHead \/ PopReturns

ObserverStep == \E o \in Observer : LoadTail(o) \/ LoadHead(o)

Next == ProducerStep \/ ConsumerStep \/ ObserverStep \/ Destroy

Spec == Init /\ [][Next]_vars

-----------------------------------------------------------------------------
(* Properties. *)

\* Types; the difference of the counters is a count of messages.
TypeOK ==
  /\ head \in Nat /\ tail \in Nat
  /\ tail - head \in 0..(capacity - 1)
  /\ buffer \in [0..(capacity - 1) -> Buffer \union {None}]
  /\ producer \in [pc : {"idle", "check", "write", "publish", "pushed", "full"},
                   msg : Buffer \union {None}]
  /\ consumer \in [pc : {"idle", "check", "read", "retire", "popped", "empty"},
                   msg : Buffer \union {None}]
  /\ observer \in [Observer -> [pc : {"idle", "loaded", "answered", "underflow"}, value : Nat]]
  /\ allocated \subseteq Buffer
  /\ destroyed \in BOOLEAN

\* The unguarded accesses never meet: while the producer may write a slot, the
\* consumer neither reads it nor may start to.
NoSlotRace ==
  (producer.pc = "write" /\ consumer.pc = "read") => slot(tail) # slot(head)

\* The message the consumer copies out is a buffer nobody has freed, and not
\* one the producer is filling: no use after free, no double free.
PoppedIsAllocated ==
  consumer.pc \in {"retire", "popped"} =>
    consumer.msg \in allocated /\ consumer.msg # producer.msg

\* Every buffer in use is in the ring or in a call; none is left at the end.
NoLeak ==
  /\ allocated \subseteq {producer.msg, consumer.msg} \union drained
  /\ destroyed => allocated = {}

\* The threads that share the queue, and the phase of each one's operation as
\* its caller sees it.
Caller == {"producer", "consumer"}
producerPhase ==
  IF producer.pc \in {"idle", "pushed", "full"} THEN producer.pc ELSE "push"
consumerPhase ==
  IF consumer.pc \in {"idle", "popped", "empty"} THEN consumer.pc ELSE "pop"

calls ==
  [t \in Caller |->
     IF t = "producer" THEN [phase |-> producerPhase, value |-> producer.msg]
     ELSE [phase |-> consumerPhase,
           value |-> IF consumer.pc = "popped" THEN consumer.msg ELSE None]]

\* The ring is a FIFO buffer of capacity - 1 messages until it is destroyed:
\* each call takes effect at its store, or is refused at its load, of a counter.
Fifo == INSTANCE BoundedFifo WITH
  Thread <- Caller, Value <- Buffer, Bound <- capacity - 1, Precise <- TRUE,
  items <- contents, call <- calls

FifoStep == [][destroyed' \/ Fifo!Next]_<<Fifo!vars, destroyed>>
ImplementsFifo == Fifo!Init /\ FifoStep

\* "Safe to call from any thread": the length asked for is a number, whatever is
\* popped between the two loads.
LengthAnswered == \A o \in Observer : observer[o].pc # "underflow"
=============================================================================
