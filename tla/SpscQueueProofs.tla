-------------------------- MODULE SpscQueueProofs --------------------------
(***************************************************************************)
(* The ring of SpscQueue is correct for every capacity, any buffers and    *)
(* any observers: its threads never meet in a slot, its messages are       *)
(* neither lost nor freed twice, and it implements BoundedFifo.            *)
(***************************************************************************)
EXTENDS SpscQueue, Integers, Sequences, SequenceTheorems, TLAPS

\* Numbers less than c apart have different remainders.
LEMMA RemaindersDiffer ==
  ASSUME NEW c \in Nat \ {0}, NEW i \in Nat, NEW j \in Nat, i < j, j - i < c
  PROVE  i % c # j % c
<1>1. PICK p \in Nat, a \in Int : a = c * p /\ i = a + (i % c)
  <2>1. /\ i \div c \in Nat /\ c * (i \div c) \in Int
        /\ i = c * (i \div c) + (i % c)
    OBVIOUS
  <2> QED BY <2>1, Zenon
<1>2. PICK q \in Nat, b \in Int : b = c * q /\ j = b + (j % c)
  <2>1. /\ j \div c \in Nat /\ c * (j \div c) \in Int
        /\ j = c * (j \div c) + (j % c)
    OBVIOUS
  <2> QED BY <2>1, Zenon
<1> SUFFICES ASSUME i % c = j % c PROVE FALSE
  OBVIOUS
<1>3. i % c \in Int
  OBVIOUS
<1>4. b - a = j - i
  BY <1>1, <1>2, <1>3
<1>5. b - a = c * (q - p)
  BY <1>1, <1>2
<1>6. CASE q <= p
  <2>1. c * (q - p) <= 0
    BY <1>1, <1>2, <1>6
  <2> QED BY <2>1, <1>4, <1>5
<1>7. CASE q > p
  <2>1. c * (q - p) >= c
    BY <1>1, <1>2, <1>7
  <2> QED BY <2>1, <1>4, <1>5, <1>1, <1>2
<1> QED BY <1>1, <1>2, <1>6, <1>7

\* Indices less than a capacity apart lie in different slots.
LEMMA SlotsDiffer ==
  ASSUME NEW i \in Nat, NEW j \in Nat, i < j, j - i < capacity
  PROVE  slot(i) # slot(j)
BY SpscAssumption, RemaindersDiffer DEF slot

LEMMA SlotInRing == \A i \in Nat : slot(i) \in 0..(capacity - 1)
BY SpscAssumption DEF slot

-----------------------------------------------------------------------------
(* The inductive invariant. *)

at(i) == buffer[slot(i)]
InRing == head..(tail - 1)

ProducerHolds == producer.pc \in {"check", "write", "publish"}
ConsumerHolds == consumer.pc \in {"retire", "popped"}

\* A thread between its check and its store has room, or a message, of its own.
PcInv ==
  /\ producer.pc \in {"write", "publish"} => hasRoom
  /\ consumer.pc \in {"read", "retire"} => hasMessage
  /\ producer.pc = "publish" => at(tail) = producer.msg
  /\ consumer.pc = "retire" => at(head) = consumer.msg
  /\ IF ProducerHolds THEN producer.msg \in allocated ELSE producer.msg = None
  /\ IF ConsumerHolds THEN consumer.msg \in allocated ELSE consumer.msg = None

\* Every buffer in use is held in exactly one place.
OwnerInv ==
  /\ \A i \in InRing : at(i) \in allocated /\ at(i) # producer.msg
  /\ \A i \in InRing : consumer.pc = "popped" => at(i) # consumer.msg
  /\ \A i, j \in InRing : at(i) = at(j) => i = j
  /\ ConsumerHolds => consumer.msg # producer.msg
  /\ \A b \in allocated : b \in {producer.msg, consumer.msg} \/ \E i \in InRing : b = at(i)

\* Nobody uses a destroyed queue.
DestroyedInv == destroyed => allocated = {} /\ producer.pc = "idle" /\ consumer.pc = "idle"

RingInv == TypeOK /\ PcInv /\ OwnerInv /\ DestroyedInv

LEMMA RingInit == Init => RingInv
<1> SUFFICES ASSUME Init PROVE RingInv
  OBVIOUS
<1>1. TypeOK
  <2>1. head \in Nat /\ tail \in Nat /\ tail - head \in 0..(capacity - 1)
    BY SpscAssumption DEF Init
  <2>2. buffer \in [0..(capacity - 1) -> Buffer \union {None}]
    BY DEF Init
  <2>3. observer \in [Observer -> [pc : {"idle", "loaded", "answered", "underflow"}, value : Nat]]
    BY DEF Init
  <2> QED BY <2>1, <2>2, <2>3 DEF Init, TypeOK
<1>2. PcInv
  BY DEF Init, PcInv, ProducerHolds, ConsumerHolds
<1>3. InRing = {}
  BY DEF Init, InRing
<1>4. OwnerInv
  BY <1>3 DEF Init, OwnerInv, ConsumerHolds
<1> QED BY <1>1, <1>2, <1>4 DEF RingInv, DestroyedInv, Init

\* While the producer owns the slot at tail, no message of the ring lies there.
LEMMA TailSlotFree ==
  ASSUME TypeOK, hasRoom
  PROVE  \A i \in InRing : slot(i) # slot(tail)
<1> TAKE i \in InRing
<1>1. i \in Nat /\ tail \in Nat /\ i < tail /\ tail - i < capacity
  BY SpscAssumption DEF TypeOK, hasRoom, InRing
<1> QED BY <1>1, SlotsDiffer

\* The actions that leave the ring and the observers' answers alone.
LEMMA RingStep == RingInv /\ [Next]_vars => RingInv'
<1> SUFFICES ASSUME RingInv, [Next]_vars PROVE RingInv'
  OBVIOUS
<1> USE DEF RingInv
<1>a. capacity \in Nat \ {0} /\ None \notin Buffer
  BY SpscAssumption
<1>1. ASSUME NEW msg \in Buffer, Push(msg) PROVE RingInv'
  <2> USE <1>1 DEF Push
  <2>1. TypeOK'
    BY DEF TypeOK
  <2>2. PcInv'
    BY DEF PcInv, TypeOK, hasRoom, hasMessage, at, slot, ProducerHolds, ConsumerHolds
  <2>3. OwnerInv'
    <3>1. \A i \in InRing : at(i) # msg
      BY DEF OwnerInv
    <3>2. consumer.msg # msg
      BY <1>a DEF PcInv
    <3>3. producer.msg = None /\ producer'.msg = msg /\ consumer' = consumer
      BY DEF PcInv, ProducerHolds, TypeOK
    <3>4. InRing' = InRing /\ \A i : at(i)' = at(i)
      BY DEF InRing, at, slot
    <3>5. allocated' = allocated \union {msg} /\ None \notin allocated
      BY <1>a DEF TypeOK
    <3> QED BY <3>1, <3>2, <3>3, <3>4, <3>5, Zenon DEF OwnerInv, ConsumerHolds, PcInv
  <2>4. DestroyedInv'
    BY DEF DestroyedInv
  <2> QED BY <2>1, <2>2, <2>3, <2>4
<1>2. CASE CheckFull
  <2> USE <1>2 DEF CheckFull
  <2>0. producer.msg \in allocated /\ producer.msg \in Buffer
    BY DEF PcInv, ProducerHolds, TypeOK
  <2>1. TypeOK'
    BY DEF TypeOK
  <2>2. PcInv'
    BY <2>0 DEF PcInv, OwnerInv, TypeOK, hasRoom, hasMessage, at, slot, ProducerHolds, ConsumerHolds
  <2>3. OwnerInv'
    <3>1. InRing' = InRing /\ \A i : at(i)' = at(i)
      BY DEF InRing, at, slot
    <3>2. \A i \in InRing : at(i) \in Buffer
      BY DEF OwnerInv, TypeOK
    <3>3. ConsumerHolds => consumer.msg \in Buffer
      BY DEF PcInv, TypeOK
    <3> QED BY <1>a, <2>0, <3>1, <3>2, <3>3 DEF OwnerInv, ConsumerHolds, TypeOK
  <2>4. DestroyedInv'
    BY DEF DestroyedInv
  <2> QED BY <2>1, <2>2, <2>3, <2>4
<1>3. CASE WriteSlot
  <2> USE <1>3 DEF WriteSlot
  <2>0. /\ slot(tail) \in 0..(capacity - 1)
        /\ \A i \in InRing : slot(i) # slot(tail) /\ slot(i) \in 0..(capacity - 1)
    BY TailSlotFree, SlotInRing DEF PcInv, TypeOK, InRing
  <2>1. TypeOK'
    BY <2>0 DEF TypeOK
  <2>2. InRing' = InRing /\ (\A i \in InRing : at(i)' = at(i)) /\ at(tail)' = producer.msg
    BY <2>0 DEF InRing, at, slot, TypeOK
  <2>3. consumer.pc \in {"read", "retire"} => head \in InRing
    BY DEF PcInv, TypeOK, InRing, hasMessage
  <2>4. PcInv'
    BY <2>2, <2>3 DEF PcInv, TypeOK, hasRoom, hasMessage, ProducerHolds, ConsumerHolds, at
  <2>5. OwnerInv'
    BY <2>2 DEF OwnerInv, ConsumerHolds, TypeOK
  <2>6. DestroyedInv'
    BY DEF DestroyedInv
  <2> QED BY <2>1, <2>4, <2>5, <2>6
<1>4. CASE PublishTail
  <2> USE <1>4 DEF PublishTail
  <2>0. /\ InRing' = InRing \union {tail} /\ tail \notin InRing /\ \A i : at(i)' = at(i)
        /\ at(tail) = producer.msg /\ producer.msg \in allocated /\ producer.msg # None
    <3>1. InRing' = InRing \union {tail} /\ tail \notin InRing
      BY <1>a DEF InRing, TypeOK
    <3>2. \A i : at(i)' = at(i)
      BY DEF at, slot
    <3>3. at(tail) = producer.msg /\ producer.msg \in allocated /\ producer.msg # None
      BY <1>a DEF TypeOK, PcInv, ProducerHolds
    <3> QED BY <3>1, <3>2, <3>3
  <2>1. TypeOK'
    BY <1>a DEF TypeOK, PcInv, hasRoom
  <2>2. PcInv'
    BY <2>0, <1>a DEF PcInv, TypeOK, hasRoom, hasMessage, ProducerHolds, ConsumerHolds, at, slot
  <2>3. OwnerInv'
    <3>1. producer'.msg = None /\ consumer' = consumer /\ allocated' = allocated
      OBVIOUS
    <3>2. None \notin allocated
      BY <1>a DEF TypeOK
    <3>3. /\ \A i \in InRing' : at(i)' \in allocated
          /\ \A i \in InRing' : consumer.pc = "popped" => at(i)' # consumer.msg
          /\ \A i, j \in InRing' : at(i)' = at(j)' => i = j
      BY <2>0 DEF OwnerInv, ConsumerHolds
    <3>4. ConsumerHolds => consumer.msg # None
      BY <3>2 DEF PcInv
    <3>5. \A b \in allocated : b \in {None, consumer.msg} \/ \E i \in InRing' : b = at(i)'
      BY <2>0 DEF OwnerInv
    <3> QED BY <3>1, <3>2, <3>3, <3>4, <3>5 DEF OwnerInv, ConsumerHolds
  <2>4. DestroyedInv'
    BY DEF DestroyedInv
  <2> QED BY <2>1, <2>2, <2>3, <2>4
<1>5. CASE PushReturns
  BY <1>5 DEF PushReturns, TypeOK, PcInv, OwnerInv, DestroyedInv, hasRoom, hasMessage, at, slot,
     InRing, ProducerHolds, ConsumerHolds
<1>6. CASE Pop
  BY <1>6 DEF Pop, TypeOK, PcInv, OwnerInv, DestroyedInv, hasRoom, hasMessage, at, slot,
     InRing, ProducerHolds, ConsumerHolds
<1>7. CASE CheckEmpty
  BY <1>7 DEF CheckEmpty, TypeOK, PcInv, OwnerInv, DestroyedInv, hasRoom, hasMessage, at, slot,
     InRing, ProducerHolds, ConsumerHolds
<1>8. CASE ReadSlot
  <2> USE <1>8 DEF ReadSlot
  <2>0. /\ InRing' = InRing /\ \A i : at(i)' = at(i)
        /\ head \in InRing /\ consumer'.msg = at(head) /\ at(head) \in allocated
        /\ at(head) # producer.msg
    BY DEF InRing, at, slot, PcInv, hasMessage, TypeOK, OwnerInv
  <2>1. TypeOK'
    BY <2>0 DEF TypeOK
  <2>2. PcInv'
    BY <2>0 DEF PcInv, TypeOK, hasRoom, hasMessage, ProducerHolds, ConsumerHolds, at, slot
  <2>3. OwnerInv'
    <3>1. consumer.msg = None /\ None \notin allocated
      BY <1>a DEF PcInv, ConsumerHolds, TypeOK
    <3> QED BY <2>0, <3>1 DEF OwnerInv, ConsumerHolds
  <2>4. DestroyedInv'
    BY DEF DestroyedInv
  <2> QED BY <2>1, <2>2, <2>3, <2>4
<1>9. CASE RetireHead
  <2> USE <1>9 DEF RetireHead
  <2>0. /\ InRing' = InRing \ {head} /\ head \in InRing /\ \A i : at(i)' = at(i)
        /\ at(head) = consumer.msg /\ consumer'.msg = consumer.msg /\ consumer.msg \in allocated
    BY DEF InRing, at, slot, TypeOK, PcInv, ConsumerHolds, hasMessage
  <2>1. TypeOK'
    BY <1>a, SMTT(15) DEF TypeOK, PcInv, hasMessage
  <2>2. PcInv'
    BY <2>0, <1>a DEF PcInv, TypeOK, hasRoom, hasMessage, ProducerHolds, ConsumerHolds, at, slot
  <2>3. OwnerInv'
    BY <2>0 DEF OwnerInv, ConsumerHolds
  <2>4. DestroyedInv'
    BY DEF DestroyedInv
  <2> QED BY <2>1, <2>2, <2>3, <2>4
<1>10. CASE PopReturns
  <2> USE <1>10 DEF PopReturns
  <2>0. InRing' = InRing /\ \A i : at(i)' = at(i)
    BY DEF InRing, at, slot
  <2>1. TypeOK'
    BY DEF TypeOK
  <2>2. ProducerHolds => producer.msg \in allocated \ {consumer.msg}
    BY <1>a DEF PcInv, OwnerInv, ConsumerHolds, TypeOK
  <2>3. PcInv'
    BY <2>0, <2>2 DEF PcInv, TypeOK, hasRoom, hasMessage, ProducerHolds, ConsumerHolds, at, slot
  <2>4. OwnerInv'
    <3>1. \A i \in InRing : at(i) # consumer.msg
      BY <1>a DEF PcInv, OwnerInv, ConsumerHolds, TypeOK
    <3> QED BY <2>0, <3>1 DEF OwnerInv, ConsumerHolds
  <2>5. DestroyedInv'
    BY DEF DestroyedInv
  <2> QED BY <2>1, <2>3, <2>4, <2>5
<1>11. ASSUME NEW o \in Observer, LoadTail(o) \/ LoadHead(o) PROVE RingInv'
  <2>1. UNCHANGED <<head, tail, buffer, producer, consumer, allocated, destroyed>>
    BY <1>11 DEF LoadTail, LoadHead
  <2>2. observer' \in [Observer -> [pc : {"idle", "loaded", "answered", "underflow"}, value : Nat]]
    BY <1>11 DEF LoadTail, LoadHead, TypeOK
  <2> QED BY <2>1, <2>2 DEF TypeOK, PcInv, OwnerInv, DestroyedInv, hasRoom, hasMessage, at, slot,
     InRing, ProducerHolds, ConsumerHolds
<1>12. CASE Destroy
  <2> USE <1>12 DEF Destroy
  <2>0. \A i \in InRing : at(i) \in drained
    <3> TAKE i \in InRing
    <3>1. i - head + 1 \in 1..(tail - head) /\ head + (i - head + 1) - 1 = i
      BY DEF InRing, TypeOK
    <3>2. contents[i - head + 1] = at(i)
      BY <3>1 DEF contents, at
    <3> QED BY <3>1, <3>2 DEF drained
  <2>1. producer.msg = None /\ consumer.msg = None /\ None \notin allocated
    BY <1>a DEF PcInv, ProducerHolds, ConsumerHolds, TypeOK
  <2>2. allocated' = {}
    BY <2>0, <2>1 DEF OwnerInv
  <2>3. InRing' = {}
    BY DEF InRing, TypeOK
  <2>4. TypeOK'
    BY <1>a, <2>2 DEF TypeOK
  <2>5. PcInv'
    BY <2>1, <2>2 DEF PcInv, ProducerHolds, ConsumerHolds
  <2>6. OwnerInv' /\ DestroyedInv'
    BY <2>1, <2>2, <2>3 DEF OwnerInv, DestroyedInv, ConsumerHolds
  <2> QED BY <2>4, <2>5, <2>6
<1>13. CASE UNCHANGED vars
  BY <1>13 DEF vars, TypeOK, PcInv, OwnerInv, DestroyedInv, hasRoom, hasMessage, at, slot,
     InRing, ProducerHolds, ConsumerHolds
<1> QED
  BY <1>1, <1>2, <1>3, <1>4, <1>5, <1>6, <1>7, <1>8, <1>9, <1>10, <1>11, <1>12, <1>13
  DEF Next, ProducerStep, ConsumerStep, ObserverStep

LEMMA RingInvariant == Spec => []RingInv
BY RingInit, RingStep, PTL DEF Spec

-----------------------------------------------------------------------------
(* What follows from it. *)

\* Types hold, and the counters never lie more than capacity - 1 apart.
THEOREM TypeCorrect == Spec => []TypeOK
<1>1. RingInv => TypeOK
  BY DEF RingInv
<1> QED BY <1>1, RingInvariant, PTL

\* The plain accesses to the slots never race, in a ring of any capacity.
THEOREM RaceFree == Spec => []NoSlotRace
<1>1. RingInv => NoSlotRace
  <2> SUFFICES ASSUME RingInv, producer.pc = "write", consumer.pc = "read"
               PROVE  slot(tail) # slot(head)
    BY DEF NoSlotRace
  <2>1. head \in InRing
    BY DEF RingInv, PcInv, TypeOK, InRing, hasMessage
  <2> QED BY <2>1, TailSlotFree DEF RingInv, PcInv
<1> QED BY <1>1, RingInvariant, PTL

\* A popped message is live and the consumer's own.
THEOREM NoUseAfterFree == Spec => []PoppedIsAllocated
<1>1. RingInv => PoppedIsAllocated
  BY DEF RingInv, PcInv, OwnerInv, PoppedIsAllocated, ConsumerHolds
<1> QED BY <1>1, RingInvariant, PTL

\* No buffer is lost, also by a push that is refused or by destroy.
THEOREM LeakFree == Spec => []NoLeak
<1>1. RingInv => NoLeak
  <2> SUFFICES ASSUME RingInv, NEW b \in allocated
               PROVE  b \in {producer.msg, consumer.msg} \union drained
    BY DEF RingInv, NoLeak, DestroyedInv
  <2>1. CASE b \in {producer.msg, consumer.msg}
    BY <2>1
  <2>2. CASE \E i \in InRing : b = at(i)
    <3>1. PICK i \in InRing : b = at(i)
      BY <2>2
    <3>2. i - head + 1 \in 1..(tail - head) /\ head + (i - head + 1) - 1 = i
      BY DEF InRing, TypeOK, RingInv
    <3>3. contents[i - head + 1] = at(i)
      BY <3>2 DEF contents, at
    <3> QED BY <3>1, <3>2, <3>3 DEF drained
  <2> QED BY <2>1, <2>2 DEF RingInv, OwnerInv
<1> QED BY <1>1, RingInvariant, PTL

-----------------------------------------------------------------------------
(* The ring implements the bounded FIFO buffer. *)

Message == Buffer \union {None}

\* The ring's contents as a sequence.
ContentsOK ==
  /\ contents \in Seq(Message)
  /\ Len(contents) = tail - head
  /\ \A i \in 1..(tail - head) : contents[i] = at(head + i - 1)

LEMMA ContentsSeq == TypeOK => ContentsOK
<1> SUFFICES ASSUME TypeOK PROVE ContentsOK
  OBVIOUS
<1>1. tail - head \in Nat /\ head \in Nat
  BY SpscAssumption DEF TypeOK
<1>2. \A i \in 1..(tail - head) : at(head + i - 1) \in Message
  <2> TAKE i \in 1..(tail - head)
  <2>1. head + i - 1 \in Nat
    BY <1>1
  <2> QED BY <2>1, SlotInRing DEF at, TypeOK, Message
<1>3. contents \in [1..(tail - head) -> Message]
  BY <1>2 DEF contents, at
<1>4. contents \in Seq(Message)
  BY <1>1, <1>3
<1>5. Len(contents) = tail - head
  BY <1>1, <1>3, <1>4, LenProperties
<1> QED BY <1>4, <1>5 DEF ContentsOK, contents, at

\* What a step of the ring means to the callers.
LEMMA FifoStepMatches ==
  RingInv /\ RingInv' /\ [Next]_vars => [destroyed' \/ Fifo!Next]_<<Fifo!vars, destroyed>>
<1> SUFFICES ASSUME RingInv, RingInv', [Next]_vars
             PROVE  destroyed' \/ Fifo!Next \/ UNCHANGED <<Fifo!vars, destroyed>>
  OBVIOUS
<1> DEFINE Stutters == UNCHANGED <<contents, calls, destroyed>>
<1>a. Stutters => UNCHANGED <<Fifo!vars, destroyed>>
  BY DEF Fifo!vars
<1>b. TypeOK /\ TypeOK' /\ PcInv /\ PcInv'
  BY DEF RingInv
<1>d. ContentsOK /\ ContentsOK'
  <2>1. (TypeOK => ContentsOK)'
    BY ContentsSeq, PTL
  <2> QED BY <1>b, <2>1, ContentsSeq
<1>c. \A t \in Caller :
        Fifo!Put(t) \/ Fifo!RefusePush(t) \/ Fifo!Get(t) \/ Fifo!RefusePop(t)
          \/ Fifo!Return(t) \/ Fifo!BeginPop(t) \/ (\E v \in Buffer : Fifo!BeginPush(t, v))
        => Fifo!Next
  BY DEF Fifo!Next
<1>p. "producer" \in Caller /\ "consumer" \in Caller
  BY DEF Caller
<1>q. /\ calls["producer"] = [phase |-> producerPhase, value |-> producer.msg]
      /\ calls["consumer"] =
           [phase |-> consumerPhase, value |-> IF consumer.pc = "popped" THEN consumer.msg ELSE None]
  BY DEF calls, Caller
<1>1. ASSUME NEW msg \in Buffer, Push(msg) PROVE Fifo!BeginPush("producer", msg)
  <2>1. contents' = contents
    BY <1>1 DEF Push, contents, slot
  <2>2. calls["producer"] = Fifo!Idle
    BY <1>1, <1>b, <1>q DEF Push, Fifo!Idle, PcInv, ProducerHolds, producerPhase
  <2>3. calls' = [calls EXCEPT !["producer"] = [phase |-> "push", value |-> msg]]
    BY <1>1 DEF Push, calls, Caller, producerPhase, consumerPhase
  <2> QED BY <2>1, <2>2, <2>3 DEF Fifo!BeginPush
<1>2. CASE CheckFull
  <2>1. contents' = contents
    BY <1>2 DEF CheckFull, contents, slot
  <2>2. CASE hasRoom
    <3>1. calls' = calls
      BY <1>2, <2>2, <1>b DEF CheckFull, calls, producerPhase, consumerPhase, TypeOK
    <3> QED BY <1>2, <2>1, <3>1, <1>a DEF CheckFull
  <2>3. CASE ~hasRoom
    <3>1. Len(contents) = capacity - 1
      BY <1>b, <1>d, <2>3, SpscAssumption DEF ContentsOK, TypeOK, hasRoom
    <3>2. calls["producer"].phase = "push"
      BY <1>2, <1>q DEF CheckFull, producerPhase
    <3>3. calls' = [calls EXCEPT !["producer"] = [phase |-> "full", value |-> None]]
      <4>1. producer' = [pc |-> "full", msg |-> None] /\ consumer' = consumer
        BY <1>2, <2>3 DEF CheckFull
      <4> QED BY <4>1 DEF calls, Caller, producerPhase, consumerPhase
    <3> QED BY <2>1, <3>1, <3>2, <3>3, <1>c, <1>p DEF Fifo!RefusePush
  <2> QED BY <2>2, <2>3
<1>3. CASE WriteSlot
  <2>1. \A i \in 1..(tail - head) : slot(head + i - 1) # slot(tail)
    <3> TAKE i \in 1..(tail - head)
    <3>1. head + i - 1 \in InRing
      BY <1>b DEF TypeOK, InRing
    <3> QED BY <1>3, <1>b, <3>1, TailSlotFree DEF WriteSlot, PcInv
  <2>2. contents' = contents
    BY <1>3, <2>1 DEF WriteSlot, contents, slot
  <2>3. calls' = calls
    BY <1>3, <1>b DEF WriteSlot, calls, producerPhase, consumerPhase, TypeOK
  <2> QED BY <1>3, <2>2, <2>3, <1>a DEF WriteSlot
<1>4. CASE PublishTail
  <2> DEFINE n == tail - head
  <2>1. n \in Nat /\ tail' - head' = n + 1 /\ head' = head /\ head + (n + 1) - 1 = tail
    BY <1>4, <1>b DEF PublishTail, TypeOK
  <2>3. at(tail) = producer.msg /\ producer.msg \in Message
    BY <1>4, <1>b DEF PublishTail, PcInv, TypeOK, Message
  <2>4. /\ contents \in Seq(Message) /\ Len(contents) = n
        /\ \A i \in 1..n : contents[i] = at(head + i - 1)
    BY <1>d DEF ContentsOK
  <2>5. /\ contents' \in Seq(Message) /\ Len(contents') = n + 1
        /\ \A i \in 1..(n + 1) : contents'[i] = at(head + i - 1)
    <3>1. /\ contents' \in Seq(Message) /\ Len(contents') = tail' - head'
          /\ \A i \in 1..(tail' - head') : contents'[i] = buffer'[slot(head' + i - 1)]
      BY <1>d DEF ContentsOK, at, slot
    <3> QED BY <1>4, <3>1, <2>1 DEF PublishTail, at
  <2> HIDE DEF n
  <2>6. contents' = Append(contents, producer.msg)
    <3> DEFINE a == Append(contents, producer.msg)
    <3>1. /\ a \in Seq(Message) /\ Len(a) = n + 1
          /\ \A i \in 1..n : a[i] = contents[i]
          /\ a[n + 1] = producer.msg
      BY <2>3, <2>4, AppendProperties
    <3>2. \A i \in 1..(n + 1) : a[i] = contents'[i]
      <4> HIDE DEF a
      <4> TAKE i \in 1..(n + 1)
      <4>1. CASE i = n + 1
        BY <4>1, <3>1, <2>1, <2>3, <2>5
      <4>2. CASE i \in 1..n
        BY <4>2, <3>1, <2>4, <2>5
      <4> QED BY <4>1, <4>2, <2>1
    <3> HIDE DEF a
    <3>3. a = contents'
      BY <3>1, <3>2, <2>5, SeqEqual
    <3> QED BY <3>3 DEF a
  <2>7. calls["producer"].phase = "push" /\ calls["producer"].value = producer.msg
    BY <1>4, <1>q DEF PublishTail, producerPhase
  <2>8. calls' = [calls EXCEPT !["producer"] = [phase |-> "pushed", value |-> None]]
    BY <1>4 DEF PublishTail, calls, Caller, producerPhase, consumerPhase
  <2>9. Len(contents) < capacity - 1
    BY <1>4, <1>b, <2>4, SpscAssumption DEF PublishTail, PcInv, hasRoom, n, TypeOK
  <2> QED BY <2>6, <2>7, <2>8, <2>9, <1>c, <1>p DEF Fifo!Put
<1>5. CASE PushReturns
  <2>1. contents' = contents
    BY <1>5 DEF PushReturns, contents, slot
  <2>2. calls' = [calls EXCEPT !["producer"] = Fifo!Idle]
    BY <1>5 DEF PushReturns, calls, Caller, producerPhase, consumerPhase, Fifo!Idle
  <2>3. calls["producer"].phase \in {"pushed", "full"}
    BY <1>5, <1>q DEF PushReturns, producerPhase
  <2> QED BY <2>1, <2>2, <2>3, <1>c, <1>p DEF Fifo!Return
<1>6. CASE Pop
  <2>1. contents' = contents
    BY <1>6 DEF Pop, contents, slot
  <2>2. calls["consumer"] = Fifo!Idle
    BY <1>6, <1>q DEF Pop, consumerPhase, Fifo!Idle
  <2>3. calls' = [calls EXCEPT !["consumer"] = [phase |-> "pop", value |-> None]]
    BY <1>6, <1>b DEF Pop, calls, Caller, producerPhase, consumerPhase, TypeOK
  <2> QED BY <2>1, <2>2, <2>3, <1>c, <1>p DEF Fifo!BeginPop
<1>7. CASE CheckEmpty
  <2>1. contents' = contents
    BY <1>7 DEF CheckEmpty, contents, slot
  <2>2. CASE hasMessage
    <3>1. calls' = calls
      BY <1>7, <2>2, <1>b DEF CheckEmpty, calls, producerPhase, consumerPhase, TypeOK
    <3> QED BY <1>7, <2>1, <3>1, <1>a DEF CheckEmpty
  <2>3. CASE ~hasMessage
    <3>1. contents = <<>>
      BY <2>3, <1>b, <1>d, EmptySeq DEF ContentsOK, hasMessage, TypeOK
    <3>2. calls["consumer"].phase = "pop"
      BY <1>7, <1>q DEF CheckEmpty, consumerPhase
    <3>3. calls' = [calls EXCEPT !["consumer"] = [phase |-> "empty", value |-> None]]
      BY <1>7, <2>3, <1>b DEF CheckEmpty, calls, Caller, producerPhase, consumerPhase, TypeOK
    <3> QED BY <2>1, <3>1, <3>2, <3>3, <1>c, <1>p DEF Fifo!RefusePop
  <2> QED BY <2>2, <2>3
<1>8. CASE ReadSlot
  <2>1. contents' = contents
    BY <1>8 DEF ReadSlot, contents, slot
  <2>2. calls' = calls
    BY <1>8, <1>b DEF ReadSlot, calls, producerPhase, consumerPhase, TypeOK
  <2> QED BY <1>8, <2>1, <2>2, <1>a DEF ReadSlot
<1>9. CASE RetireHead
  <2> DEFINE n == tail - head
  <2>1. n \in Nat \ {0} /\ tail' - head' = n - 1 /\ head' = head + 1 /\ head \in Nat
    BY <1>9, <1>b DEF RetireHead, TypeOK, PcInv, hasMessage
  <2>4. /\ contents \in Seq(Message) /\ Len(contents) = n
        /\ \A i \in 1..n : contents[i] = at(head + i - 1)
    BY <1>d DEF ContentsOK
  <2>5. /\ contents' \in Seq(Message) /\ Len(contents') = n - 1
        /\ \A i \in 1..(n - 1) : contents'[i] = at(head + i)
    <3>1. /\ contents' \in Seq(Message) /\ Len(contents') = tail' - head'
          /\ \A i \in 1..(tail' - head') : contents'[i] = buffer'[slot(head' + i - 1)]
      BY <1>d DEF ContentsOK, at, slot
    <3>2. \A i \in 1..(n - 1) : head' + i - 1 = head + i
      BY <2>1
    <3> QED BY <1>9, <3>1, <3>2, <2>1 DEF RetireHead, at
  <2> HIDE DEF n
  <2>6. contents # <<>> /\ Head(contents) = consumer.msg
    <3>1. at(head) = consumer.msg
      BY <1>9, <1>b DEF RetireHead, PcInv
    <3>2. contents # <<>> /\ contents[1] = at(head)
      BY <2>1, <2>4, EmptySeq
    <3> QED BY <3>1, <3>2
  <2>7. contents' = Tail(contents)
    <3>1. /\ Tail(contents) \in Seq(Message) /\ Len(Tail(contents)) = n - 1
          /\ \A i \in 1..(n - 1) : Tail(contents)[i] = contents[i + 1]
      BY <2>4, <2>6, HeadTailProperties
    <3>2. \A i \in 1..(n - 1) : contents[i + 1] = at(head + i)
      BY <2>1, <2>4
    <3> QED BY <3>1, <3>2, <2>5, SeqEqual
  <2>8. calls["consumer"].phase = "pop"
    BY <1>9, <1>q DEF RetireHead, consumerPhase
  <2>9. calls' = [calls EXCEPT !["consumer"] = [phase |-> "popped", value |-> Head(contents)]]
    BY <1>9, <2>6, <1>b DEF RetireHead, calls, Caller, producerPhase, consumerPhase, TypeOK
  <2> QED BY <2>6, <2>7, <2>8, <2>9, <1>c, <1>p DEF Fifo!Get
<1>10. CASE PopReturns
  <2>1. contents' = contents
    BY <1>10 DEF PopReturns, contents, slot
  <2>2. calls' = [calls EXCEPT !["consumer"] = Fifo!Idle]
    BY <1>10 DEF PopReturns, calls, Caller, producerPhase, consumerPhase, Fifo!Idle
  <2>3. calls["consumer"].phase \in {"popped", "empty"}
    BY <1>10, <1>q DEF PopReturns, consumerPhase
  <2> QED BY <2>1, <2>2, <2>3, <1>c, <1>p DEF Fifo!Return
<1>11. CASE ObserverStep
  <2>1. UNCHANGED <<head, tail, buffer, producer, consumer, destroyed>>
    BY <1>11 DEF ObserverStep, LoadTail, LoadHead
  <2> QED BY <2>1, <1>a DEF contents, calls, slot, producerPhase, consumerPhase
<1>12. CASE Destroy
  BY <1>12 DEF Destroy
<1>13. CASE UNCHANGED vars
  BY <1>13, <1>a DEF vars, contents, calls, slot, producerPhase, consumerPhase
<1> QED
  BY <1>1, <1>2, <1>3, <1>4, <1>5, <1>6, <1>7, <1>8, <1>9, <1>10, <1>11, <1>12, <1>13, <1>c, <1>p
  DEF Next, ProducerStep, ConsumerStep

\* Every operation of the ring takes effect at one instant of its call, as on a
\* buffer of capacity - 1 messages, for every capacity and any set of buffers.
THEOREM RingIsFifo == Spec => ImplementsFifo
<1>1. Init => Fifo!Init
  <2> SUFFICES ASSUME Init PROVE Fifo!Init
    OBVIOUS
  <2>1. TypeOK
    BY RingInit DEF RingInv
  <2>2. contents = <<>>
    BY <2>1, ContentsSeq, EmptySeq DEF ContentsOK, Init
  <2>3. calls = [t \in Caller |-> Fifo!Idle]
    BY DEF Init, calls, Fifo!Idle, producerPhase, consumerPhase
  <2> QED BY <2>2, <2>3 DEF Fifo!Init
<1>2. RingInv /\ RingInv' /\ [Next]_vars => [destroyed' \/ Fifo!Next]_<<Fifo!vars, destroyed>>
  BY FifoStepMatches
<1> QED BY <1>1, <1>2, RingInvariant, PTL DEF Spec, ImplementsFifo, FifoStep
=============================================================================
