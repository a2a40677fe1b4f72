-------------------------- MODULE MpmcQueueProofs --------------------------
(***************************************************************************)
(* The ring of MpmcQueue is correct for every capacity of at least two and *)
(* any threads and values: the plain accesses to a slot never race, and    *)
(* the ring implements BoundedFifo.                                        *)
(***************************************************************************)
EXTENDS MpmcQueue, Integers, SequenceTheorems, TLAPS

-----------------------------------------------------------------------------
(* Positions and slots. *)

\* Numbers less than c apart have different remainders.
LEMMA RemaindersDiffer ==
  ASSUME NEW c \in Nat \ {0}, NEW i \in Nat, NEW j \in Nat, i < j, j - i < c
  PROVE  i % c # j % c
<1>1. PICK p \in Nat, a \in Int : a = c * p /\ i = a + (i % c)
  <2>1. /\ i \div c \in Nat /\ c * (i \div c) \in Int
        /\ i = c * (i \div c) + (i % c)
    OBVIOUS
  <2> QED BY <2>1, Zenon
<1>2. PICK q \in Nat, b \in Int : b = c * q /\ j = b + (j % c)
  <2>1. /\ j \div c \in Nat /\ c * (j \div c) \in Int
        /\ j = c * (j \div c) + (j % c)
    OBVIOUS
  <2> QED BY <2>1, Zenon
<1> SUFFICES ASSUME i % c = j % c PROVE FALSE
  OBVIOUS
<1>3. i % c \in Int
  OBVIOUS
<1>4. b - a = j - i
  BY <1>1, <1>2, <1>3
<1>5. b - a = c * (q - p)
  BY <1>1, <1>2
<1>6. CASE q <= p
  <2>1. c * (q - p) <= 0
    BY <1>1, <1>2, <1>6
  <2> QED BY <2>1, <1>4, <1>5
<1>7. CASE q > p
  <2>1. c * (q - p) >= c
    BY <1>1, <1>2, <1>7
  <2> QED BY <2>1, <1>4, <1>5, <1>1, <1>2
<1> QED BY <1>1, <1>2, <1>6, <1>7

\* A ring further, the slot is the same.
LEMMA RemaindersRepeat ==
  ASSUME NEW c \in Nat \ {0}, NEW i \in Nat
  PROVE  (i + c) % c = i % c
<1>1. PICK p \in Nat, a \in Int : a = c * p /\ i = a + (i % c)
  <2>1. /\ i \div c \in Nat /\ c * (i \div c) \in Int
        /\ i = c * (i \div c) + (i % c)
    OBVIOUS
  <2> QED BY <2>1, Zenon
<1> DEFINE j == i + c
<1>2. j \in Nat
  OBVIOUS
<1> HIDE DEF j
<1>3. PICK q \in Nat, b \in Int : b = c * q /\ j = b + (j % c)
  <2>1. /\ j \div c \in Nat /\ c * (j \div c) \in Int
        /\ j = c * (j \div c) + (j % c)
    BY <1>2
  <2> QED BY <2>1, Zenon
<1>4. i % c \in 0..(c - 1) /\ j % c \in 0..(c - 1)
  BY <1>2
<1>5. b - a - c = (i % c) - (j % c)
  <2>1. i % c \in Int /\ j % c \in Int /\ c \in Int /\ a \in Int /\ b \in Int
    BY <1>1, <1>2, <1>3, <1>4
  <2>2. j = i + c
    BY DEF j
  <2>3. \A x, y \in Int : i = a + x /\ i + c = b + y => b - a - c = x - y
    BY <2>1
  <2> QED BY <1>1, <1>3, <2>1, <2>2, <2>3, Zenon
<1>6. b - a - c = c * (q - p - 1)
  BY <1>1, <1>3
<1>7. CASE q - p - 1 >= 1
  <2>1. c * (q - p - 1) >= c
    BY <1>1, <1>3, <1>7
  <2> QED BY <2>1, <1>1, <1>3, <1>4, <1>5, <1>6
<1>8. CASE q - p - 1 <= -1
  <2>1. c * (q - p - 1) <= -c
    BY <1>1, <1>3, <1>8
  <2> QED BY <2>1, <1>1, <1>3, <1>4, <1>5, <1>6
<1>9. CASE q - p - 1 = 0
  <2>1. c * (q - p - 1) = 0
    BY <1>9
  <2> QED BY <2>1, <1>4, <1>5, <1>6 DEF j
<1> QED BY <1>1, <1>3, <1>7, <1>8, <1>9

LEMMA SlotInRing == \A p \in Nat : slot(p) \in Slot
BY MpmcAssumption DEF slot, Slot

\* Positions less than a capacity apart lie in different slots.
LEMMA SlotsDiffer ==
  ASSUME NEW p \in Nat, NEW q \in Nat, p # q, p - q < capacity, q - p < capacity
  PROVE  slot(p) # slot(q)
<1>1. capacity \in Nat \ {0}
  BY MpmcAssumption
<1>2. CASE p < q
  BY <1>1, <1>2, RemaindersDiffer DEF slot
<1>3. CASE q < p
  BY <1>1, <1>3, RemaindersDiffer DEF slot
<1> QED BY <1>2, <1>3

LEMMA SlotsRepeat == \A p \in Nat : slot(p + capacity) = slot(p)
BY MpmcAssumption, RemaindersRepeat DEF slot

\* A turn is p before the push at p, and p + 1 after it: no turn is both of
\* positions in the same slot, since a ring has two slots at least.
LEMMA NeighboursDiffer == \A p, q \in Nat : slot(p) = slot(q) => p + 1 # q
<1> SUFFICES ASSUME NEW p \in Nat PROVE slot(p) # slot(p + 1)
  OBVIOUS
<1>1. capacity \in Nat /\ capacity > 1
  BY MpmcAssumption
<1> QED BY <1>1, SlotsDiffer

-----------------------------------------------------------------------------
(* The inductive invariant. *)

Call == [pc : {"idle"} \union PushPc \union PopPc \union Result, pos : Nat, value : Value \union {None}]

Writing(r) == r.pc \in {"write", "publish"}
Reading(r) == r.pc \in {"read", "release"}

\* The capacity positions from head on have a slot each.  A position claimed by
\* a push is being written or holds its message; the others are free, or are
\* still being read a ring before.
WindowInv ==
  /\ \A p \in head..(tail - 1) : turn[slot(p)] \in {p, p + 1}
  /\ \A p \in tail..(head + capacity - 1) : turn[slot(p)] \in {p, p + 1 - capacity}

\* What a call knows: the slot of the position it has claimed keeps its turn
\* until the call moves it on, and so does the slot it is about to claim, for as
\* long as nobody else has claimed it.
CallOK(r) ==
  /\ Writing(r) => r.pos \in head..(tail - 1) /\ turn[slot(r.pos)] = r.pos
  /\ Reading(r) => r.pos < head /\ tail <= r.pos + capacity /\ turn[slot(r.pos)] = r.pos + 1
  /\ r.pc \in {"push_check", "push_claim"} => r.pos <= tail
  /\ r.pc \in {"pop_check", "pop_claim"} => r.pos <= head
  /\ (r.pc = "push_claim" /\ r.pos = tail) => turn[slot(r.pos)] = r.pos
  /\ (r.pc = "pop_claim" /\ r.pos = head) => turn[slot(r.pos)] = r.pos + 1

CallsInv == \A t \in Thread : CallOK(thread[t])

\* No position is claimed twice.
Apart(r1, r2) ==
  /\ Writing(r1) /\ Writing(r2) => r1.pos # r2.pos
  /\ Reading(r1) /\ Reading(r2) => r1.pos # r2.pos

ApartInv == \A t, u \in Thread : t # u => Apart(thread[t], thread[u])

RingInv == TypeOK /\ WindowInv /\ CallsInv /\ ApartInv

LEMMA RingInit == Init => RingInv
<1> SUFFICES ASSUME Init PROVE RingInv
  OBVIOUS
<1>1. capacity \in Nat \ {0, 1} /\ \A p \in 0..(capacity - 1) : p \in Nat /\ slot(p) = p /\ p \in Slot
  BY MpmcAssumption DEF slot, Slot
<1>2. TypeOK
  BY <1>1 DEF Init, TypeOK, Slot, Idle
<1>3. WindowInv
  BY <1>1 DEF Init, WindowInv
<1>4. CallsInv /\ ApartInv
  BY DEF Init, CallsInv, CallOK, ApartInv, Apart, Writing, Reading, Idle
<1> QED BY <1>2, <1>3, <1>4 DEF RingInv

-----------------------------------------------------------------------------
(* The steps that claim no position and move no turn. *)

LEMMA QuietStep ==
  ASSUME RingInv, UNCHANGED <<head, tail, turn>>, data' \in [Slot -> Value \union {None}],
         NEW t \in Thread, NEW r \in Call, thread' = [thread EXCEPT ![t] = r], CallOK(r),
         Writing(r) => Writing(thread[t]) /\ r.pos = thread[t].pos,
         Reading(r) => Reading(thread[t]) /\ r.pos = thread[t].pos
  PROVE  RingInv'
<1> USE DEF RingInv
<1>1. thread \in [Thread -> Call]
  BY DEF TypeOK, Call
<1>2. thread' \in [Thread -> Call] /\ thread'[t] = r /\ \A u \in Thread \ {t} : thread'[u] = thread[u]
  BY <1>1
<1>3. TypeOK'
  BY <1>2 DEF TypeOK, Call
<1>4. WindowInv'
  BY DEF WindowInv
<1>5. CallsInv'
  BY <1>2 DEF CallsInv, CallOK
<1>6. ApartInv'
  <2> SUFFICES ASSUME NEW u \in Thread, NEW w \in Thread, u # w PROVE Apart(thread'[u], thread'[w])
    BY DEF ApartInv, Apart, Writing, Reading
  <2>1. Apart(thread[u], thread[w])
    BY DEF ApartInv
  <2> QED BY <1>2, <2>1 DEF Apart
<1> QED BY <1>3, <1>4, <1>5, <1>6

LEMMA QuietSteps ==
  ASSUME RingInv, NEW t \in Thread,
         \/ Pop(t) \/ (\E v \in Value : Push(t, v)) \/ LoadTail(t) \/ CheckPushTurn(t) \/ LoseTail(t)
         \/ WriteData(t) \/ LoadHead(t) \/ CheckPopTurn(t) \/ LoseHead(t) \/ ReadData(t) \/ Return(t)
  PROVE  RingInv'
<1> USE DEF RingInv
<1>1. thread[t] \in Call /\ CallOK(thread[t]) /\ head \in Nat /\ tail \in Nat
  BY DEF TypeOK, Call, CallsInv
<1>2. UNCHANGED <<head, tail, turn>>
  BY DEF Pop, Push, LoadTail, CheckPushTurn, LoseTail, WriteData, LoadHead, CheckPopTurn, LoseHead,
     ReadData, Return
<1>3. data' \in [Slot -> Value \union {None}]
  <2>1. data' = data \/ data' = [data EXCEPT ![slot(thread[t].pos)] = thread[t].value]
    BY DEF Pop, Push, LoadTail, CheckPushTurn, LoseTail, WriteData, LoadHead, CheckPopTurn, LoseHead,
       ReadData, Return
  <2>2. thread[t].value \in Value \union {None}
    BY <1>1 DEF Call
  <2> QED BY <2>1, <2>2 DEF TypeOK
<1> SUFFICES \E r \in Call : /\ thread' = [thread EXCEPT ![t] = r] /\ CallOK(r)
                             /\ Writing(r) => Writing(thread[t]) /\ r.pos = thread[t].pos
                             /\ Reading(r) => Reading(thread[t]) /\ r.pos = thread[t].pos
  BY <1>2, <1>3, QuietStep
<1>4. CASE Pop(t)
  <2> DEFINE r == [thread[t] EXCEPT !.pc = "pop"]
  <2>1. r \in Call /\ r.pc = "pop"
    BY <1>1 DEF Call, PopPc
  <2>2. thread' = [thread EXCEPT ![t] = r]
    BY <1>1, <1>4 DEF Pop, goto, TypeOK
  <2> HIDE DEF r
  <2> QED BY <2>1, <2>2 DEF CallOK, Writing, Reading
<1>5. CASE \E v \in Value : Push(t, v)
  <2>1. PICK v \in Value : Push(t, v)
    BY <1>5
  <2> DEFINE r == [pc |-> "push", pos |-> 0, value |-> v]
  <2>2. r \in Call /\ r.pc = "push"
    BY DEF Call, PushPc
  <2>3. thread' = [thread EXCEPT ![t] = r]
    BY <2>1 DEF Push
  <2> HIDE DEF r
  <2> QED BY <2>2, <2>3 DEF CallOK, Writing, Reading
<1>6. CASE LoadTail(t)
  <2> DEFINE r == [thread[t] EXCEPT !.pc = "push_check", !.pos = tail]
  <2>1. r \in Call /\ r.pc = "push_check" /\ r.pos = tail
    BY <1>1 DEF Call, PushPc
  <2>2. thread' = [thread EXCEPT ![t] = r]
    BY <1>1, <1>6 DEF LoadTail, TypeOK
  <2> HIDE DEF r
  <2>3. CallOK(r) /\ ~Writing(r) /\ ~Reading(r)
    BY <1>1, <2>1 DEF CallOK, Writing, Reading
  <2> QED BY <2>1, <2>2, <2>3
<1>7. CASE CheckPushTurn(t)
  <2> DEFINE pc == pushVerdict(turn[slot(thread[t].pos)], thread[t].pos)
             r == [thread[t] EXCEPT !.pc = pc]
  <2>1. pc \in {"push_claim", "full", "push"} /\ (pc = "push_claim" => turn[slot(thread[t].pos)] = thread[t].pos)
    BY DEF pushVerdict
  <2>2. thread' = [thread EXCEPT ![t] = r] /\ thread[t].pc = "push_check"
    BY <1>1, <1>7 DEF CheckPushTurn, goto, TypeOK
  <2> HIDE DEF pc
  <2>3. r \in Call /\ r.pc = pc /\ r.pos = thread[t].pos
    BY <1>1, <2>1 DEF Call, PushPc, Result
  <2> HIDE DEF r
  <2> QED BY <1>1, <2>1, <2>2, <2>3 DEF CallOK, Writing, Reading
<1>8. CASE LoseTail(t)
  <2> DEFINE r == [thread[t] EXCEPT !.pc = "push"]
  <2>1. r \in Call /\ r.pc = "push"
    BY <1>1 DEF Call, PushPc
  <2>2. thread' = [thread EXCEPT ![t] = r]
    BY <1>1, <1>8 DEF LoseTail, goto, TypeOK
  <2> HIDE DEF r
  <2> QED BY <2>1, <2>2 DEF CallOK, Writing, Reading
<1>9. CASE WriteData(t)
  <2> DEFINE r == [thread[t] EXCEPT !.pc = "publish"]
  <2>1. r \in Call /\ r.pc = "publish" /\ r.pos = thread[t].pos
    BY <1>1 DEF Call, PushPc
  <2>2. thread' = [thread EXCEPT ![t] = r] /\ thread[t].pc = "write"
    BY <1>1, <1>9 DEF WriteData, goto, TypeOK
  <2> HIDE DEF r
  <2> QED BY <1>1, <2>1, <2>2 DEF CallOK, Writing, Reading
<1>10. CASE LoadHead(t)
  <2> DEFINE r == [thread[t] EXCEPT !.pc = "pop_check", !.pos = head]
  <2>1. r \in Call /\ r.pc = "pop_check" /\ r.pos = head
    BY <1>1 DEF Call, PopPc
  <2>2. thread' = [thread EXCEPT ![t] = r]
    BY <1>1, <1>10 DEF LoadHead, TypeOK
  <2> HIDE DEF r
  <2>3. CallOK(r) /\ ~Writing(r) /\ ~Reading(r)
    BY <1>1, <2>1 DEF CallOK, Writing, Reading
  <2> QED BY <2>1, <2>2, <2>3
<1>11. CASE CheckPopTurn(t)
  <2> DEFINE pc == popVerdict(turn[slot(thread[t].pos)], thread[t].pos)
             r == [thread[t] EXCEPT !.pc = pc]
  <2>1. pc \in {"pop_claim", "empty", "pop"} /\ (pc = "pop_claim" => turn[slot(thread[t].pos)] = thread[t].pos + 1)
    BY DEF popVerdict
  <2>2. thread' = [thread EXCEPT ![t] = r] /\ thread[t].pc = "pop_check"
    BY <1>1, <1>11 DEF CheckPopTurn, goto, TypeOK
  <2> HIDE DEF pc
  <2>3. r \in Call /\ r.pc = pc /\ r.pos = thread[t].pos
    BY <1>1, <2>1 DEF Call, PopPc, Result
  <2> HIDE DEF r
  <2> QED BY <1>1, <2>1, <2>2, <2>3 DEF CallOK, Writing, Reading
<1>12. CASE LoseHead(t)
  <2> DEFINE r == [thread[t] EXCEPT !.pc = "pop"]
  <2>1. r \in Call /\ r.pc = "pop"
    BY <1>1 DEF Call, PopPc
  <2>2. thread' = [thread EXCEPT ![t] = r]
    BY <1>1, <1>12 DEF LoseHead, goto, TypeOK
  <2> HIDE DEF r
  <2> QED BY <2>1, <2>2 DEF CallOK, Writing, Reading
<1>13. CASE ReadData(t)
  <2> DEFINE r == [thread[t] EXCEPT !.pc = "release", !.value = data[slot(thread[t].pos)]]
  <2>1. data[slot(thread[t].pos)] \in Value \union {None}
    BY <1>1, SlotInRing DEF Call, TypeOK
  <2>2. r \in Call /\ r.pc = "release" /\ r.pos = thread[t].pos
    BY <1>1, <2>1 DEF Call, PopPc
  <2>3. thread' = [thread EXCEPT ![t] = r] /\ thread[t].pc = "read"
    BY <1>1, <1>13 DEF ReadData, TypeOK
  <2> HIDE DEF r
  <2> QED BY <1>1, <2>2, <2>3 DEF CallOK, Writing, Reading
<1>14. CASE Return(t)
  <2>1. Idle \in Call /\ CallOK(Idle) /\ ~Writing(Idle) /\ ~Reading(Idle)
    BY DEF Idle, Call, CallOK, Writing, Reading
  <2> QED BY <1>14, <2>1 DEF Return
<1> QED BY <1>4, <1>5, <1>6, <1>7, <1>8, <1>9, <1>10, <1>11, <1>12, <1>13, <1>14

-----------------------------------------------------------------------------
(* A position is claimed. *)

LEMMA ThreadMoves ==
  ASSUME RingInv, NEW t \in Thread, NEW r \in Call, thread' = [thread EXCEPT ![t] = r]
  PROVE  /\ thread' \in [Thread -> Call] /\ thread'[t] = r
         /\ \A u \in Thread \ {t} : thread'[u] = thread[u]
BY DEF RingInv, TypeOK, Call

\* A claim finds room in the ring: were it full, the slot would hold the turn
\* of the oldest position.
LEMMA ClaimFindsRoom == ASSUME RingInv, NEW t \in Thread, ClaimTail(t) PROVE tail < head + capacity
<1> USE DEF RingInv
<1>1. /\ head \in Nat /\ tail \in Nat /\ capacity \in Nat /\ capacity > 1
      /\ tail >= head /\ tail <= head + capacity
  BY MpmcAssumption DEF TypeOK
<1>2. turn[slot(tail)] = tail
  BY DEF ClaimTail, CallsInv, CallOK
<1> SUFFICES ASSUME tail = head + capacity PROVE FALSE
  BY <1>1
<1>3. slot(tail) = slot(head)
  BY <1>1, SlotsRepeat
<1>4. turn[slot(head)] \in {head, head + 1}
  BY <1>1 DEF WindowInv
<1> QED BY <1>1, <1>2, <1>3, <1>4

\* A claim finds a value: were the ring empty, the slot would hold the turn of a
\* free position.
LEMMA ClaimFindsValue == ASSUME RingInv, NEW t \in Thread, ClaimHead(t) PROVE head < tail
<1> USE DEF RingInv
<1>1. /\ head \in Nat /\ tail \in Nat /\ capacity \in Nat /\ capacity > 1
      /\ tail >= head /\ tail <= head + capacity
  BY MpmcAssumption DEF TypeOK
<1>2. turn[slot(head)] = head + 1
  BY DEF ClaimHead, CallsInv, CallOK
<1> SUFFICES ASSUME head = tail PROVE FALSE
  BY <1>1
<1>3. turn[slot(head)] \in {head, head + 1 - capacity}
  BY <1>1 DEF WindowInv
<1> QED BY <1>1, <1>2, <1>3

LEMMA ClaimTailKeeps == ASSUME RingInv, NEW t \in Thread, ClaimTail(t) PROVE RingInv'
<1> USE DEF RingInv
<1>1. /\ head \in Nat /\ tail \in Nat /\ capacity \in Nat /\ capacity > 1
      /\ tail >= head /\ tail <= head + capacity
  BY MpmcAssumption DEF TypeOK
<1>2. \A u \in Thread : thread[u] \in Call /\ CallOK(thread[u]) /\ thread[u].pos \in Nat
  BY DEF TypeOK, Call, CallsInv
<1>3. thread[t].pc = "push_claim" /\ thread[t].pos = tail /\ turn[slot(tail)] = tail
  BY <1>2 DEF ClaimTail, CallOK
<1>4. UNCHANGED <<head, turn, data>> /\ tail' = tail + 1
  BY DEF ClaimTail
<1>5. tail < head + capacity
  BY ClaimFindsRoom
<1> DEFINE r == [thread[t] EXCEPT !.pc = "write"]
<1>6. r \in Call /\ r.pc = "write" /\ r.pos = tail
  BY <1>2, <1>3 DEF Call, PushPc
<1>7. thread' = [thread EXCEPT ![t] = r]
  BY <1>2 DEF ClaimTail, goto, TypeOK
<1> HIDE DEF r
<1>8. /\ thread' \in [Thread -> Call] /\ thread'[t] = r
      /\ \A u \in Thread \ {t} : thread'[u] = thread[u]
  BY <1>6, <1>7, ThreadMoves
<1>9. TypeOK'
  BY <1>1, <1>4, <1>5, <1>8 DEF TypeOK, Call
<1>10. WindowInv'
  <2>1. ASSUME NEW p \in head..tail PROVE turn[slot(p)] \in {p, p + 1}
    <3>1. CASE p = tail
      BY <1>3, <3>1
    <3>2. CASE p # tail
      <4>1. p \in head..(tail - 1)
        BY <1>1, <3>2
      <4> QED BY <4>1 DEF WindowInv
    <3> QED BY <3>1, <3>2
  <2>2. ASSUME NEW p \in (tail + 1)..(head + capacity - 1) PROVE turn[slot(p)] \in {p, p + 1 - capacity}
    <3>1. p \in tail..(head + capacity - 1)
      BY <1>1
    <3> QED BY <3>1 DEF WindowInv
  <2>3. tail' - 1 = tail
    BY <1>1, <1>4
  <2> QED BY <1>4, <2>1, <2>2, <2>3 DEF WindowInv
<1>11. CallsInv'
  <2>1. ASSUME NEW u \in Thread \ {t}, Reading(thread[u]) PROVE tail + 1 <= thread[u].pos + capacity
    <3> DEFINE p == thread[u].pos
    <3>1. p \in Nat /\ tail <= p + capacity /\ turn[slot(p)] = p + 1
      BY <1>2, <2>1 DEF CallOK
    <3> HIDE DEF p
    <3>2. tail # p + capacity
      <4>1. slot(p + capacity) = slot(p)
        BY <3>1, SlotsRepeat
      <4> QED BY <1>1, <1>3, <3>1, <4>1
    <3>3. tail + 1 <= p + capacity
      BY <1>1, <3>1, <3>2
    <3> QED BY <3>3 DEF p
  <2>2. ASSUME NEW u \in Thread \ {t} PROVE CallOK(thread[u])'
    BY <1>1, <1>2, <1>4, <1>8, <2>1 DEF CallOK, Writing, Reading
  <2>3. CallOK(thread[t])'
    BY <1>1, <1>3, <1>4, <1>5, <1>6, <1>8 DEF CallOK, Writing, Reading
  <2>4. \A u \in Thread : CallOK(thread[u])'
    BY <2>2, <2>3
  <2> QED BY <2>4 DEF CallsInv
<1>12. ApartInv'
  <2>1. \A u \in Thread : Writing(thread[u]) => thread[u].pos # tail
    BY <1>1, <1>2 DEF CallOK
  <2>2. ~Reading(r)
    BY <1>6 DEF Reading
  <2> SUFFICES ASSUME NEW u \in Thread, NEW w \in Thread, u # w PROVE Apart(thread'[u], thread'[w])
    BY DEF ApartInv, Apart, Writing, Reading
  <2>3. Apart(thread[u], thread[w])
    BY DEF ApartInv
  <2> QED BY <1>6, <1>8, <2>1, <2>2, <2>3 DEF Apart
<1> QED BY <1>9, <1>10, <1>11, <1>12

LEMMA ClaimHeadKeeps == ASSUME RingInv, NEW t \in Thread, ClaimHead(t) PROVE RingInv'
<1> USE DEF RingInv
<1>1. /\ head \in Nat /\ tail \in Nat /\ capacity \in Nat /\ capacity > 1
      /\ tail >= head /\ tail <= head + capacity
  BY MpmcAssumption DEF TypeOK
<1>2. \A u \in Thread : thread[u] \in Call /\ CallOK(thread[u]) /\ thread[u].pos \in Nat
  BY DEF TypeOK, Call, CallsInv
<1>3. thread[t].pc = "pop_claim" /\ thread[t].pos = head /\ turn[slot(head)] = head + 1
  BY <1>2 DEF ClaimHead, CallOK
<1>4. UNCHANGED <<tail, turn, data>> /\ head' = head + 1
  BY DEF ClaimHead
<1>5. head < tail
  BY ClaimFindsValue
<1> DEFINE r == [thread[t] EXCEPT !.pc = "read"]
<1>6. r \in Call /\ r.pc = "read" /\ r.pos = head
  BY <1>2, <1>3 DEF Call, PopPc
<1>7. thread' = [thread EXCEPT ![t] = r]
  BY <1>2 DEF ClaimHead, goto, TypeOK
<1> HIDE DEF r
<1>8. /\ thread' \in [Thread -> Call] /\ thread'[t] = r
      /\ \A u \in Thread \ {t} : thread'[u] = thread[u]
  BY <1>6, <1>7, ThreadMoves
<1>9. TypeOK'
  BY <1>1, <1>4, <1>5, <1>8 DEF TypeOK, Call
<1>10. WindowInv'
  <2>1. ASSUME NEW p \in (head + 1)..(tail - 1) PROVE turn[slot(p)] \in {p, p + 1}
    <3>1. p \in head..(tail - 1)
      BY <1>1
    <3> QED BY <3>1 DEF WindowInv
  <2>2. ASSUME NEW p \in tail..(head + capacity) PROVE turn[slot(p)] \in {p, p + 1 - capacity}
    <3>1. CASE p = head + capacity
      <4>1. slot(p) = slot(head) /\ p + 1 - capacity = head + 1
        BY <1>1, <3>1, SlotsRepeat
      <4> QED BY <1>3, <4>1
    <3>2. CASE p # head + capacity
      <4>1. p \in tail..(head + capacity - 1)
        BY <1>1, <3>2
      <4> QED BY <4>1 DEF WindowInv
    <3> QED BY <3>1, <3>2
  <2>3. head' + capacity - 1 = head + capacity
    BY <1>1, <1>4
  <2> QED BY <1>4, <2>1, <2>2, <2>3 DEF WindowInv
<1>11. CallsInv'
  <2>1. ASSUME NEW u \in Thread, Writing(thread[u]) PROVE thread[u].pos \in (head + 1)..(tail - 1)
    <3> DEFINE p == thread[u].pos
    <3>1. p \in head..(tail - 1) /\ turn[slot(p)] = p
      BY <1>2, <2>1 DEF CallOK
    <3> HIDE DEF p
    <3>2. p # head
      BY <1>1, <1>3, <3>1
    <3>3. p \in (head + 1)..(tail - 1)
      BY <1>1, <3>1, <3>2
    <3> QED BY <3>3 DEF p
  <2>2. ASSUME NEW u \in Thread \ {t} PROVE CallOK(thread[u])'
    BY <1>1, <1>2, <1>4, <1>8, <2>1 DEF CallOK, Writing, Reading
  <2>3. CallOK(thread[t])'
    BY <1>1, <1>3, <1>4, <1>5, <1>6, <1>8 DEF CallOK, Writing, Reading
  <2>4. \A u \in Thread : CallOK(thread[u])'
    BY <2>2, <2>3
  <2> QED BY <2>4 DEF CallsInv
<1>12. ApartInv'
  <2>1. \A u \in Thread : Reading(thread[u]) => thread[u].pos # head
    BY <1>1, <1>2 DEF CallOK
  <2>2. ~Writing(r)
    BY <1>6 DEF Writing
  <2> SUFFICES ASSUME NEW u \in Thread, NEW w \in Thread, u # w PROVE Apart(thread'[u], thread'[w])
    BY DEF ApartInv, Apart, Writing, Reading
  <2>3. Apart(thread[u], thread[w])
    BY DEF ApartInv
  <2> QED BY <1>6, <1>8, <2>1, <2>2, <2>3 DEF Apart
<1> QED BY <1>9, <1>10, <1>11, <1>12

-----------------------------------------------------------------------------
(* A turn moves on. *)

LEMMA PublishKeeps == ASSUME RingInv, NEW t \in Thread, Publish(t) PROVE RingInv'
<1> USE DEF RingInv
<1> DEFINE p == thread[t].pos
           r == [thread[t] EXCEPT !.pc = "pushed", !.value = None]
<1>1. /\ head \in Nat /\ tail \in Nat /\ capacity \in Nat /\ capacity > 1
      /\ tail >= head /\ tail <= head + capacity
  BY MpmcAssumption DEF TypeOK
<1>2. \A u \in Thread : thread[u] \in Call /\ CallOK(thread[u]) /\ thread[u].pos \in Nat
  BY DEF TypeOK, Call, CallsInv
<1>3. p \in head..(tail - 1) /\ turn[slot(p)] = p /\ Writing(thread[t]) /\ p \in Nat
  BY <1>2 DEF Publish, CallOK, Writing
<1>4. UNCHANGED <<head, tail, data>> /\ turn' = [turn EXCEPT ![slot(p)] = p + 1]
  BY DEF Publish
<1>5. thread' = [thread EXCEPT ![t] = r]
  BY <1>2 DEF Publish, TypeOK
<1>6. r \in Call /\ r.pc = "pushed"
  BY <1>2 DEF Call, Result
<1> HIDE DEF r, p
<1>7. turn' \in [Slot -> Nat] /\ turn'[slot(p)] = p + 1
  BY <1>1, <1>3, <1>4, SlotInRing DEF TypeOK
<1>8. \A q \in Nat : slot(q) # slot(p) => turn'[slot(q)] = turn[slot(q)]
  BY <1>4, SlotInRing DEF TypeOK
<1>9. /\ thread' \in [Thread -> Call] /\ thread'[t] = r
      /\ \A u \in Thread \ {t} : thread'[u] = thread[u]
  BY <1>5, <1>6, ThreadMoves
<1>10. TypeOK'
  BY <1>4, <1>7, <1>9 DEF TypeOK, Call
<1>11. ASSUME NEW q \in head..(head + capacity - 1), q # p PROVE q \in Nat /\ slot(q) # slot(p)
  BY <1>1, <1>3, <1>11, SlotsDiffer
<1>12. WindowInv'
  <2>1. ASSUME NEW q \in head..(tail - 1) PROVE turn'[slot(q)] \in {q, q + 1}
    <3>1. CASE q = p
      BY <1>7, <3>1
    <3>2. CASE q # p
      <4>1. q \in head..(head + capacity - 1)
        BY <1>1
      <4>2. turn'[slot(q)] = turn[slot(q)]
        BY <1>8, <1>11, <3>2, <4>1
      <4> QED BY <4>2 DEF WindowInv
    <3> QED BY <3>1, <3>2
  <2>2. ASSUME NEW q \in tail..(head + capacity - 1) PROVE turn'[slot(q)] \in {q, q + 1 - capacity}
    <3>1. q \in head..(head + capacity - 1) /\ q # p
      BY <1>1, <1>3
    <3>2. turn'[slot(q)] = turn[slot(q)]
      BY <1>8, <1>11, <3>1
    <3> QED BY <3>2 DEF WindowInv
  <2> QED BY <1>4, <2>1, <2>2 DEF WindowInv
\* Whoever relies on a turn relies on that of another slot.
<1>13. ASSUME NEW u \in Thread \ {t},
              \/ Writing(thread[u]) \/ Reading(thread[u])
              \/ thread[u].pc = "push_claim" /\ thread[u].pos = tail
              \/ thread[u].pc = "pop_claim" /\ thread[u].pos = head
       PROVE  turn'[slot(thread[u].pos)] = turn[slot(thread[u].pos)]
  <2> DEFINE q == thread[u].pos
  <2>1. q \in Nat
    BY <1>2
  <2>2. CASE Writing(thread[u])
    <3>1. q # p
      BY <1>3, <2>2 DEF ApartInv, Apart, p
    <3>2. q \in head..(tail - 1)
      BY <1>2, <2>2 DEF CallOK
    <3> HIDE DEF q
    <3>3. q \in head..(head + capacity - 1)
      BY <1>1, <3>2
    <3>4. turn'[slot(q)] = turn[slot(q)]
      BY <1>8, <1>11, <3>1, <3>3
    <3> QED BY <3>4 DEF q
  <2>3. CASE Reading(thread[u])
    <3>1. turn[slot(q)] = q + 1
      BY <1>2, <2>3 DEF CallOK
    <3> QED BY <1>3, <1>8, <2>1, <3>1, NeighboursDiffer
  <2>4. CASE thread[u].pc = "push_claim" /\ thread[u].pos = tail
    <3>1. turn[slot(q)] = q /\ q # p
      BY <1>1, <1>2, <1>3, <2>4 DEF CallOK
    <3> QED BY <1>3, <1>8, <2>1, <3>1
  <2>5. CASE thread[u].pc = "pop_claim" /\ thread[u].pos = head
    <3>1. turn[slot(q)] = q + 1
      BY <1>2, <2>5 DEF CallOK
    <3> QED BY <1>3, <1>8, <2>1, <3>1, NeighboursDiffer
  <2> QED BY <1>13, <2>2, <2>3, <2>4, <2>5
<1>14. CallsInv'
  <2>1. ASSUME NEW u \in Thread \ {t} PROVE CallOK(thread[u])'
    <3>1. thread'[u] = thread[u] /\ CallOK(thread[u])
      BY <1>2, <1>9
    <3> QED BY <1>4, <1>13, <3>1 DEF CallOK, Writing, Reading
  <2>2. CallOK(thread[t])'
    BY <1>6, <1>9 DEF CallOK, Writing, Reading
  <2>3. \A u \in Thread : CallOK(thread[u])'
    BY <2>1, <2>2
  <2> QED BY <2>3 DEF CallsInv
<1>15. ApartInv'
  <2>1. ~Writing(r) /\ ~Reading(r)
    BY <1>6 DEF Writing, Reading
  <2> SUFFICES ASSUME NEW u \in Thread, NEW w \in Thread, u # w PROVE Apart(thread'[u], thread'[w])
    BY DEF ApartInv, Apart, Writing, Reading
  <2>2. Apart(thread[u], thread[w])
    BY DEF ApartInv
  <2> QED BY <1>9, <2>1, <2>2 DEF Apart
<1> QED BY <1>10, <1>12, <1>14, <1>15

LEMMA ReleaseKeeps == ASSUME RingInv, NEW t \in Thread, Release(t) PROVE RingInv'
<1> USE DEF RingInv
<1> DEFINE p == thread[t].pos
           r == [thread[t] EXCEPT !.pc = "popped"]
<1>1. /\ head \in Nat /\ tail \in Nat /\ capacity \in Nat /\ capacity > 1
      /\ tail >= head /\ tail <= head + capacity
  BY MpmcAssumption DEF TypeOK
<1>2. \A u \in Thread : thread[u] \in Call /\ CallOK(thread[u]) /\ thread[u].pos \in Nat
  BY DEF TypeOK, Call, CallsInv
<1>3. /\ p \in Nat /\ p < head /\ tail <= p + capacity
      /\ turn[slot(p)] = p + 1 /\ Reading(thread[t])
  BY <1>2 DEF Release, CallOK, Reading
<1>4. UNCHANGED <<head, tail, data>> /\ turn' = [turn EXCEPT ![slot(p)] = p + capacity]
  BY DEF Release
<1>5. thread' = [thread EXCEPT ![t] = r]
  BY <1>2 DEF Release, goto, TypeOK
<1>6. r \in Call /\ r.pc = "popped"
  BY <1>2 DEF Call, Result
<1> HIDE DEF r, p
<1>7. turn' \in [Slot -> Nat] /\ turn'[slot(p)] = p + capacity
  BY <1>1, <1>3, <1>4, SlotInRing DEF TypeOK
<1>8. \A q \in Nat : slot(q) # slot(p) => turn'[slot(q)] = turn[slot(q)]
  BY <1>4, SlotInRing DEF TypeOK
<1>9. /\ thread' \in [Thread -> Call] /\ thread'[t] = r
      /\ \A u \in Thread \ {t} : thread'[u] = thread[u]
  BY <1>5, <1>6, ThreadMoves
<1>10. TypeOK'
  BY <1>4, <1>7, <1>9 DEF TypeOK, Call
\* The slot is that of the position a ring further, which a push may now claim.
<1> DEFINE w == p + capacity
<1>w. w \in Nat /\ w \in tail..(head + capacity - 1) /\ slot(w) = slot(p) /\ w = p + capacity
  BY <1>1, <1>3, SlotsRepeat
<1> HIDE DEF w
<1>11. ASSUME NEW q \in head..(head + capacity - 1), q # w PROVE q \in Nat /\ slot(q) # slot(p)
  <2>1. q \in Nat /\ q - w < capacity /\ w - q < capacity
    BY <1>1, <1>w
  <2>2. slot(q) # slot(w)
    BY <1>w, <1>11, <2>1, SlotsDiffer
  <2> QED BY <1>w, <2>1, <2>2
<1>12. WindowInv'
  <2>1. ASSUME NEW q \in head..(tail - 1) PROVE turn'[slot(q)] \in {q, q + 1}
    <3>1. q \in head..(head + capacity - 1) /\ q # w
      BY <1>1, <1>w
    <3>2. turn'[slot(q)] = turn[slot(q)]
      BY <1>8, <1>11, <3>1
    <3> QED BY <3>2 DEF WindowInv
  <2>2. ASSUME NEW q \in tail..(head + capacity - 1) PROVE turn'[slot(q)] \in {q, q + 1 - capacity}
    <3>1. CASE q = w
      BY <1>7, <1>w, <3>1
    <3>2. CASE q # w
      <4>1. q \in head..(head + capacity - 1)
        BY <1>1
      <4>2. turn'[slot(q)] = turn[slot(q)]
        BY <1>8, <1>11, <3>2, <4>1
      <4> QED BY <4>2 DEF WindowInv
    <3> QED BY <3>1, <3>2
  <2> QED BY <1>4, <2>1, <2>2 DEF WindowInv
\* Whoever relies on a turn relies on that of another slot.
<1>13. ASSUME NEW u \in Thread \ {t},
              \/ Writing(thread[u]) \/ Reading(thread[u])
              \/ thread[u].pc = "push_claim" /\ thread[u].pos = tail
              \/ thread[u].pc = "pop_claim" /\ thread[u].pos = head
       PROVE  turn'[slot(thread[u].pos)] = turn[slot(thread[u].pos)]
  <2> DEFINE q == thread[u].pos
  <2>1. q \in Nat
    BY <1>2
  <2>2. CASE Writing(thread[u])
    <3>1. turn[slot(q)] = q
      BY <1>2, <2>2 DEF CallOK
    <3> QED BY <1>3, <1>8, <2>1, <3>1, NeighboursDiffer
  <2>3. CASE Reading(thread[u])
    <3>1. q # p
      BY <1>3, <2>3 DEF ApartInv, Apart, p
    <3>2. turn[slot(q)] = q + 1
      BY <1>2, <2>3 DEF CallOK
    <3> HIDE DEF q
    <3>3. slot(q) # slot(p)
      BY <1>3, <2>1, <3>1, <3>2
    <3>4. turn'[slot(q)] = turn[slot(q)]
      BY <1>8, <2>1, <3>3
    <3> QED BY <3>4 DEF q
  <2>4. CASE thread[u].pc = "push_claim" /\ thread[u].pos = tail
    <3>1. turn[slot(q)] = q
      BY <1>2, <2>4 DEF CallOK
    <3> QED BY <1>3, <1>8, <2>1, <3>1, NeighboursDiffer
  <2>5. CASE thread[u].pc = "pop_claim" /\ thread[u].pos = head
    <3>1. turn[slot(q)] = q + 1 /\ q # p
      BY <1>1, <1>2, <1>3, <2>5 DEF CallOK
    <3> QED BY <1>3, <1>8, <2>1, <3>1
  <2> QED BY <1>13, <2>2, <2>3, <2>4, <2>5
<1>14. CallsInv'
  <2>1. ASSUME NEW u \in Thread \ {t} PROVE CallOK(thread[u])'
    <3>1. thread'[u] = thread[u] /\ CallOK(thread[u])
      BY <1>2, <1>9
    <3> QED BY <1>4, <1>13, <3>1 DEF CallOK, Writing, Reading
  <2>2. CallOK(thread[t])'
    BY <1>6, <1>9 DEF CallOK, Writing, Reading
  <2>3. \A u \in Thread : CallOK(thread[u])'
    BY <2>1, <2>2
  <2> QED BY <2>3 DEF CallsInv
<1>15. ApartInv'
  <2>1. ~Writing(r) /\ ~Reading(r)
    BY <1>6 DEF Writing, Reading
  <2> SUFFICES ASSUME NEW u \in Thread, NEW x \in Thread, u # x PROVE Apart(thread'[u], thread'[x])
    BY DEF ApartInv, Apart, Writing, Reading
  <2>2. Apart(thread[u], thread[x])
    BY DEF ApartInv
  <2> QED BY <1>9, <2>1, <2>2 DEF Apart
<1> QED BY <1>10, <1>12, <1>14, <1>15

-----------------------------------------------------------------------------

LEMMA RingStep == RingInv /\ [Next]_vars => RingInv'
<1> SUFFICES ASSUME RingInv, [Next]_vars PROVE RingInv'
  OBVIOUS
<1>1. CASE UNCHANGED vars
  BY <1>1 DEF vars, RingInv, TypeOK, WindowInv, CallsInv, CallOK, ApartInv
<1>2. CASE \E t \in Thread : ClaimTail(t) \/ ClaimHead(t) \/ Publish(t) \/ Release(t)
  BY <1>2, ClaimTailKeeps, ClaimHeadKeeps, PublishKeeps, ReleaseKeeps
<1>3. CASE \E t \in Thread :
             \/ Pop(t) \/ (\E v \in Value : Push(t, v)) \/ LoadTail(t) \/ CheckPushTurn(t) \/ LoseTail(t)
             \/ WriteData(t) \/ LoadHead(t) \/ CheckPopTurn(t) \/ LoseHead(t) \/ ReadData(t) \/ Return(t)
  BY <1>3, QuietSteps
<1> QED BY <1>1, <1>2, <1>3 DEF Next, Step

LEMMA RingInvariant == Spec => []RingInv
BY RingInit, RingStep, PTL DEF Spec

\* Types hold; head never passes tail, nor tail a full ring.
THEOREM TypeCorrect == Spec => []TypeOK
<1>1. RingInv => TypeOK
  BY DEF RingInv
<1> QED BY <1>1, RingInvariant, PTL

\* Only the holder of a slot touches its data: no two threads ever write it, or
\* write and read it, at once, however many of them push and pop.
THEOREM SlotRaceFree == Spec => []NoSlotRace
<1>1. RingInv => NoSlotRace
  <2> SUFFICES ASSUME RingInv, NEW t \in Thread, NEW u \in Thread, t # u, thread[t].pc = "write",
                      thread[u].pc \in {"write", "read"}, slot(thread[t].pos) = slot(thread[u].pos)
               PROVE  FALSE
    BY DEF NoSlotRace
  <2> DEFINE p == thread[t].pos
             q == thread[u].pos
  <2>1. p \in Nat /\ q \in Nat /\ Writing(thread[t]) /\ turn[slot(p)] = p
    BY DEF RingInv, TypeOK, CallsInv, CallOK, Writing
  <2>2. CASE thread[u].pc = "write"
    <3>1. turn[slot(q)] = q /\ p # q
      BY <2>1, <2>2 DEF RingInv, CallsInv, CallOK, Writing, ApartInv, Apart
    <3> QED BY <2>1, <3>1
  <2>3. CASE thread[u].pc = "read"
    <3>1. turn[slot(q)] = q + 1
      BY <2>3 DEF RingInv, CallsInv, CallOK, Reading
    <3> QED BY <2>1, <3>1, NeighboursDiffer
  <2> QED BY <2>2, <2>3
<1> QED BY <1>1, RingInvariant, PTL

-----------------------------------------------------------------------------
(* The ring implements the abstract buffer. *)

Message == Value \union {None}
calls == [t \in Thread |-> callOf(t)]

\* The value at a position: that of the thread about to write it, else the slot's.
WritesAt(t, p) == thread[t].pc = "write" /\ thread[t].pos = p

ValuesOK ==
  /\ \A p \in Nat : valueAt(p) \in Message
  /\ \A t \in Thread : thread[t].pc = "write" => valueAt(thread[t].pos) = thread[t].value
  /\ \A p \in Nat : (\A t \in Thread : ~WritesAt(t, p)) => valueAt(p) = data[slot(p)]

\* The values from head to tail as a sequence.
ContentsOK ==
  /\ contents \in Seq(Message)
  /\ Len(contents) = tail - head
  /\ \A p \in head..(tail - 1) : contents[p - head + 1] = valueAt(p)

LEMMA ValuesHold == RingInv => ValuesOK
<1> SUFFICES ASSUME RingInv PROVE ValuesOK
  OBVIOUS
<1> USE DEF RingInv
<1>1. \A t \in Thread : thread[t].value \in Message
  BY DEF TypeOK, Message
<1>2. \A p \in Nat : data[slot(p)] \in Message
  BY SlotInRing DEF TypeOK, Message
<1>3. ASSUME NEW p \in Nat, NEW t \in Thread, WritesAt(t, p)
      PROVE  valueAt(p) = thread[t].value
  <2> DEFINE x == CHOOSE u \in Thread : thread[u].pc = "write" /\ thread[u].pos = p
  <2>1. x \in Thread /\ WritesAt(x, p)
    BY <1>3 DEF WritesAt
  <2>2. valueAt(p) = thread[x].value
    BY <1>3 DEF valueAt, WritesAt
  <2> HIDE DEF x
  <2>3. x = t
    BY <1>3, <2>1 DEF WritesAt, ApartInv, Apart, Writing
  <2> QED BY <2>2, <2>3
<1>4. ASSUME NEW p \in Nat, \A t \in Thread : ~WritesAt(t, p) PROVE valueAt(p) = data[slot(p)]
  BY <1>4 DEF valueAt, WritesAt
<1>5. \A p \in Nat : valueAt(p) \in Message
  BY <1>1, <1>2, <1>3, <1>4
<1>6. ASSUME NEW t \in Thread, thread[t].pc = "write" PROVE valueAt(thread[t].pos) = thread[t].value
  <2>1. thread[t].pos \in Nat
    BY DEF TypeOK
  <2> QED BY <1>3, <1>6, <2>1 DEF WritesAt
<1> QED BY <1>4, <1>5, <1>6 DEF ValuesOK

LEMMA ContentsHold == RingInv => ContentsOK
<1> SUFFICES ASSUME RingInv PROVE ContentsOK
  OBVIOUS
<1>1. tail - head \in Nat /\ head \in Nat /\ tail \in Nat
  BY MpmcAssumption DEF RingInv, TypeOK
<1>2. ASSUME NEW i \in 1..(tail - head) PROVE valueAt(head + i - 1) \in Message
  <2>1. head + i - 1 \in Nat
    BY <1>1
  <2> QED BY <2>1, ValuesHold DEF ValuesOK
<1>3. contents \in [1..(tail - head) -> Message]
  BY <1>2 DEF contents
<1>4. contents \in Seq(Message)
  BY <1>1, <1>3
<1>5. Len(contents) = tail - head
  BY <1>1, <1>3, <1>4, LenProperties
<1>6. ASSUME NEW p \in head..(tail - 1) PROVE contents[p - head + 1] = valueAt(p)
  <2>1. p - head + 1 \in 1..(tail - head) /\ head + (p - head + 1) - 1 = p
    BY <1>1
  <2> QED BY <2>1 DEF contents
<1> QED BY <1>4, <1>5, <1>6 DEF ContentsOK

\* What a step of t leaves at a position that t does not write.
LEMMA ValueKept ==
  ASSUME ValuesOK, ValuesOK', NEW t \in Thread, \A u \in Thread \ {t} : thread'[u] = thread[u],
         NEW p \in Nat, ~WritesAt(t, p), ~WritesAt(t, p)', data'[slot(p)] = data[slot(p)]
  PROVE  valueAt(p)' = valueAt(p)
<1>1. CASE \E u \in Thread : WritesAt(u, p)
  <2>1. PICK u \in Thread \ {t} : WritesAt(u, p)
    BY <1>1
  <2>2. valueAt(p) = thread[u].value
    BY <2>1 DEF ValuesOK, WritesAt
  <2>3. thread'[u].pc = "write" /\ thread'[u].pos = p /\ thread'[u].value = thread[u].value
    BY <2>1 DEF WritesAt
  <2>4. valueAt(p)' = thread'[u].value
    BY <2>3 DEF ValuesOK
  <2> QED BY <2>2, <2>3, <2>4
<1>2. CASE ~\E u \in Thread : WritesAt(u, p)
  <2>1. valueAt(p) = data[slot(p)]
    BY <1>2 DEF ValuesOK
  <2>2. \A u \in Thread : ~WritesAt(u, p)'
    BY <1>2 DEF WritesAt
  <2>3. valueAt(p)' = data'[slot(p)]
    BY <2>2 DEF ValuesOK
  <2> QED BY <2>1, <2>3
<1> QED BY <1>1, <1>2

LEMMA ContentsKept ==
  ASSUME ContentsOK, ContentsOK', head \in Nat, tail \in Nat, UNCHANGED <<head, tail>>,
         \A p \in head..(tail - 1) : valueAt(p)' = valueAt(p)
  PROVE  contents' = contents
<1>1. contents \in Seq(Message) /\ Len(contents) = tail - head
  BY DEF ContentsOK
<1>2. contents' \in Seq(Message) /\ Len(contents') = tail - head
  BY DEF ContentsOK
<1>3. ASSUME NEW i \in 1..(tail - head) PROVE contents[i] = contents'[i]
  <2>1. PICK p \in head..(tail - 1) : i = p - head + 1
    <3>1. head + i - 1 \in head..(tail - 1) /\ i = (head + i - 1) - head + 1
      OBVIOUS
    <3> QED BY <3>1
  <2>2. contents[i] = valueAt(p)
    BY <2>1 DEF ContentsOK
  <2>3. contents'[i] = valueAt(p)'
    BY <2>1 DEF ContentsOK
  <2> QED BY <2>2, <2>3
<1> QED BY <1>1, <1>2, <1>3, SeqEqual

LEMMA ContentsGrow ==
  ASSUME ContentsOK, ContentsOK', head \in Nat, tail \in Nat, tail - head \in Nat,
         head' = head, tail' = tail + 1, NEW v \in Message,
         \A p \in Nat : p = tail => valueAt(p)' = v,
         \A p \in head..(tail - 1) : valueAt(p)' = valueAt(p)
  PROVE  contents' = Append(contents, v)
<1> DEFINE n == tail - head
           a == Append(contents, v)
<1>1. n \in Nat /\ tail' - head' = n + 1
  OBVIOUS
<1>2. contents \in Seq(Message) /\ Len(contents) = n
  BY DEF ContentsOK
<1>3. contents' \in Seq(Message) /\ Len(contents') = n + 1
  BY <1>1 DEF ContentsOK
<1>4. ASSUME NEW i \in 1..n PROVE contents[i] = contents'[i]
  <2>1. PICK p \in head..(tail - 1) : i = p - head + 1
    <3>1. head + i - 1 \in head..(tail - 1) /\ i = (head + i - 1) - head + 1
      OBVIOUS
    <3> QED BY <3>1
  <2>2. contents[i] = valueAt(p)
    BY <2>1 DEF ContentsOK
  <2>3. p \in head'..(tail' - 1) /\ i = p - head' + 1
    BY <2>1
  <2>4. contents'[i] = valueAt(p)'
    BY <2>3 DEF ContentsOK
  <2> QED BY <2>2, <2>4
<1>5. contents'[n + 1] = v
  <2>1. PICK p \in Nat : p = tail
    OBVIOUS
  <2>2. p \in head'..(tail' - 1) /\ n + 1 = p - head' + 1
    BY <2>1
  <2>3. contents'[n + 1] = valueAt(p)'
    BY <2>2 DEF ContentsOK
  <2> QED BY <2>1, <2>3
<1> HIDE DEF n
<1>6. /\ a \in Seq(Message) /\ Len(a) = n + 1 /\ a[n + 1] = v
      /\ \A i \in 1..n : a[i] = contents[i]
  BY <1>2, AppendProperties
<1> HIDE DEF a
<1>7. ASSUME NEW i \in 1..(n + 1) PROVE a[i] = contents'[i]
  <2>1. CASE i = n + 1
    BY <1>5, <1>6, <2>1
  <2>2. CASE i \in 1..n
    BY <1>4, <1>6, <2>2
  <2> QED BY <1>1, <2>1, <2>2
<1>8. a = contents'
  BY <1>3, <1>6, <1>7, SeqEqual
<1> QED BY <1>8 DEF a

LEMMA ContentsShrink ==
  ASSUME ContentsOK, ContentsOK', head \in Nat, tail \in Nat, head < tail,
         head' = head + 1, tail' = tail, \A p \in (head + 1)..(tail - 1) : valueAt(p)' = valueAt(p)
  PROVE  contents # <<>> /\ Head(contents) = valueAt(head) /\ contents' = Tail(contents)
<1> DEFINE n == tail - head
<1>1. n \in Nat \ {0} /\ n - 1 \in Nat /\ tail' - head' = n - 1
  OBVIOUS
<1>2. contents \in Seq(Message) /\ Len(contents) = n
  BY DEF ContentsOK
<1>3. contents' \in Seq(Message) /\ Len(contents') = n - 1
  BY <1>1 DEF ContentsOK
<1>4. ASSUME NEW i \in 1..(n - 1) PROVE contents[i + 1] = contents'[i]
  <2>1. PICK p \in (head + 1)..(tail - 1) : p = head + i
    BY <1>1
  <2>2. p \in head..(tail - 1) /\ i + 1 = p - head + 1 /\ p \in head'..(tail' - 1) /\ i = p - head' + 1
    BY <2>1
  <2>3. contents[i + 1] = valueAt(p)
    BY <2>2 DEF ContentsOK
  <2>4. contents'[i] = valueAt(p)'
    BY <2>2 DEF ContentsOK
  <2> QED BY <2>3, <2>4
<1>5. contents[1] = valueAt(head)
  <2>1. head \in head..(tail - 1) /\ head - head + 1 = 1
    OBVIOUS
  <2> QED BY <2>1 DEF ContentsOK
<1> HIDE DEF n
<1>6. contents # <<>>
  BY <1>1, <1>2, EmptySeq
<1>7. /\ Tail(contents) \in Seq(Message) /\ Len(Tail(contents)) = n - 1
      /\ \A i \in 1..(n - 1) : Tail(contents)[i] = contents[i + 1]
  BY <1>2, <1>6, HeadTailProperties
<1>8. contents' = Tail(contents)
  BY <1>3, <1>4, <1>7, SeqEqual
<1> QED BY <1>5, <1>6, <1>8

\* What a step of t leaves of the other calls.
LEMMA CallsMove ==
  ASSUME NEW t \in Thread, \A u \in Thread \ {t} : thread'[u] = thread[u],
         \A u \in Thread \ {t} :
           thread[u].pc = "read" => data'[slot(thread[u].pos)] = data[slot(thread[u].pos)]
  PROVE  calls' = [calls EXCEPT ![t] = callOf(t)']
<1>1. ASSUME NEW u \in Thread \ {t} PROVE callOf(u)' = callOf(u)
  <2>1. thread'[u] = thread[u]
    OBVIOUS
  <2>2. CASE thread[u].pc = "read"
    <3>1. data'[slot(thread[u].pos)] = data[slot(thread[u].pos)]
      BY <2>2
    <3> QED BY <2>1, <2>2, <3>1 DEF callOf
  <2>3. CASE thread[u].pc # "read"
    BY <2>1, <2>3 DEF callOf
  <2> QED BY <2>2, <2>3
<1>2. calls' = [u \in Thread |-> callOf(u)']
  BY DEF calls
<1> QED BY <1>1, <1>2 DEF calls

LEMMA RingStepMatches ==
  RingInv /\ RingInv' /\ [Next]_vars => [Fifo!Next]_<<contents, calls>>
<1> SUFFICES ASSUME RingInv, RingInv', [Next]_vars
             PROVE  Fifo!Next \/ UNCHANGED <<contents, calls>>
  OBVIOUS
<1>a. /\ ValuesOK /\ ContentsOK /\ ValuesOK' /\ ContentsOK'
  <2>1. (RingInv => ValuesOK)' /\ (RingInv => ContentsOK)'
    BY ValuesHold, ContentsHold, PTL
  <2> QED BY <2>1, ValuesHold, ContentsHold
<1>b. /\ head \in Nat /\ tail \in Nat /\ tail - head \in Nat /\ capacity \in Nat
      /\ tail <= head + capacity
  BY MpmcAssumption DEF RingInv, TypeOK
<1>c. \A u \in Thread : thread[u] \in Call /\ CallOK(thread[u]) /\ thread[u].pos \in Nat
  BY DEF RingInv, TypeOK, Call, CallsInv
<1>d. \A u \in Thread : calls[u] = callOf(u)
  BY DEF calls
<1>e. Fifo!Idle = [phase |-> "idle", value |-> None]
  BY DEF Fifo!Idle
\* Steps that neither move a position nor write a slot keep the contents.
<1>f. ASSUME NEW t \in Thread, NEW r \in Call, UNCHANGED <<head, tail, data>>,
             thread' = [thread EXCEPT ![t] = r], thread[t].pc # "write", r.pc # "write"
      PROVE  contents' = contents /\ calls' = [calls EXCEPT ![t] = callOf(t)']
  <2>1. thread'[t] = r /\ \A u \in Thread \ {t} : thread'[u] = thread[u]
    BY <1>f, ThreadMoves
  <2>2. ASSUME NEW p \in head..(tail - 1) PROVE valueAt(p)' = valueAt(p)
    <3>1. p \in Nat /\ ~WritesAt(t, p) /\ ~WritesAt(t, p)'
      BY <1>b, <1>f, <2>1 DEF WritesAt
    <3> QED BY <1>a, <1>f, <2>1, <3>1, ValueKept
  <2>3. contents' = contents
    BY <1>a, <1>b, <1>f, <2>2, ContentsKept
  <2> QED BY <1>f, <2>1, <2>3, CallsMove
<1>1. ASSUME NEW t \in Thread, Pop(t) PROVE Fifo!Next
  <2> DEFINE r == [thread[t] EXCEPT !.pc = "pop"]
  <2>1. r \in Call /\ r.pc = "pop"
    BY <1>c DEF Call, PopPc
  <2>2. thread' = [thread EXCEPT ![t] = r] /\ UNCHANGED <<head, tail, data>> /\ thread[t].pc = "idle"
    BY <1>c, <1>1 DEF Pop, goto, RingInv, TypeOK
  <2> HIDE DEF r
  <2>3. contents' = contents /\ calls' = [calls EXCEPT ![t] = callOf(t)']
    BY <1>f, <2>1, <2>2
  <2>4. thread'[t] = r
    BY <2>1, <2>2, ThreadMoves
  <2>5. calls[t] = Fifo!Idle
    BY <1>d, <1>e, <2>2 DEF callOf
  <2>6. callOf(t)' = [phase |-> "pop", value |-> None]
    BY <2>1, <2>4 DEF callOf
  <2>7. Fifo!BeginPop(t)
    BY <2>3, <2>5, <2>6 DEF Fifo!BeginPop, calls
  <2> QED BY <2>7 DEF Fifo!Next
<1>2. ASSUME NEW t \in Thread, NEW v \in Value, Push(t, v) PROVE Fifo!Next
  <2> DEFINE r == [pc |-> "push", pos |-> 0, value |-> v]
  <2>1. r \in Call /\ r.pc = "push" /\ r.value = v
    BY DEF Call, PushPc
  <2>2. thread' = [thread EXCEPT ![t] = r] /\ UNCHANGED <<head, tail, data>> /\ thread[t].pc = "idle"
    BY <1>2 DEF Push
  <2> HIDE DEF r
  <2>3. contents' = contents /\ calls' = [calls EXCEPT ![t] = callOf(t)']
    BY <1>f, <2>1, <2>2
  <2>4. thread'[t] = r
    BY <2>1, <2>2, ThreadMoves
  <2>5. calls[t] = Fifo!Idle
    BY <1>d, <1>e, <2>2 DEF callOf
  <2>6. callOf(t)' = [phase |-> "push", value |-> v]
    BY <2>1, <2>4 DEF callOf
  <2>7. Fifo!BeginPush(t, v)
    BY <2>3, <2>5, <2>6 DEF Fifo!BeginPush, calls
  <2> QED BY <2>7 DEF Fifo!Next
\* The turn in the way of a claim refuses the call, or sends it back.
<1>3. ASSUME NEW t \in Thread, CheckPushTurn(t) PROVE Fifo!Next \/ UNCHANGED <<contents, calls>>
  <2> DEFINE pc == pushVerdict(turn[slot(thread[t].pos)], thread[t].pos)
             r == [thread[t] EXCEPT !.pc = pc]
  <2>1. pc \in {"push_claim", "full", "push"}
    BY DEF pushVerdict
  <2>2. /\ thread' = [thread EXCEPT ![t] = r] /\ UNCHANGED <<head, tail, data>>
        /\ thread[t].pc = "push_check"
    BY <1>c, <1>3 DEF CheckPushTurn, goto, RingInv, TypeOK
  <2> HIDE DEF pc
  <2>3. r \in Call /\ r.pc = pc /\ r.value = thread[t].value
    BY <1>c, <2>1 DEF Call, PushPc, Result
  <2> HIDE DEF r
  <2>4. contents' = contents /\ calls' = [calls EXCEPT ![t] = callOf(t)']
    BY <1>f, <2>1, <2>2, <2>3
  <2>5. thread'[t] = r
    BY <2>2, <2>3, ThreadMoves
  <2>6. callOf(t) = [phase |-> "push", value |-> thread[t].value]
    BY <2>2 DEF callOf
  <2>7. CASE pc = "full"
    <3>1. callOf(t)' = [phase |-> "full", value |-> None]
      BY <2>3, <2>5, <2>7 DEF callOf
    <3>2. calls[t].phase = "push"
      BY <1>d, <2>6
    <3>3. Fifo!RefusePush(t)
      BY <2>4, <3>1, <3>2 DEF Fifo!RefusePush, calls
    <3> QED BY <3>3 DEF Fifo!Next
  <2>8. CASE pc # "full"
    <3>1. callOf(t)' = callOf(t)
      BY <2>1, <2>3, <2>5, <2>6, <2>8 DEF callOf
    <3> QED BY <2>4, <3>1 DEF calls
  <2> QED BY <2>7, <2>8
<1>4. ASSUME NEW t \in Thread, CheckPopTurn(t) PROVE Fifo!Next \/ UNCHANGED <<contents, calls>>
  <2> DEFINE pc == popVerdict(turn[slot(thread[t].pos)], thread[t].pos)
             r == [thread[t] EXCEPT !.pc = pc]
  <2>1. pc \in {"pop_claim", "empty", "pop"}
    BY DEF popVerdict
  <2>2. /\ thread' = [thread EXCEPT ![t] = r] /\ UNCHANGED <<head, tail, data>>
        /\ thread[t].pc = "pop_check"
    BY <1>c, <1>4 DEF CheckPopTurn, goto, RingInv, TypeOK
  <2> HIDE DEF pc
  <2>3. r \in Call /\ r.pc = pc
    BY <1>c, <2>1 DEF Call, PopPc, Result
  <2> HIDE DEF r
  <2>4. contents' = contents /\ calls' = [calls EXCEPT ![t] = callOf(t)']
    BY <1>f, <2>1, <2>2, <2>3
  <2>5. thread'[t] = r
    BY <2>2, <2>3, ThreadMoves
  <2>6. callOf(t) = [phase |-> "pop", value |-> None]
    BY <2>2 DEF callOf
  <2>7. CASE pc = "empty"
    <3>1. callOf(t)' = [phase |-> "empty", value |-> None]
      BY <2>3, <2>5, <2>7 DEF callOf
    <3>2. calls[t].phase = "pop"
      BY <1>d, <2>6
    <3>3. Fifo!RefusePop(t)
      BY <2>4, <3>1, <3>2 DEF Fifo!RefusePop, calls
    <3> QED BY <3>3 DEF Fifo!Next
  <2>8. CASE pc # "empty"
    <3>1. callOf(t)' = callOf(t)
      BY <2>1, <2>3, <2>5, <2>6, <2>8 DEF callOf
    <3> QED BY <2>4, <3>1 DEF calls
  <2> QED BY <2>7, <2>8
\* Steps the callers do not see.
<1>5. ASSUME NEW t \in Thread, LoadTail(t) \/ LoseTail(t) \/ LoadHead(t) \/ LoseHead(t)
      PROVE  UNCHANGED <<contents, calls>>
  <2>1. /\ UNCHANGED <<head, tail, data>> /\ thread' \in [Thread -> Call]
        /\ \A u \in Thread \ {t} : thread'[u] = thread[u]
        /\ thread' = [thread EXCEPT ![t] = thread'[t]]
        /\ thread'[t].value = thread[t].value
        /\ \/ thread[t].pc \in {"push", "push_claim"} /\ thread'[t].pc \in {"push", "push_check"}
           \/ thread[t].pc \in {"pop", "pop_claim"} /\ thread'[t].pc \in {"pop", "pop_check"}
    <3>1. thread' \in [Thread -> Call]
      BY DEF RingInv, TypeOK, Call
    <3>2. CASE LoadTail(t)
      BY <1>b, <1>c, <3>1, <3>2 DEF LoadTail, RingInv, TypeOK, Call
    <3>3. CASE LoseTail(t)
      BY <1>b, <1>c, <3>1, <3>3 DEF LoseTail, goto, RingInv, TypeOK, Call
    <3>4. CASE LoadHead(t)
      BY <1>b, <1>c, <3>1, <3>4 DEF LoadHead, RingInv, TypeOK, Call
    <3>5. CASE LoseHead(t)
      BY <1>b, <1>c, <3>1, <3>5 DEF LoseHead, goto, RingInv, TypeOK, Call
    <3> QED BY <1>5, <3>2, <3>3, <3>4, <3>5
  <2>2. PICK r \in Call : r = thread'[t]
    BY <2>1
  <2>3. thread[t].pc # "write" /\ r.pc # "write" /\ thread' = [thread EXCEPT ![t] = r]
    BY <2>1, <2>2
  <2>4. contents' = contents /\ calls' = [calls EXCEPT ![t] = callOf(t)']
    BY <1>f, <2>1, <2>3
  <2>5. callOf(t)' = callOf(t)
    BY <2>1 DEF callOf
  <2> QED BY <2>4, <2>5 DEF calls
<1>6. ASSUME NEW t \in Thread, Publish(t) \/ ReadData(t) \/ Release(t)
      PROVE  UNCHANGED <<contents, calls>>
  <2>1. /\ UNCHANGED <<head, tail, data>> /\ thread' \in [Thread -> Call]
        /\ thread' = [thread EXCEPT ![t] = thread'[t]]
        /\ \/ thread[t].pc = "publish" /\ thread'[t].pc = "pushed"
           \/ /\ thread[t].pc = "read" /\ thread'[t].pc = "release"
              /\ thread'[t].value = data[slot(thread[t].pos)]
           \/ /\ thread[t].pc = "release" /\ thread'[t].pc = "popped"
              /\ thread'[t].value = thread[t].value
    <3>1. thread' \in [Thread -> Call]
      BY DEF RingInv, TypeOK, Call
    <3>2. CASE Publish(t)
      BY <1>c, <3>1, <3>2 DEF Publish, RingInv, TypeOK, Call
    <3>3. CASE ReadData(t)
      BY <1>c, <3>1, <3>3 DEF ReadData, RingInv, TypeOK, Call
    <3>4. CASE Release(t)
      BY <1>c, <3>1, <3>4 DEF Release, goto, RingInv, TypeOK, Call
    <3> QED BY <1>6, <3>2, <3>3, <3>4
  <2>2. PICK r \in Call : r = thread'[t]
    BY <2>1
  <2>3. thread[t].pc # "write" /\ r.pc # "write" /\ thread' = [thread EXCEPT ![t] = r]
    BY <2>1, <2>2
  <2>4. contents' = contents /\ calls' = [calls EXCEPT ![t] = callOf(t)']
    BY <1>f, <2>1, <2>3
  <2>5. callOf(t)' = callOf(t)
    BY <2>1 DEF callOf
  <2> QED BY <2>4, <2>5 DEF calls
<1>7. ASSUME NEW t \in Thread, Return(t) PROVE Fifo!Next
  <2>1. PICK r \in Call : r = Idle
    BY DEF Idle, Call
  <2>2. thread' = [thread EXCEPT ![t] = r] /\ UNCHANGED <<head, tail, data>> /\ thread[t].pc \in Result
    BY <1>7, <2>1 DEF Return
  <2>3. contents' = contents /\ calls' = [calls EXCEPT ![t] = callOf(t)']
    BY <1>f, <2>1, <2>2 DEF Idle, Result
  <2>4. thread'[t] = Idle
    BY <2>1, <2>2, ThreadMoves
  <2>5. calls[t].phase \in {"pushed", "full", "popped", "empty"}
    <3>1. \E v \in {"pushed", "full", "popped", "empty"} : callOf(t).phase = v
      BY <2>2 DEF callOf, Result
    <3> QED BY <1>d, <3>1
  <2>6. callOf(t)' = Fifo!Idle
    BY <1>e, <2>4 DEF callOf, Idle
  <2>7. Fifo!Return(t)
    BY <2>3, <2>5, <2>6 DEF Fifo!Return, calls
  <2> QED BY <2>7 DEF Fifo!Next
\* The value reaches its slot, where nobody reads.
<1>8. ASSUME NEW t \in Thread, WriteData(t) PROVE UNCHANGED <<contents, calls>>
  <2> DEFINE w == thread[t].pos
             r == [thread[t] EXCEPT !.pc = "publish"]
  <2>1. r \in Call /\ r.pc = "publish"
    BY <1>c DEF Call, PushPc
  <2>2. /\ thread' = [thread EXCEPT ![t] = r] /\ UNCHANGED <<head, tail>> /\ thread[t].pc = "write"
        /\ data' = [data EXCEPT ![slot(w)] = thread[t].value]
    BY <1>c, <1>8 DEF WriteData, goto, RingInv, TypeOK
  <2>3. w \in Nat /\ w \in head..(tail - 1) /\ turn[slot(w)] = w /\ valueAt(w) = thread[t].value
    BY <1>a, <1>c, <2>2 DEF CallOK, Writing, ValuesOK
  <2>4. \A u \in Thread \ {t} : Apart(thread[t], thread[u])
    BY DEF RingInv, ApartInv
  <2> HIDE DEF r
  <2>5. thread'[t] = r /\ \A u \in Thread \ {t} : thread'[u] = thread[u]
    BY <2>1, <2>2, ThreadMoves
  <2>6. \A u \in Thread : ~(thread'[u].pc = "write" /\ thread'[u].pos = w)
    BY <2>1, <2>2, <2>4, <2>5 DEF Apart, Writing
  <2> HIDE DEF w
  <2>7. data'[slot(w)] = thread[t].value
    BY <2>2, <2>3, SlotInRing DEF RingInv, TypeOK
  <2>8. \A s \in Slot : s # slot(w) => data'[s] = data[s]
    BY <2>2 DEF RingInv, TypeOK
  <2>9. ASSUME NEW p \in head..(tail - 1) PROVE valueAt(p)' = valueAt(p)
    <3>1. p \in Nat
      BY <1>b
    <3>2. CASE p = w
      <4>1. \A u \in Thread : ~WritesAt(u, p)'
        BY <2>6, <3>2 DEF WritesAt
      <4>2. valueAt(p)' = data'[slot(p)]
        BY <1>a, <3>1, <4>1 DEF ValuesOK
      <4> QED BY <2>3, <2>7, <3>2, <4>2
    <3>3. CASE p # w
      <4>1. slot(p) # slot(w)
        BY <1>b, <2>3, <3>1, <3>3, SlotsDiffer
      <4>2. data'[slot(p)] = data[slot(p)]
        BY <2>8, <3>1, <4>1, SlotInRing
      <4>3. ~WritesAt(t, p) /\ ~WritesAt(t, p)'
        BY <2>1, <2>5, <3>3 DEF WritesAt, w
      <4> QED BY <1>a, <2>5, <3>1, <4>2, <4>3, ValueKept
    <3> QED BY <3>2, <3>3
  <2>10. contents' = contents
    BY <1>a, <1>b, <2>2, <2>9, ContentsKept
  <2>11. ASSUME NEW u \in Thread \ {t}, thread[u].pc = "read"
         PROVE  data'[slot(thread[u].pos)] = data[slot(thread[u].pos)]
    <3>1. turn[slot(thread[u].pos)] = thread[u].pos + 1 /\ thread[u].pos \in Nat
      BY <1>c, <2>11 DEF CallOK, Reading
    <3>2. slot(thread[u].pos) # slot(w)
      BY <2>3, <3>1, NeighboursDiffer
    <3> QED BY <2>8, <3>1, <3>2, SlotInRing
  <2>12. calls' = [calls EXCEPT ![t] = callOf(t)']
    BY <2>5, <2>11, CallsMove
  <2>13. callOf(t)' = callOf(t)
    BY <2>1, <2>2, <2>5 DEF callOf
  <2> QED BY <2>10, <2>12, <2>13 DEF calls
\* A push takes effect when its position is claimed.
<1>9. ASSUME NEW t \in Thread, ClaimTail(t) PROVE Fifo!Next
  <2> DEFINE r == [thread[t] EXCEPT !.pc = "write"]
  <2>1. /\ thread[t].pc = "push_claim" /\ tail = thread[t].pos /\ tail' = tail + 1
        /\ UNCHANGED <<head, data>> /\ thread' = [thread EXCEPT ![t] = r]
    BY <1>c, <1>9 DEF ClaimTail, goto, RingInv, TypeOK
  <2>2. r \in Call /\ r.pc = "write" /\ r.pos = tail /\ r.value = thread[t].value /\ r.value \in Message
    BY <1>c, <2>1 DEF Call, PushPc, Message
  <2> HIDE DEF r
  <2>3. thread'[t] = r /\ \A u \in Thread \ {t} : thread'[u] = thread[u]
    BY <2>1, <2>2, ThreadMoves
  <2>4. ASSUME NEW p \in head..(tail - 1) PROVE valueAt(p)' = valueAt(p)
    <3>1. p \in Nat /\ p # tail
      BY <1>b
    <3>2. ~WritesAt(t, p) /\ ~WritesAt(t, p)'
      BY <2>1, <2>2, <2>3, <3>1 DEF WritesAt
    <3> QED BY <1>a, <2>1, <2>3, <3>1, <3>2, ValueKept
  <2>5. ASSUME NEW p \in Nat, p = tail PROVE valueAt(p)' = r.value
    <3>1. thread'[t].pc = "write" /\ thread'[t].pos = p /\ thread'[t].value = r.value
      BY <2>2, <2>3, <2>5
    <3> QED BY <1>a, <3>1 DEF ValuesOK
  <2>6. PICK v \in Message : v = r.value
    BY <2>2
  <2>7. contents' = Append(contents, v)
    <3>1. \A p \in Nat : p = tail => valueAt(p)' = v
      BY <2>5, <2>6
    <3> QED BY <1>a, <1>b, <2>1, <2>4, <3>1, ContentsGrow
  <2>8. calls' = [calls EXCEPT ![t] = callOf(t)']
    BY <2>1, <2>3, CallsMove
  <2>9. calls[t] = [phase |-> "push", value |-> v]
    BY <1>d, <2>1, <2>2, <2>6 DEF callOf
  <2>10. callOf(t)' = [phase |-> "pushed", value |-> None]
    BY <2>2, <2>3 DEF callOf
  <2>11. Len(contents) < capacity
    <3>1. tail < head + capacity
      BY <1>9, ClaimFindsRoom
    <3>2. Len(contents) = tail - head
      BY <1>a DEF ContentsOK
    <3> QED BY <1>b, <3>1, <3>2
  <2>12. Fifo!Put(t)
    BY <2>7, <2>8, <2>9, <2>10, <2>11 DEF Fifo!Put, calls
  <2> QED BY <2>12 DEF Fifo!Next
<1>10. ASSUME NEW t \in Thread, ClaimHead(t) PROVE Fifo!Next
  <2> DEFINE r == [thread[t] EXCEPT !.pc = "read"]
  <2>1. /\ thread[t].pc = "pop_claim" /\ head = thread[t].pos /\ head' = head + 1
        /\ UNCHANGED <<tail, data>> /\ thread' = [thread EXCEPT ![t] = r]
    BY <1>c, <1>10 DEF ClaimHead, goto, RingInv, TypeOK
  <2>2. r \in Call /\ r.pc = "read" /\ r.pos = head
    BY <1>c, <2>1 DEF Call, PopPc
  <2> HIDE DEF r
  <2>3. thread'[t] = r /\ \A u \in Thread \ {t} : thread'[u] = thread[u]
    BY <2>1, <2>2, ThreadMoves
  <2>4. ASSUME NEW p \in (head + 1)..(tail - 1) PROVE valueAt(p)' = valueAt(p)
    <3>1. p \in Nat
      BY <1>b
    <3>2. ~WritesAt(t, p) /\ ~WritesAt(t, p)'
      BY <2>1, <2>2, <2>3 DEF WritesAt
    <3> QED BY <1>a, <2>1, <2>3, <3>1, <3>2, ValueKept
  <2>5. head < tail
    BY <1>10, ClaimFindsValue
  <2>6. contents # <<>> /\ Head(contents) = valueAt(head) /\ contents' = Tail(contents)
    BY <1>a, <1>b, <2>1, <2>4, <2>5, ContentsShrink
  \* Its push is done: the slot has the turn it leaves.
  <2>7. valueAt(head) = data[slot(head)]
    <3>1. turn[slot(head)] = head + 1
      BY <1>c, <2>1 DEF CallOK
    <3>2. ASSUME NEW u \in Thread PROVE ~WritesAt(u, head)
      <4>1. thread[u].pc = "write" => turn[slot(thread[u].pos)] = thread[u].pos
        BY <1>c DEF CallOK, Writing
      <4> QED BY <1>b, <3>1, <4>1 DEF WritesAt
    <3> QED BY <1>a, <1>b, <3>2 DEF ValuesOK
  <2>8. calls' = [calls EXCEPT ![t] = callOf(t)']
    BY <2>1, <2>3, CallsMove
  <2>9. calls[t].phase = "pop"
    <3>1. callOf(t) = [phase |-> "pop", value |-> None]
      BY <2>1 DEF callOf
    <3> QED BY <1>d, <3>1
  <2>10. callOf(t)' = [phase |-> "popped", value |-> Head(contents)]
    BY <2>1, <2>2, <2>3, <2>6, <2>7 DEF callOf
  <2>11. Fifo!Get(t)
    BY <2>6, <2>8, <2>9, <2>10 DEF Fifo!Get, calls
  <2> QED BY <2>11 DEF Fifo!Next
<1>11. CASE UNCHANGED vars
  BY <1>11 DEF vars, contents, valueAt, calls, callOf
<1>12. CASE Next
  <2>1. PICK t \in Thread : Step(t) \/ Pop(t) \/ \E v \in Value : Push(t, v)
    BY <1>12 DEF Next
  <2> QED BY <2>1, <1>1, <1>2, <1>3, <1>4, <1>5, <1>6, <1>7, <1>8, <1>9, <1>10 DEF Step
<1> QED BY <1>11, <1>12

\* The ring is a FIFO buffer of its capacity, for any threads that push and pop
\* at once: each claim of a position is the instant at which its call takes
\* effect, though the value gets into the slot, and out of it, later.
THEOREM RingIsFifo == Spec => ImplementsFifo
<1>1. Init => Fifo!Init
  <2> SUFFICES ASSUME Init PROVE Fifo!Init
    OBVIOUS
  <2>1. ContentsOK /\ tail - head = 0
    BY RingInit, ContentsHold DEF Init
  <2>2. contents = <<>>
    BY <2>1, EmptySeq DEF ContentsOK
  <2>3. calls = [t \in Thread |-> Fifo!Idle]
    BY DEF calls, callOf, Init, Idle, Fifo!Idle
  <2> QED BY <2>2, <2>3 DEF Fifo!Init, calls
<1>2. RingInv /\ RingInv' /\ [Next]_vars => [Fifo!Next]_Fifo!vars
  BY RingStepMatches DEF Fifo!vars, calls
<1> QED BY <1>1, <1>2, RingInvariant, PTL DEF Spec, ImplementsFifo, Fifo!Spec
=============================================================================
