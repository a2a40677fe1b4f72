------------------------ MODULE WorkStealDequeProofs ------------------------
(***************************************************************************)
(* The Chase-Lev deque of WorkStealDeque implements TaskDeque, for any     *)
(* thieves, any first capacity and any number of pushes: every value is    *)
(* taken once, at its end of the deque, though thieves read cells without  *)
(* a lock, cells are torn while they are written, and arrays are outgrown. *)
(***************************************************************************)
EXTENDS WorkStealDeque, SequenceTheorems, TLAPS

-----------------------------------------------------------------------------
(* Cells. *)

\* Numbers less than c apart have different remainders.
LEMMA RemaindersDiffer ==
  ASSUME NEW c \in Nat \ {0}, NEW i \in Nat, NEW j \in Nat, i < j, j - i < c
  PROVE  i % c # j % c
<1>1. PICK p \in Nat, a \in Int : a = c * p /\ i = a + (i % c)
  <2>1. /\ i \div c \in Nat /\ c * (i \div c) \in Int
        /\ i = c * (i \div c) + (i % c)
    OBVIOUS
  <2> QED BY <2>1, Zenon
<1>2. PICK q \in Nat, b \in Int : b = c * q /\ j = b + (j % c)
  <2>1. /\ j \div c \in Nat /\ c * (j \div c) \in Int
        /\ j = c * (j \div c) + (j % c)
    OBVIOUS
  <2> QED BY <2>1, Zenon
<1> SUFFICES ASSUME i % c = j % c PROVE FALSE
  OBVIOUS
<1>3. i % c \in Int
  OBVIOUS
<1>4. b - a = j - i
  BY <1>1, <1>2, <1>3
<1>5. b - a = c * (q - p)
  BY <1>1, <1>2
<1>6. CASE q <= p
  <2>1. c * (q - p) <= 0
    BY <1>1, <1>2, <1>6
  <2> QED BY <2>1, <1>4, <1>5
<1>7. CASE q > p
  <2>1. c * (q - p) >= c
    BY <1>1, <1>2, <1>7
  <2> QED BY <2>1, <1>4, <1>5, <1>1, <1>2
<1> QED BY <1>1, <1>2, <1>6, <1>7

Array == Seq(Content) \ {<<>>}

LEMMA CellInArray ==
  ASSUME NEW arr \in Array, NEW i \in Int
  PROVE  Len(arr) \in Nat \ {0} /\ cell(i, arr) \in 1..Len(arr) /\ get(arr, i) \in Content
<1>1. Len(arr) \in Nat \ {0}
  BY EmptySeq DEF Array
<1>2. cell(i, arr) \in 1..Len(arr)
  <2>1. \A c \in Nat \ {0} : (i % c) + 1 \in 1..c
    OBVIOUS
  <2> QED BY <1>1, <2>1 DEF cell
<1> QED BY <1>1, <1>2, ElementOfSeq DEF Array, get

\* Indices less than the array's capacity apart have cells of their own.
LEMMA CellsDiffer ==
  ASSUME NEW arr \in Array, NEW i \in Nat, NEW j \in Nat, i < j, j - i < Len(arr)
  PROVE  cell(i, arr) # cell(j, arr)
<1>1. Len(arr) \in Nat \ {0}
  BY CellInArray
<1>2. i % Len(arr) # j % Len(arr)
  BY <1>1, RemaindersDiffer
<1>3. i % Len(arr) \in Int /\ j % Len(arr) \in Int
  BY <1>1
<1> QED BY <1>2, <1>3 DEF cell

\* The array in use is one of the arrays.
LEMMA CurrentType ==
  TypeOK => /\ Len(arrays) \in Nat \ {0} /\ current \in Array
            /\ \A k \in 1..Len(arrays) : arrays[k] \in Array
<1> SUFFICES ASSUME TypeOK
             PROVE  /\ Len(arrays) \in Nat \ {0} /\ current \in Array
                    /\ \A k \in 1..Len(arrays) : arrays[k] \in Array
  OBVIOUS
<1>1. Len(arrays) \in Nat \ {0}
  BY EmptySeq DEF TypeOK
<1>2. ASSUME NEW k \in 1..Len(arrays) PROVE arrays[k] \in Array
  <2>1. arrays[k] \in Seq(Content) /\ Len(arrays[k]) >= capacity
    BY ElementOfSeq DEF TypeOK
  <2>2. Len(arrays[k]) # 0
    BY <2>1, DequeAssumption
  <2> QED BY <2>1, <2>2, EmptySeq DEF Array
<1> QED BY <1>1, <1>2 DEF current

\* A store at bottom touches the cell of bottom only.
LEMMA StoreEffect ==
  ASSUME TypeOK, bottom \in Nat, NEW v \in Content, store(bottom, v)
  PROVE  /\ arrays' \in Seq(Seq(Content)) \ {<<>>} /\ Len(arrays') = Len(arrays)
         /\ \A k \in 1..Len(arrays) : Len(arrays'[k]) = Len(arrays[k])
         /\ \A k \in 1..(Len(arrays) - 1) : arrays'[k] = arrays[k]
         /\ Len(current') = Len(current)
         /\ get(current', bottom) = v
         /\ \A i \in Nat : (i < bottom /\ bottom - i < Len(current)) => get(current', i) = get(current, i)
<1> DEFINE n == Len(arrays)
           new == [current EXCEPT ![cell(bottom, current)] = v]
<1>1. /\ n \in Nat \ {0} /\ current \in Array /\ arrays \in Seq(Seq(Content)) /\ n \in 1..Len(arrays)
      /\ current = arrays[n] /\ current \in Seq(Content) /\ bottom \in Int
  BY CurrentType DEF current, TypeOK, Array
<1>2. cell(bottom, current) \in 1..Len(current) /\ Len(current) \in Nat \ {0}
  BY <1>1, CellInArray
<1>3. /\ new \in Seq(Content) /\ Len(new) = Len(current)
      /\ \A c \in 1..Len(current) : new[c] = IF c = cell(bottom, current) THEN v ELSE current[c]
  BY <1>1, <1>2, ExceptSeq
<1>4. arrays' = [arrays EXCEPT ![n] = new]
  BY <1>1 DEF store, current
<1> HIDE DEF n, new
<1>5. /\ arrays' \in Seq(Seq(Content)) /\ Len(arrays') = Len(arrays)
      /\ \A k \in 1..Len(arrays) : arrays'[k] = IF k = n THEN new ELSE arrays[k]
  BY <1>1, <1>3, <1>4, ExceptSeq
<1>6. arrays' # <<>>
  BY <1>1, <1>5, EmptySeq DEF n
<1>7. current' = new
  BY <1>1, <1>5 DEF current, n
<1>8. get(current', bottom) = v
  BY <1>2, <1>3, <1>7 DEF get, cell
<1>9. ASSUME NEW i \in Nat, i < bottom, bottom - i < Len(current)
      PROVE  get(current', i) = get(current, i)
  <2>1. cell(i, current) # cell(bottom, current)
    BY <1>1, <1>9, CellsDiffer
  <2>2. cell(i, current) \in 1..Len(current)
    <3>1. i \in Int
      OBVIOUS
    <3> QED BY <1>1, <3>1, CellInArray, Zenon
  <2> QED BY <1>3, <1>7, <2>1, <2>2 DEF get, cell
<1>10. \A k \in 1..(Len(arrays) - 1) : k \in 1..Len(arrays) /\ k # n
  BY <1>1 DEF n
<1> QED BY <1>1, <1>3, <1>5, <1>6, <1>7, <1>8, <1>9, <1>10

\* Growing moves the live values and leaves the old array as it was.
LEMMA GrowEffect ==
  ASSUME TypeOK, NEW from \in Nat, bottom - from \in 0..Len(current),
         arrays' = Append(arrays, grown(current, from))
  PROVE  /\ arrays' \in Seq(Seq(Content)) \ {<<>>} /\ Len(arrays') = Len(arrays) + 1
         /\ \A k \in 1..Len(arrays) : arrays'[k] = arrays[k]
         /\ Len(current') = 2 * Len(current)
         /\ \A i \in from..(bottom - 1) : get(current', i) = get(current, i)
<1> DEFINE n == Len(current)
           live(c) == {k \in from..(bottom - 1) : (k % (2 * n)) + 1 = c}
           new == grown(current, from)
<1>1. /\ Len(arrays) \in Nat \ {0} /\ current \in Array /\ arrays \in Seq(Seq(Content))
      /\ n \in Nat \ {0} /\ bottom \in Int
  BY CurrentType, CellInArray DEF TypeOK
<1>2. new = [c \in 1..(2 * n) |-> IF live(c) = {} THEN None ELSE get(current, CHOOSE k \in live(c) : TRUE)]
  BY DEF grown
<1>3. \A c \in 1..(2 * n) : new[c] \in Content
  <2> SUFFICES ASSUME NEW c \in 1..(2 * n) PROVE new[c] \in Content
    OBVIOUS
  <2>1. CASE live(c) = {}
    BY <1>2, <2>1 DEF Content
  <2>2. CASE live(c) # {}
    <3>1. (CHOOSE k \in live(c) : TRUE) \in live(c)
      BY <2>2
    <3>2. (CHOOSE k \in live(c) : TRUE) \in Int
      BY <1>1, <3>1
    <3> QED BY <1>1, <1>2, <2>2, <3>2, CellInArray
  <2> QED BY <2>1, <2>2
<1> HIDE DEF live, new
<1>4. new \in Seq(Content) /\ Len(new) = 2 * n
  <2>1. 2 * n \in Nat
    BY <1>1
  <2>2. new \in [1..(2 * n) -> Content]
    BY <1>2, <1>3
  <2> QED BY <2>1, <2>2
<1>5. /\ arrays' \in Seq(Seq(Content)) /\ arrays' # <<>> /\ Len(arrays') = Len(arrays) + 1
      /\ \A k \in 1..Len(arrays) : arrays'[k] = arrays[k]
      /\ arrays'[Len(arrays) + 1] = new
  <2>1. arrays' = Append(arrays, new)
    BY DEF new
  <2>2. /\ Append(arrays, new) \in Seq(Seq(Content)) /\ Append(arrays, new) # <<>>
        /\ Len(Append(arrays, new)) = Len(arrays) + 1
        /\ \A k \in 1..Len(arrays) : Append(arrays, new)[k] = arrays[k]
        /\ Append(arrays, new)[Len(arrays) + 1] = new
    <3>1. ASSUME NEW S, NEW s \in Seq(S), NEW e \in S
          PROVE  /\ Append(s, e) \in Seq(S) /\ Append(s, e) # <<>>
                 /\ Len(Append(s, e)) = Len(s) + 1
                 /\ \A k \in 1..Len(s) : Append(s, e)[k] = s[k]
                 /\ Append(s, e)[Len(s) + 1] = e
      BY AppendProperties
    <3> QED BY <1>1, <1>4, <3>1, ZenonT(30)
  <2> QED BY <2>1, <2>2, Zenon
<1>6. current' = new
  BY <1>5 DEF current
<1>7. new \in Array
  BY <1>1, <1>4, EmptySeq DEF Array
<1>8. ASSUME NEW i \in from..(bottom - 1) PROVE get(current', i) = get(current, i)
  <2>1. i \in Nat /\ (i % (2 * n)) + 1 = cell(i, new)
    BY <1>1, <1>4 DEF cell
  <2>2. cell(i, new) \in 1..(2 * n)
    BY <1>4, <1>7, <2>1, CellInArray
  <2>3. i \in live(cell(i, new))
    BY <2>1 DEF live
  <2>4. ASSUME NEW k \in live(cell(i, new)) PROVE k = i
    <3>1. k \in from..(bottom - 1) /\ k \in Nat /\ cell(k, new) = cell(i, new)
      BY <1>1, <1>4 DEF live, cell
    <3>2. k - i < Len(new) /\ i - k < Len(new)
      BY <1>1, <1>4, <3>1
    <3>3. ~(k < i)
      BY <1>7, <2>1, <3>1, <3>2, CellsDiffer
    <3>4. ~(i < k)
      BY <1>7, <2>1, <3>1, <3>2, CellsDiffer
    <3> QED BY <2>1, <3>1, <3>3, <3>4
  <2>5. (CHOOSE k \in live(cell(i, new)) : TRUE) = i
    BY <2>3, <2>4
  <2>6. new[cell(i, new)] = get(current, i)
    BY <1>2, <2>2, <2>3, <2>5
  <2> QED BY <1>6, <2>6 DEF get
<1> QED BY <1>4, <1>5, <1>6, <1>8
-----------------------------------------------------------------------------
(* The inductive invariant. *)

\* What the owner knows in the middle of a call: a push has room for its value,
\* the end of a pop that races for the last value is where it saw top.
Pushing == owner.pc \in {"push", "grow", "put", "putting", "publish"}

OwnerInv ==
  /\ end - top \in 0..Len(current)
  /\ owner.top <= top
  /\ Pushing => owner.value \in Value
  /\ owner.pc = "grow" => bottom - owner.top = Len(current)
  /\ owner.pc \in {"put", "putting", "publish"} => bottom - owner.top < Len(current)
  /\ owner.pc = "publish" => get(current, bottom) = owner.value
  /\ owner.pc \in {"last", "race"} => owner.top = bottom
  /\ owner.pc = "race" => owner.value = get(current, bottom)

\* A thief that can still win, since top has not moved, has seen the deque hold
\* a value, and whatever array it reads holds the value that is there now.
ThiefOK(r) ==
  /\ r.top <= top
  /\ r.pc = "read" => r.array \in 1..Len(arrays)
  /\ (r.pc \in {"array", "read", "claim"} /\ r.top = top) =>
       /\ top < end
       /\ r.pc = "read" => get(arrays[r.array], top) = get(current, top)
       /\ r.pc = "claim" => r.value = get(current, top)

StealInv == \A s \in Stealer : ThiefOK(stealer[s])

DequeInv == TypeOK /\ OwnerInv /\ StealInv

LEMMA DequeInit == Init => DequeInv
<1> SUFFICES ASSUME Init PROVE DequeInv
  OBVIOUS
<1> DEFINE first == [i \in 1..capacity |-> None]
<1>1. first \in Seq(Content) /\ Len(first) = capacity
  BY DequeAssumption DEF Content
<1>2. arrays = <<first>>
  BY DEF Init
<1> HIDE DEF first
<1>3. /\ arrays \in Seq(Seq(Content)) /\ arrays # <<>> /\ Len(arrays) = 1
      /\ arrays[1] = first
  BY <1>1, <1>2
<1>4. Len(current) = capacity
  BY <1>1, <1>3 DEF current
<1>5. TypeOK
  <2>1. top \in Nat /\ bottom \in Int /\ top <= bottom + 1 /\ pushes \in 0..MaxPushes
    BY DequeAssumption DEF Init
  <2>2. arrays \in Seq(Seq(Content)) \ {<<>>} /\ \A k \in 1..Len(arrays) : Len(arrays[k]) >= capacity
    BY <1>1, <1>3, DequeAssumption
  <2>3. taken \in [{Owner} \union Stealer -> Seq(Content)]
    BY DEF Init
  <2>4. stealer \in [Stealer -> [pc : {"idle", "bottom", "array", "read", "claim"}, top : Nat,
                                 array : 0..Len(arrays), value : Content]]
    BY <1>3 DEF Init, StealerIdle, Content
  <2>5. owner \in [pc : {"idle", "push", "grow", "put", "putting", "publish", "pop", "take",
                         "last", "race", "restore", "null"}, top : Nat, value : Content]
    BY DEF Init, OwnerIdle, Content
  <2> QED BY <2>1, <2>2, <2>3, <2>4, <2>5 DEF TypeOK
<1>6. OwnerInv
  BY <1>4, DequeAssumption DEF Init, OwnerIdle, OwnerInv, Pushing, end, undecided
<1>7. StealInv
  BY DEF Init, StealerIdle, StealInv, ThiefOK
<1> QED BY <1>5, <1>6, <1>7 DEF DequeInv

\* A step of the owner takes the value at top, or leaves it where the thieves see it.
LEMMA StealersKeep ==
  ASSUME TypeOK, StealInv, stealer' = stealer, top' \in Nat,
         Len(arrays') \in Nat, Len(arrays') >= Len(arrays),
         \/ top' > top
         \/ /\ top' = top
            /\ top < end =>
                 /\ top < end' /\ get(current', top) = get(current, top)
                 /\ \A k \in 1..Len(arrays) : get(arrays'[k], top) = get(arrays[k], top)
  PROVE  StealInv'
<1> SUFFICES ASSUME NEW s \in Stealer PROVE ThiefOK(stealer[s])'
  BY DEF StealInv
<1>1. /\ stealer'[s] = stealer[s] /\ top \in Nat /\ stealer[s].top \in Nat /\ Len(arrays) \in Nat
      /\ ThiefOK(stealer[s])
  BY CurrentType DEF TypeOK, StealInv
<1>2. CASE top' > top
  BY <1>1, <1>2 DEF ThiefOK
<1>3. CASE /\ top' = top
           /\ top < end =>
                /\ top < end' /\ get(current', top) = get(current, top)
                /\ \A k \in 1..Len(arrays) : get(arrays'[k], top) = get(arrays[k], top)
  BY <1>1, <1>3 DEF ThiefOK
<1> QED BY <1>2, <1>3

\* The steps of the owner that leave the arrays alone.
LEMMA OwnerMoves ==
  ASSUME DequeInv, UNCHANGED <<arrays, stealer>>,
         Push \/ PushLoadTop \/ GrowFails \/ Publish \/ Pop \/ PopLoadTop \/ Take
           \/ ReadLast \/ WinLast \/ LoseLast \/ Restore \/ PopNull
  PROVE  DequeInv'
<1> USE DEF DequeInv
<1>1. /\ current' = current /\ Len(arrays) \in Nat \ {0} /\ Len(current) \in Nat \ {0}
      /\ current \in Array
  BY CurrentType, CellInArray DEF current
<1>2. /\ top \in Nat /\ bottom \in Int /\ owner.top \in Nat /\ pushes \in 0..MaxPushes
      /\ owner.value \in Content /\ MaxPushes \in Nat
      /\ get(current, bottom) \in Content
      /\ None \in Content /\ Value \subseteq Content
  BY <1>1, CellInArray, DequeAssumption DEF TypeOK, Content
<1>3. end - top \in 0..Len(current) /\ owner.top <= top
  BY DEF OwnerInv
<1>4. top' \in Nat /\ bottom' \in Int /\ top' >= top /\ top' <= bottom' + 1 /\ pushes' \in 0..MaxPushes
  BY <1>2, <1>3 DEF Push, PushLoadTop, GrowFails, Publish, Pop, PopLoadTop, Take, ReadLast,
     WinLast, LoseLast, Restore, PopNull, OwnerInv, end, undecided
<1>5. owner' \in [pc : {"idle", "push", "grow", "put", "putting", "publish", "pop", "take",
                        "last", "race", "restore", "null"}, top : Nat, value : Content]
  <2>1. CASE Push
    <3>1. pushes + 1 \in Content
      BY <1>2, <2>1 DEF Push, Value
    <3>2. owner' = [owner EXCEPT !.pc = "push", !.value = pushes + 1]
      BY <2>1 DEF Push
    <3> QED BY <3>1, <3>2 DEF TypeOK
  <2>2. CASE PushLoadTop
    BY <1>2, <2>2 DEF PushLoadTop, TypeOK
  <2>3. CASE GrowFails \/ Publish \/ Take \/ PopNull
    BY <1>2, <2>3 DEF GrowFails, Publish, Take, PopNull, OwnerIdle
  <2>4. CASE Pop
    BY <2>4 DEF Pop, TypeOK
  <2>5. CASE PopLoadTop
    BY <1>2, <2>5 DEF PopLoadTop, popVerdict, TypeOK
  <2>6. CASE ReadLast
    BY <1>2, <2>6 DEF ReadLast, TypeOK
  <2>7. CASE WinLast
    BY <2>7 DEF WinLast, TypeOK
  <2>8. CASE LoseLast
    BY <1>2, <2>8 DEF LoseLast, TypeOK
  <2>9. CASE Restore
    BY <1>2, <2>9 DEF Restore, OwnerIdle
  <2> QED BY <2>1, <2>2, <2>3, <2>4, <2>5, <2>6, <2>7, <2>8, <2>9
<1>6. taken' \in [{Owner} \union Stealer -> Seq(Content)]
  <2>1. taken \in [{Owner} \union Stealer -> Seq(Content)]
    BY DEF TypeOK
  <2>2. \A v \in Content : Append(taken[Owner], v) \in Seq(Content)
    BY <2>1, AppendProperties
  <2>3. CASE Take
    BY <1>2, <2>1, <2>2, <2>3 DEF Take
  <2>4. CASE WinLast
    BY <1>2, <2>1, <2>2, <2>4 DEF WinLast
  <2>5. CASE taken' = taken
    BY <2>1, <2>5
  <2> QED BY <2>3, <2>4, <2>5 DEF Push, PushLoadTop, GrowFails, Publish, Pop, PopLoadTop, ReadLast,
          LoseLast, Restore, PopNull
<1>7. TypeOK'
  BY <1>4, <1>5, <1>6 DEF TypeOK
<1>8. OwnerInv' /\ (top' = top /\ top < end => top < end')
  <2>1. CASE Push
    BY <1>1, <1>2, <1>3, <2>1 DEF Push, OwnerInv, Pushing, end, undecided, Value
  <2>2. CASE PushLoadTop
    BY <1>1, <1>2, <1>3, <2>2 DEF PushLoadTop, isFull, OwnerInv, Pushing, end, undecided, TypeOK
  <2>3. CASE GrowFails
    BY <1>1, <1>2, <1>3, <2>3 DEF GrowFails, OwnerIdle, OwnerInv, Pushing, end, undecided
  <2>4. CASE Publish
    BY <1>1, <1>2, <1>3, <2>4 DEF Publish, OwnerIdle, OwnerInv, Pushing, end, undecided
  <2>5. CASE Pop
    BY <1>1, <1>2, <1>3, <2>5, SMTT(15) DEF Pop, OwnerInv, Pushing, end, undecided, TypeOK
  <2>6. CASE PopLoadTop
    BY <1>1, <1>2, <1>3, <2>6 DEF PopLoadTop, popVerdict, OwnerInv, Pushing, end, undecided, TypeOK
  <2>7. CASE Take
    BY <1>1, <1>2, <1>3, <2>7 DEF Take, OwnerIdle, OwnerInv, Pushing, end, undecided
  <2>8. CASE ReadLast
    BY <1>1, <1>2, <1>3, <2>8 DEF ReadLast, OwnerInv, Pushing, end, undecided, TypeOK
  <2>9. CASE WinLast
    BY <1>1, <1>2, <1>3, <2>9 DEF WinLast, OwnerInv, Pushing, end, undecided, TypeOK
  <2>10. CASE LoseLast
    BY <1>1, <1>2, <1>3, <2>10 DEF LoseLast, OwnerInv, Pushing, end, undecided, TypeOK
  <2>11. CASE Restore
    BY <1>1, <1>2, <1>3, <2>11 DEF Restore, OwnerIdle, OwnerInv, Pushing, end, undecided, TypeOK
  <2>12. CASE PopNull
    BY <1>1, <1>2, <1>3, <2>12 DEF PopNull, OwnerIdle, OwnerInv, Pushing, end, undecided
  <2> QED BY <2>1, <2>2, <2>3, <2>4, <2>5, <2>6, <2>7, <2>8, <2>9, <2>10, <2>11, <2>12
<1>9. StealInv'
  <2>1. top' > top \/ top' = top
    BY <1>2, <1>4
  <2>2. Len(arrays') \in Nat /\ Len(arrays') >= Len(arrays)
    BY <1>1
  <2> QED BY <1>1, <1>4, <1>8, <2>1, <2>2, StealersKeep
<1> QED BY <1>7, <1>8, <1>9

\* A store of the owner goes to a cell no live value has.
LEMMA OwnerStores ==
  ASSUME DequeInv, PutBegins \/ PutEnds
  PROVE  DequeInv'
<1> USE DEF DequeInv
<1> DEFINE v == IF owner.pc = "put" THEN Torn ELSE owner.value
<1>1. /\ UNCHANGED <<top, bottom, stealer, pushes, taken>> /\ store(bottom, v)
      /\ owner.pc \in {"put", "putting"}
      /\ owner' = [owner EXCEPT !.pc = IF owner.pc = "put" THEN "putting" ELSE "publish"]
  BY DEF PutBegins, PutEnds
<1>2. v \in Content /\ owner.value \in Value /\ (owner.pc = "putting" => v = owner.value)
  BY <1>1 DEF OwnerInv, Pushing, Content
<1> HIDE DEF v
<1>3. /\ top \in Nat /\ bottom \in Nat /\ owner.top \in Nat /\ end = bottom /\ top <= bottom
      /\ owner.top <= top /\ bottom - owner.top < Len(current)
      /\ Len(current) \in Nat \ {0} /\ Len(arrays) \in Nat \ {0}
  <2>1. Len(current) \in Nat \ {0} /\ Len(arrays) \in Nat \ {0}
    BY CurrentType, CellInArray
  <2>2. end = bottom
    BY <1>1 DEF end, undecided
  <2> QED BY <1>1, <2>1, <2>2 DEF TypeOK, OwnerInv
<1>4. /\ arrays' \in Seq(Seq(Content)) \ {<<>>} /\ Len(arrays') = Len(arrays)
      /\ \A k \in 1..Len(arrays) : Len(arrays'[k]) = Len(arrays[k])
      /\ \A k \in 1..(Len(arrays) - 1) : arrays'[k] = arrays[k]
      /\ Len(current') = Len(current)
      /\ get(current', bottom) = v
      /\ \A i \in Nat : (i < bottom /\ bottom - i < Len(current)) => get(current', i) = get(current, i)
  BY <1>1, <1>2, <1>3, StoreEffect
<1>5. TypeOK'
  <2>1. owner' \in [pc : {"idle", "push", "grow", "put", "putting", "publish", "pop", "take",
                          "last", "race", "restore", "null"}, top : Nat, value : Content]
    BY <1>1 DEF TypeOK
  <2>2. \A k \in 1..Len(arrays') : Len(arrays'[k]) >= capacity
    BY <1>4 DEF TypeOK
  <2> QED BY <1>1, <1>4, <2>1, <2>2 DEF TypeOK
<1>6. /\ owner'.pc = (IF owner.pc = "put" THEN "putting" ELSE "publish")
      /\ owner'.top = owner.top /\ owner'.value = owner.value
  BY <1>1 DEF TypeOK
<1>7. end' = bottom
  BY <1>1, <1>6 DEF end, undecided
<1>8. OwnerInv'
  BY <1>1, <1>2, <1>3, <1>4, <1>6, <1>7 DEF OwnerInv, Pushing
<1>9. StealInv'
  <2>1. ASSUME top < end
        PROVE  /\ top < end' /\ get(current', top) = get(current, top)
               /\ \A k \in 1..Len(arrays) : get(arrays'[k], top) = get(arrays[k], top)
    <3>1. get(current', top) = get(current, top)
      BY <1>3, <1>4, <2>1
    <3>2. \A k \in 1..Len(arrays) : k = Len(arrays) \/ k \in 1..(Len(arrays) - 1)
      BY <1>3
    <3>3. current = arrays[Len(arrays)] /\ current' = arrays'[Len(arrays)]
      BY <1>4 DEF current
    <3> QED BY <1>3, <1>4, <1>7, <2>1, <3>1, <3>2, <3>3
  <2> QED BY <1>1, <1>3, <1>4, <2>1, StealersKeep
<1> QED BY <1>5, <1>8, <1>9

LEMMA OwnerGrows == ASSUME DequeInv, Grow PROVE DequeInv'
<1> USE DEF DequeInv
<1>1. /\ UNCHANGED <<top, bottom, stealer, pushes, taken>> /\ owner.pc = "grow"
      /\ arrays' = Append(arrays, grown(current, owner.top))
      /\ owner'.pc = "put" /\ owner'.top = owner.top /\ owner'.value = owner.value
      /\ owner' \in [pc : {"idle", "push", "grow", "put", "putting", "publish", "pop", "take",
                           "last", "race", "restore", "null"}, top : Nat, value : Content]
  BY DEF Grow, TypeOK
<1>2. /\ top \in Nat /\ bottom \in Nat /\ owner.top \in Nat /\ end = bottom /\ top <= bottom
      /\ owner.top <= top /\ bottom - owner.top = Len(current)
      /\ Len(current) \in Nat \ {0} /\ Len(arrays) \in Nat \ {0}
  <2>1. Len(current) \in Nat \ {0} /\ Len(arrays) \in Nat \ {0}
    BY CurrentType, CellInArray
  <2>2. end = bottom
    BY <1>1 DEF end, undecided
  <2> QED BY <1>1, <2>1, <2>2 DEF TypeOK, OwnerInv
<1>3. /\ arrays' \in Seq(Seq(Content)) \ {<<>>} /\ Len(arrays') = Len(arrays) + 1
      /\ \A k \in 1..Len(arrays) : arrays'[k] = arrays[k]
      /\ Len(current') = 2 * Len(current)
      /\ \A i \in owner.top..(bottom - 1) : get(current', i) = get(current, i)
  <2>1. bottom - owner.top \in 0..Len(current)
    BY <1>2
  <2> QED BY <1>1, <1>2, <2>1, GrowEffect
<1>4. TypeOK'
  <2>1. \A k \in 1..Len(arrays') : Len(arrays'[k]) >= capacity
    <3>1. capacity \in Nat /\ Len(current) >= capacity
      BY <1>2, DequeAssumption DEF TypeOK, current
    <3>2. Len(arrays'[Len(arrays) + 1]) >= capacity
      BY <1>2, <1>3, <3>1 DEF current
    <3>3. \A k \in 1..Len(arrays) : Len(arrays'[k]) >= capacity
      BY <1>3 DEF TypeOK
    <3>4. \A k \in 1..Len(arrays') : k \in 1..Len(arrays) \/ k = Len(arrays) + 1
      BY <1>2, <1>3
    <3> QED BY <3>2, <3>3, <3>4
  <2>2. stealer' \in [Stealer -> [pc : {"idle", "bottom", "array", "read", "claim"}, top : Nat,
                                  array : 0..Len(arrays'), value : Content]]
    BY <1>1, <1>2, <1>3 DEF TypeOK
  <2> QED BY <1>1, <1>3, <2>1, <2>2 DEF TypeOK
<1>5. end' = bottom
  BY <1>1 DEF end, undecided
<1>6. OwnerInv'
  BY <1>1, <1>2, <1>3, <1>5 DEF OwnerInv, Pushing
<1>7. StealInv'
  <2>1. ASSUME top < end
        PROVE  /\ top < end' /\ get(current', top) = get(current, top)
               /\ \A k \in 1..Len(arrays) : get(arrays'[k], top) = get(arrays[k], top)
    BY <1>2, <1>3, <1>5, <2>1
  <2> QED BY <1>1, <1>2, <1>3, <2>1, StealersKeep
<1> QED BY <1>4, <1>6, <1>7

Thief == [pc : {"idle", "bottom", "array", "read", "claim"}, top : Nat,
          array : 0..Len(arrays), value : Content]

\* What a thief knows after its step.
LEMMA ThiefMoves ==
  ASSUME DequeInv, NEW s \in Stealer, StealerStep(s)
  PROVE  \E r \in Thief : ThiefOK(r) /\ stealer' = [stealer EXCEPT ![s] = r]
<1> USE DEF DequeInv
<1>1. /\ top \in Nat /\ bottom \in Int /\ Len(arrays) \in Nat \ {0} /\ bottom <= end /\ end \in Int
  BY CurrentType DEF TypeOK, end
<1>2. stealer[s] \in Thief /\ ThiefOK(stealer[s])
  BY DEF TypeOK, StealInv, Thief
<1>3. StealerIdle \in Thief /\ ThiefOK(StealerIdle)
  BY <1>1 DEF StealerIdle, Thief, ThiefOK, Content
<1>4. CASE StealLoadTop(s)
  <2> DEFINE r == [stealer[s] EXCEPT !.pc = "bottom", !.top = top]
  <2>1. stealer' = [stealer EXCEPT ![s] = r]
    BY <1>4 DEF StealLoadTop
  <2>2. r \in Thief /\ r.pc = "bottom" /\ r.top = top
    BY <1>1, <1>2 DEF Thief
  <2> HIDE DEF r
  <2>3. ThiefOK(r)
    BY <1>1, <2>2 DEF ThiefOK
  <2> QED BY <2>1, <2>2, <2>3
<1>5. CASE StealLoadBottom(s)
  <2>1. CASE stealer[s].top >= bottom
    <3>1. stealer' = [stealer EXCEPT ![s] = StealerIdle]
      BY <1>5, <2>1 DEF StealLoadBottom
    <3> QED BY <1>3, <3>1
  <2>2. CASE ~(stealer[s].top >= bottom)
    <3> DEFINE r == [stealer[s] EXCEPT !.pc = "array"]
    <3>1. stealer' = [stealer EXCEPT ![s] = r]
      BY <1>5, <2>2 DEF StealLoadBottom
    <3>2. r \in Thief /\ r.pc = "array" /\ r.top = stealer[s].top
      BY <1>2 DEF Thief
    <3>3. stealer[s].top < bottom
      BY <1>1, <1>2, <2>2 DEF Thief
    <3> HIDE DEF r
    <3>4. ThiefOK(r)
      BY <1>1, <1>2, <3>2, <3>3 DEF ThiefOK
    <3> QED BY <3>1, <3>2, <3>4
  <2> QED BY <2>1, <2>2
<1>6. CASE StealLoadArray(s)
  <2> DEFINE r == [stealer[s] EXCEPT !.pc = "read", !.array = Len(arrays)]
  <2>1. stealer' = [stealer EXCEPT ![s] = r] /\ stealer[s].pc = "array"
    BY <1>6 DEF StealLoadArray
  <2>2. r \in Thief /\ r.pc = "read" /\ r.top = stealer[s].top /\ r.array = Len(arrays)
    <3>1. Len(arrays) \in 0..Len(arrays)
      BY <1>1
    <3> QED BY <1>2, <3>1 DEF Thief
  <2> HIDE DEF r
  <2>3. arrays[r.array] = current
    BY <2>2 DEF current
  <2>4. ThiefOK(r)
    BY <1>1, <1>2, <2>1, <2>2, <2>3 DEF ThiefOK
  <2> QED BY <2>1, <2>2, <2>4
<1>7. CASE StealRead(s)
  <2> DEFINE v == get(arrays[stealer[s].array], stealer[s].top)
             r == [stealer[s] EXCEPT !.pc = "claim", !.value = v]
  <2>1. stealer' = [stealer EXCEPT ![s] = r] /\ stealer[s].pc = "read"
    BY <1>7 DEF StealRead
  <2>2. v \in Content
    <3>1. stealer[s].array \in 1..Len(arrays) /\ stealer[s].top \in Int
      BY <1>2, <2>1 DEF Thief, ThiefOK
    <3>2. arrays[stealer[s].array] \in Array
      BY <3>1, CurrentType
    <3> QED BY <3>1, <3>2, CellInArray
  <2> HIDE DEF v
  <2>3. r \in Thief /\ r.pc = "claim" /\ r.top = stealer[s].top /\ r.value = v
    BY <1>2, <2>2 DEF Thief
  <2> HIDE DEF r
  <2>4. ThiefOK(r)
    BY <1>2, <2>1, <2>3 DEF ThiefOK, v
  <2> QED BY <2>1, <2>3, <2>4
<1>8. CASE StealWins(s) \/ StealLoses(s)
  BY <1>3, <1>8 DEF StealWins, StealLoses
<1> QED BY <1>4, <1>5, <1>6, <1>7, <1>8 DEF StealerStep

LEMMA StealerKeeps ==
  ASSUME DequeInv, NEW s \in Stealer, StealerStep(s)
  PROVE  DequeInv'
<1> USE DEF DequeInv
<1>1. /\ UNCHANGED <<bottom, arrays, owner, pushes>> /\ current' = current /\ end' = end
      /\ Len(arrays') = Len(arrays)
  BY DEF StealerStep, StealLoadTop, StealLoadBottom, StealLoadArray, StealRead, StealWins, StealLoses,
     current, end, undecided
<1>2. /\ top \in Nat /\ bottom \in Int /\ end \in Int /\ top <= end /\ end <= bottom + 1
      /\ owner.top <= top /\ owner.top \in Nat /\ Len(current) \in Nat
  <2>1. Len(current) \in Nat
    BY CurrentType, CellInArray
  <2> QED BY <2>1 DEF TypeOK, OwnerInv, end
<1>3. stealer[s] \in Thief /\ ThiefOK(stealer[s])
  BY DEF TypeOK, StealInv, Thief
<1>4. top' = top \/ (top' = top + 1 /\ top' <= end)
  BY <1>2, <1>3 DEF ThiefOK, StealerStep, StealLoadTop, StealLoadBottom, StealLoadArray, StealRead,
     StealWins, StealLoses
<1>5. PICK r \in Thief : ThiefOK(r) /\ stealer' = [stealer EXCEPT ![s] = r]
  BY ThiefMoves
<1>6. taken' \in [{Owner} \union Stealer -> Seq(Content)]
  <2>1. taken \in [{Owner} \union Stealer -> Seq(Content)]
    BY DEF TypeOK
  <2>2. Append(taken[s], stealer[s].value) \in Seq(Content)
    BY <1>3, <2>1, AppendProperties DEF Thief
  <2>3. taken' = taken \/ taken' = [taken EXCEPT ![s] = Append(taken[s], stealer[s].value)]
    BY DEF StealerStep, StealLoadTop, StealLoadBottom, StealLoadArray, StealRead, StealWins, StealLoses
  <2> QED BY <2>1, <2>2, <2>3
<1>7. TypeOK'
  <2>1. stealer' \in [Stealer -> Thief]
    BY <1>5 DEF TypeOK, Thief
  <2>2. top' \in Nat /\ top' <= bottom + 1
    BY <1>2, <1>4
  <2> QED BY <1>1, <1>6, <2>1, <2>2 DEF TypeOK, Thief
<1>8. OwnerInv'
  <2>1. end' - top' \in 0..Len(current') /\ owner'.top <= top'
    BY <1>1, <1>2, <1>4 DEF OwnerInv
  <2> QED BY <1>1, <2>1 DEF OwnerInv, Pushing
<1>9. StealInv'
  <2> SUFFICES ASSUME NEW t \in Stealer PROVE ThiefOK(stealer[t])'
    BY DEF StealInv
  <2>1. stealer'[t] \in Thief /\ ThiefOK(stealer'[t])
    <3>1. CASE t = s
      BY <1>5, <3>1 DEF TypeOK
    <3>2. CASE t # s
      <4>1. stealer'[t] = stealer[t]
        BY <1>5, <3>2 DEF TypeOK
      <4> QED BY <4>1 DEF StealInv, TypeOK, Thief
    <3> QED BY <3>1, <3>2
  <2>2. CASE top' = top
    BY <1>1, <2>1, <2>2 DEF ThiefOK
  <2>3. CASE top' = top + 1
    <3>1. stealer'[t].top <= top /\ stealer'[t].top \in Nat
      BY <2>1 DEF ThiefOK, Thief
    <3>2. stealer'[t].top <= top' /\ stealer'[t].top # top'
      BY <1>2, <2>3, <3>1
    <3> QED BY <1>1, <2>1, <3>2 DEF ThiefOK
  <2> QED BY <1>4, <2>2, <2>3
<1> QED BY <1>7, <1>8, <1>9

LEMMA DequeStep == DequeInv /\ [Next]_vars => DequeInv'
<1> SUFFICES ASSUME DequeInv, [Next]_vars PROVE DequeInv'
  OBVIOUS
<1>1. CASE OwnerStep
  <2>1. CASE PutBegins \/ PutEnds
    BY <2>1, OwnerStores
  <2>2. CASE Grow
    BY <2>2, OwnerGrows
  <2>3. CASE Push \/ PushLoadTop \/ GrowFails \/ Publish \/ Pop \/ PopLoadTop \/ Take
               \/ ReadLast \/ WinLast \/ LoseLast \/ Restore \/ PopNull
    <3>1. UNCHANGED <<arrays, stealer>>
      BY <2>3 DEF Push, PushLoadTop, GrowFails, Publish, Pop, PopLoadTop, Take, ReadLast, WinLast,
         LoseLast, Restore, PopNull
    <3> QED BY <2>3, <3>1, OwnerMoves
  <2> QED BY <1>1, <2>1, <2>2, <2>3 DEF OwnerStep
<1>2. CASE \E s \in Stealer : StealerStep(s)
  BY <1>2, StealerKeeps
<1>3. CASE UNCHANGED vars
  BY <1>3 DEF vars, DequeInv, TypeOK, OwnerInv, StealInv, ThiefOK, Pushing, current, end, undecided
<1> QED BY <1>1, <1>2, <1>3 DEF Next

LEMMA DequeInvariant == Spec => []DequeInv
BY DequeInit, DequeStep, PTL DEF Spec
-----------------------------------------------------------------------------
(* What follows from it. *)

\* Types hold; top passes bottom by one at most, whatever thieves and owner do.
THEOREM TypeCorrect == Spec => []TypeOK
<1>1. DequeInv => TypeOK
  BY DEF DequeInv
<1> QED BY <1>1, DequeInvariant, PTL

-----------------------------------------------------------------------------
(* The deque implements the abstract one. *)

takens == [t \in {Owner} \union Stealer |-> takenBy(t)]

\* The live values as a sequence.
ContentsOK ==
  /\ contents \in Seq(Content)
  /\ Len(contents) = end - top
  /\ \A i \in 1..(end - top) : contents[i] = get(current, top + i - 1)

LEMMA ContentsSeq == DequeInv => ContentsOK
<1> SUFFICES ASSUME DequeInv PROVE ContentsOK
  OBVIOUS
<1>1. end - top \in Nat /\ top \in Nat /\ current \in Array
  BY CurrentType, CellInArray DEF DequeInv, TypeOK, OwnerInv
<1>2. ASSUME NEW i \in 1..(end - top) PROVE get(current, top + i - 1) \in Content
  <2>1. top + i - 1 \in Int
    BY <1>1
  <2> QED BY <1>1, <2>1, CellInArray
<1>3. contents \in [1..(end - top) -> Content]
  BY <1>2 DEF contents
<1>4. contents \in Seq(Content)
  BY <1>1, <1>3
<1>5. Len(contents) = end - top
  BY <1>1, <1>3, <1>4, LenProperties
<1> QED BY <1>4, <1>5 DEF ContentsOK, contents

\* The contents after a step, by where it leaves top and end.
LEMMA ContentsKept ==
  ASSUME ContentsOK, ContentsOK', top \in Nat, end \in Int, end - top \in Nat, top' = top, end' = end,
         \A i \in Nat : (top <= i /\ i < end) => get(current', i) = get(current, i)
  PROVE  contents' = contents
<1>1. /\ contents \in Seq(Content) /\ Len(contents) = end - top
      /\ \A i \in 1..(end - top) : contents[i] = get(current, top + i - 1)
  BY DEF ContentsOK
<1>2. /\ contents' \in Seq(Content) /\ Len(contents') = end - top
      /\ \A i \in 1..(end - top) : contents'[i] = get(current', top + i - 1)
  BY DEF ContentsOK
<1>3. ASSUME NEW i \in 1..(end - top) PROVE contents'[i] = contents[i]
  <2>1. top + i - 1 \in Nat /\ top <= top + i - 1 /\ top + i - 1 < end
    OBVIOUS
  <2> QED BY <1>1, <1>2, <2>1
<1> QED BY <1>1, <1>2, <1>3, SeqEqual

LEMMA ContentsGrow ==
  ASSUME ContentsOK, ContentsOK', top \in Nat, end \in Int, end - top \in Nat,
         top' = top, end' = end + 1, current' = current
  PROVE  contents' = Append(contents, get(current, end))
<1> DEFINE n == end - top
           v == get(current, end)
           a == Append(contents, v)
<1>1. n \in Nat /\ end' - top' = n + 1 /\ top + (n + 1) - 1 = end
  OBVIOUS
<1>2. /\ contents \in Seq(Content) /\ Len(contents) = n
      /\ \A i \in 1..n : contents[i] = get(current, top + i - 1)
  BY DEF ContentsOK
<1>3. /\ contents' \in Seq(Content) /\ Len(contents') = n + 1
      /\ \A i \in 1..(n + 1) : contents'[i] = get(current, top + i - 1)
  BY <1>1 DEF ContentsOK
<1> HIDE DEF n
<1>4. contents'[n + 1] = v /\ n + 1 \in 1..(n + 1)
  BY <1>1, <1>3
<1>5. v \in Content
  BY <1>3, <1>4, ElementOfSeq
<1> HIDE DEF v
<1>6. /\ a \in Seq(Content) /\ Len(a) = n + 1 /\ a[n + 1] = v
      /\ \A i \in 1..n : a[i] = contents[i]
  BY <1>2, <1>5, AppendProperties
<1> HIDE DEF a
<1>7. ASSUME NEW i \in 1..(n + 1) PROVE a[i] = contents'[i]
  <2>1. CASE i = n + 1
    BY <1>4, <1>6, <2>1
  <2>2. CASE i \in 1..n
    BY <1>1, <1>2, <1>3, <1>6, <2>2
  <2> QED BY <1>1, <2>1, <2>2
<1>8. a = contents'
  BY <1>3, <1>6, <1>7, SeqEqual
<1> QED BY <1>8 DEF a, v

LEMMA ContentsShrink ==
  ASSUME ContentsOK, ContentsOK', top \in Nat, end \in Int, end - top \in Nat \ {0}, current' = current
  PROVE  /\ contents # <<>>
         /\ contents[1] = get(current, top) /\ contents[Len(contents)] = get(current, end - 1)
         /\ top' = top /\ end' = end - 1 => contents' = SubSeq(contents, 1, Len(contents) - 1)
         /\ top' = top + 1 /\ end' = end => contents' = Tail(contents)
         /\ top' = top + 1 /\ end' = end /\ Len(contents) = 1
              => contents' = SubSeq(contents, 1, Len(contents) - 1)
<1> DEFINE n == end - top
<1>1. n \in Nat \ {0} /\ top + n - 1 = end - 1
  OBVIOUS
<1>2. /\ contents \in Seq(Content) /\ Len(contents) = n
      /\ \A i \in 1..n : contents[i] = get(current, top + i - 1)
  BY DEF ContentsOK
<1>3. /\ contents' \in Seq(Content) /\ Len(contents') = end' - top'
      /\ \A i \in 1..(end' - top') : contents'[i] = get(current, top' + i - 1)
  BY DEF ContentsOK
<1>4. end \in Int
  OBVIOUS
<1> HIDE DEF n
<1>5. contents # <<>>
  BY <1>1, <1>2, EmptySeq
<1>6. contents[1] = get(current, top) /\ contents[Len(contents)] = get(current, end - 1)
  <2>1. 1 \in 1..n /\ n \in 1..n /\ top + 1 - 1 = top
    BY <1>1
  <2> QED BY <1>1, <1>2, <2>1
<1>7. ASSUME top' = top, end' = end - 1 PROVE contents' = SubSeq(contents, 1, Len(contents) - 1)
  <2> DEFINE c == SubSeq(contents, 1, n - 1)
  <2>1. end' - top' = n - 1 /\ n - 1 \in Nat
    BY <1>1, <1>4, <1>7 DEF n
  <2>2. \A i \in 1..(n - 1) : i \in 1..n /\ contents[i] \in Content
    BY <1>1, <1>2, ElementOfSeq
  <2>3. /\ c \in Seq(Content) /\ Len(c) = n - 1
        /\ \A i \in 1..(n - 1) : c[i] = contents[i]
    <3>1. /\ c \in Seq(Content) /\ Len(c) = IF 1 <= n - 1 THEN n - 1 - 1 + 1 ELSE 0
          /\ \A i \in 1..(n - 1 - 1 + 1) : c[i] = contents[1 + i - 1]
      BY <1>1, <2>1, <2>2, SubSeqProperties
    <3> HIDE DEF c
    <3> QED BY <1>1, <3>1
  <2> HIDE DEF c
  <2>4. \A i \in 1..(n - 1) : c[i] = contents'[i]
    BY <1>2, <1>3, <1>7, <2>1, <2>2, <2>3
  <2>5. c = contents'
    BY <1>3, <2>1, <2>3, <2>4, SeqEqual
  <2> QED BY <1>2, <2>5 DEF c
<1>8. ASSUME top' = top + 1, end' = end PROVE contents' = Tail(contents)
  <2>1. end' - top' = n - 1 /\ n - 1 \in Nat
    BY <1>1, <1>4, <1>8 DEF n
  <2>2. /\ Tail(contents) \in Seq(Content) /\ Len(Tail(contents)) = n - 1
        /\ \A i \in 1..(n - 1) : Tail(contents)[i] = contents[i + 1]
    BY <1>2, <1>5, HeadTailProperties
  <2>3. \A i \in 1..(n - 1) : contents[i + 1] = contents'[i]
    <3> TAKE i \in 1..(n - 1)
    <3>1. i + 1 \in 1..n /\ top' + i - 1 = top + (i + 1) - 1
      BY <1>1, <1>8
    <3> QED BY <1>2, <1>3, <2>1, <3>1
  <2> QED BY <1>3, <2>1, <2>2, <2>3, SeqEqual
<1>9. ASSUME top' = top + 1, end' = end, Len(contents) = 1
      PROVE  contents' = SubSeq(contents, 1, Len(contents) - 1)
  <2>1. end' - top' = 0
    <3>1. n = 1
      BY <1>2, <1>9
    <3> QED BY <1>4, <1>9, <3>1 DEF n
  <2>2. contents' = <<>>
    BY <1>3, <2>1, EmptySeq
  <2>3. SubSeq(contents, 1, 0) = <<>>
    BY SubSeqEmpty
  <2> QED BY <1>9, <2>2, <2>3
<1> QED BY <1>5, <1>6, <1>7, <1>8, <1>9

LEMMA DequeStepMatches ==
  DequeInv /\ DequeInv' /\ [Next]_vars => [Abstract!Next]_<<contents, takens>>
<1> SUFFICES ASSUME DequeInv, DequeInv', [Next]_vars
             PROVE  Abstract!Next \/ UNCHANGED <<contents, takens>>
  OBVIOUS
<1>a. TypeOK /\ OwnerInv /\ StealInv /\ OwnerInv'
  BY DEF DequeInv
<1>b. ContentsOK /\ ContentsOK'
  <2>1. (DequeInv => ContentsOK)'
    BY ContentsSeq, PTL
  <2> QED BY <2>1, ContentsSeq
<1>c. /\ top \in Nat /\ bottom \in Int /\ end \in Int /\ end - top \in Nat
      /\ Len(current) \in Nat /\ owner.top \in Nat /\ owner.top <= top
  <2>1. Len(current) \in Nat
    BY <1>a, CurrentType, CellInArray
  <2> QED BY <1>a, <2>1 DEF TypeOK, OwnerInv, end
<1>d. Owner \notin Stealer /\ taken \in [{Owner} \union Stealer -> Seq(Content)]
  BY <1>a, DequeAssumption DEF TypeOK
<1>e. \A t \in {Owner} \union Stealer : takens[t] = takenBy(t)
  BY DEF takens
\* Nothing the abstract deque sees changes.
<1>1. CASE Push \/ PushLoadTop \/ GrowFails \/ Pop \/ ReadLast \/ LoseLast \/ Restore \/ PopNull
  <2>1. UNCHANGED <<top, arrays, taken>> /\ current' = current
    BY <1>1 DEF Push, PushLoadTop, GrowFails, Pop, ReadLast, LoseLast, Restore, PopNull, current
  <2>2. owner.pc # "take" /\ owner'.pc # "take" /\ end' = end
    <3>0. owner \in [pc : {"idle", "push", "grow", "put", "putting", "publish", "pop", "take",
                           "last", "race", "restore", "null"}, top : Nat, value : Content]
      BY <1>a DEF TypeOK
    <3>1. CASE Push \/ PushLoadTop
      BY <1>c, <3>0, <3>1 DEF Push, PushLoadTop, end, undecided
    <3>2. CASE GrowFails \/ PopNull
      BY <1>c, <3>2 DEF GrowFails, PopNull, OwnerIdle, end, undecided
    <3>3. CASE Pop
      BY <1>c, <3>0, <3>3 DEF Pop, end, undecided
    <3>4. CASE ReadLast \/ LoseLast
      BY <1>c, <3>0, <3>4 DEF ReadLast, LoseLast, end, undecided
    <3>5. CASE Restore
      BY <1>c, <3>5 DEF Restore, OwnerIdle, end, undecided
    <3> QED BY <1>1, <3>1, <3>2, <3>3, <3>4, <3>5
  <2>3. takens' = takens
    BY <2>1, <2>2 DEF takens, takenBy
  <2>4. contents' = contents
    BY <1>b, <1>c, <2>1, <2>2, ContentsKept
  <2> QED BY <2>3, <2>4
<1>2. CASE Grow
  <2>1. /\ UNCHANGED <<top, bottom, taken>> /\ owner.pc = "grow" /\ owner'.pc = "put"
        /\ arrays' = Append(arrays, grown(current, owner.top))
    BY <1>2, <1>a DEF Grow, TypeOK
  <2>2. end = bottom /\ end' = bottom /\ bottom - owner.top = Len(current)
    BY <2>1, <1>a DEF end, undecided, OwnerInv
  <2>3. bottom - owner.top \in 0..Len(current)
    BY <1>c, <2>2
  <2>4. \A i \in owner.top..(bottom - 1) : get(current', i) = get(current, i)
    BY <1>a, <1>c, <2>1, <2>3, GrowEffect
  <2>5. \A i \in Nat : (top <= i /\ i < end) => get(current', i) = get(current, i)
    BY <1>c, <2>2, <2>4
  <2>6. contents' = contents
    BY <1>b, <1>c, <2>1, <2>2, <2>5, ContentsKept
  <2>7. takens' = takens
    BY <2>1 DEF takens, takenBy
  <2> QED BY <2>6, <2>7
<1>3. CASE PutBegins \/ PutEnds
  <2> DEFINE v == IF owner.pc = "put" THEN Torn ELSE owner.value
  <2>1. /\ UNCHANGED <<top, bottom, taken>> /\ store(bottom, v)
        /\ owner.pc \in {"put", "putting"} /\ owner'.pc \in {"putting", "publish"}
    BY <1>3, <1>a DEF PutBegins, PutEnds, TypeOK
  <2>2. v \in Content /\ bottom - owner.top < Len(current)
    BY <1>a, <2>1 DEF OwnerInv, Pushing, Content
  <2> HIDE DEF v
  <2>3. end = bottom /\ end' = bottom /\ bottom \in Nat
    BY <1>c, <2>1 DEF end, undecided
  <2>4. \A i \in Nat : (i < bottom /\ bottom - i < Len(current)) => get(current', i) = get(current, i)
    BY <1>a, <2>1, <2>2, <2>3, StoreEffect
  <2>5. \A i \in Nat : (top <= i /\ i < end) => get(current', i) = get(current, i)
    BY <1>c, <2>2, <2>3, <2>4
  <2>6. contents' = contents
    BY <1>b, <1>c, <2>1, <2>3, <2>5, ContentsKept
  <2>7. takens' = takens
    BY <2>1 DEF takens, takenBy
  <2> QED BY <2>6, <2>7
\* The value becomes visible to thieves.
<1>4. CASE Publish
  <2>1. /\ UNCHANGED <<top, taken>> /\ current' = current /\ bottom' = bottom + 1
        /\ owner.pc = "publish" /\ owner'.pc = "idle"
    BY <1>4 DEF Publish, OwnerIdle, current
  <2>2. end = bottom /\ end' = end + 1
    BY <2>1 DEF end, undecided
  <2>3. get(current, end) = owner.value /\ owner.value \in Value
    BY <1>a, <2>1, <2>2 DEF OwnerInv, Pushing
  <2>4. contents' = Append(contents, owner.value)
    BY <1>b, <1>c, <2>1, <2>2, <2>3, ContentsGrow
  <2>5. takens' = takens
    BY <2>1 DEF takens, takenBy
  <2>6. Abstract!Push(owner.value)
    BY <2>4, <2>5 DEF Abstract!Push, takens
  <2> QED BY <2>3, <2>6 DEF Abstract!Next
\* The owner takes the last value: when it has seen another before it, by its
\* decision to take it, else when it wins the race for it.
<1>5. CASE PopLoadTop
  <2>1. /\ UNCHANGED <<top, bottom, taken>> /\ current' = current /\ owner.pc = "pop"
        /\ owner'.pc = popVerdict(top)
    BY <1>5, <1>a DEF PopLoadTop, TypeOK, current
  <2>2. end = bottom + 1
    BY <2>1 DEF end, undecided
  <2>3. CASE top < bottom
    <3>1. owner'.pc = "take" /\ end' = end - 1
      BY <1>c, <2>1, <2>2, <2>3 DEF popVerdict, end, undecided
    <3>2. end - top \in Nat \ {0} /\ end - 1 = bottom
      BY <1>c, <2>2, <2>3
    <3>3. /\ contents # <<>> /\ contents[Len(contents)] = get(current, bottom)
          /\ contents' = SubSeq(contents, 1, Len(contents) - 1)
      BY <1>b, <1>c, <2>1, <3>1, <3>2, ContentsShrink
    <3>4. takens' = [takens EXCEPT ![Owner] = Append(@, contents[Len(contents)])]
      BY <1>d, <2>1, <3>1, <3>3 DEF takens, takenBy
    <3>5. Abstract!Pop
      BY <3>3, <3>4 DEF Abstract!Pop, takens
    <3> QED BY <3>5 DEF Abstract!Next
  <2>4. CASE ~(top < bottom)
    <3>1. owner'.pc \in {"last", "restore"} /\ end' = end
      BY <1>c, <2>1, <2>2, <2>4 DEF popVerdict, end, undecided
    <3>2. contents' = contents
      BY <1>b, <1>c, <2>1, <3>1, ContentsKept
    <3>3. takens' = takens
      BY <2>1, <3>1 DEF takens, takenBy
    <3> QED BY <3>2, <3>3
  <2> QED BY <2>3, <2>4
<1>6. CASE Take
  <2>1. /\ UNCHANGED <<top, bottom>> /\ current' = current /\ owner.pc = "take" /\ owner'.pc = "idle"
        /\ taken' = [taken EXCEPT ![Owner] = Append(@, get(current, bottom))]
    BY <1>6 DEF Take, OwnerIdle, current
  <2>2. end' = end
    BY <2>1 DEF end, undecided
  <2>3. contents' = contents
    BY <1>b, <1>c, <2>1, <2>2, ContentsKept
  <2>4. takens' = takens
    BY <1>d, <2>1 DEF takens, takenBy
  <2> QED BY <2>3, <2>4
<1>7. CASE WinLast
  <2>1. /\ UNCHANGED <<bottom>> /\ current' = current /\ owner.pc = "race" /\ owner'.pc = "restore"
        /\ top' = top + 1 /\ top = owner.top
        /\ taken' = [taken EXCEPT ![Owner] = Append(@, owner.value)]
    BY <1>7, <1>a DEF WinLast, TypeOK, current
  <2>2. end = bottom + 1 /\ end' = end /\ top = bottom /\ owner.value = get(current, bottom)
    BY <1>a, <2>1 DEF end, undecided, OwnerInv
  <2>3. end - top \in Nat \ {0} /\ end - 1 = bottom /\ end - top = 1
    BY <1>c, <2>2
  <2>4. Len(contents) = 1
    BY <1>b, <2>3 DEF ContentsOK
  <2>5. /\ contents # <<>> /\ contents[Len(contents)] = get(current, bottom)
        /\ contents' = SubSeq(contents, 1, Len(contents) - 1)
    BY <1>b, <1>c, <2>1, <2>2, <2>3, <2>4, ContentsShrink
  <2>6. takens' = [takens EXCEPT ![Owner] = Append(@, contents[Len(contents)])]
    BY <1>d, <2>1, <2>2, <2>5 DEF takens, takenBy
  <2>7. Abstract!Pop
    BY <2>5, <2>6 DEF Abstract!Pop, takens
  <2> QED BY <2>7 DEF Abstract!Next
\* A thief takes the first value.
<1>8. ASSUME NEW s \in Stealer, StealerStep(s), ~StealWins(s)
      PROVE  UNCHANGED <<contents, takens>>
  <2>1. UNCHANGED <<top, bottom, owner, taken, arrays>>
    BY <1>8 DEF StealerStep, StealLoadTop, StealLoadBottom, StealLoadArray, StealRead, StealLoses
  <2> QED BY <2>1 DEF contents, takens, takenBy, current, end, undecided
<1>9. ASSUME NEW s \in Stealer, StealWins(s) PROVE Abstract!Next
  <2>1. /\ UNCHANGED <<bottom, owner>> /\ current' = current /\ end' = end
        /\ top' = top + 1 /\ top = stealer[s].top /\ stealer[s].pc = "claim"
        /\ taken' = [taken EXCEPT ![s] = Append(@, stealer[s].value)]
    BY <1>9 DEF StealWins, current, end, undecided
  <2>2. top < end /\ stealer[s].value = get(current, top)
    BY <1>a, <2>1 DEF StealInv, ThiefOK
  <2>3. end - top \in Nat \ {0}
    BY <1>c, <2>2
  <2>4. contents # <<>> /\ contents[1] = get(current, top) /\ contents' = Tail(contents)
    BY <1>b, <1>c, <2>1, <2>3, ContentsShrink
  <2>5. Head(contents) = stealer[s].value
    BY <2>2, <2>4
  <2>6. takens' = [takens EXCEPT ![s] = Append(@, Head(contents))]
    BY <1>d, <2>1, <2>5 DEF takens, takenBy
  <2>7. Abstract!Steal(s)
    BY <2>4, <2>6 DEF Abstract!Steal, takens
  <2> QED BY <2>7 DEF Abstract!Next
<1>10. CASE UNCHANGED vars
  BY <1>10 DEF vars, contents, takens, takenBy, current, end, undecided
<1> QED BY <1>1, <1>2, <1>3, <1>4, <1>5, <1>6, <1>7, <1>8, <1>9, <1>10 DEF Next, OwnerStep

\* Every value pushed is taken once, by the thread that gets it and at the end
\* of the deque it takes from, for any thieves and any number of pushes, though
\* cells are read while they are written and arrays outgrown during a steal.
THEOREM DequeIsTaskDeque == Spec => ImplementsDeque
<1>1. Init => Abstract!Init
  <2> SUFFICES ASSUME Init PROVE Abstract!Init
    OBVIOUS
  <2>1. ContentsOK /\ end - top = 0
    BY DequeInit, ContentsSeq DEF Init, end, undecided, OwnerIdle
  <2>2. contents = <<>>
    BY <2>1, EmptySeq DEF ContentsOK
  <2>3. takens = [t \in {Owner} \union Stealer |-> <<>>]
    BY DEF takens, takenBy, Init, OwnerIdle
  <2> QED BY <2>2, <2>3 DEF Abstract!Init, takens
<1>2. DequeInv /\ DequeInv' /\ [Next]_vars => [Abstract!Next]_Abstract!vars
  BY DequeStepMatches DEF Abstract!vars, takens
<1> QED BY <1>1, <1>2, DequeInvariant, PTL DEF Spec, ImplementsDeque, Abstract!Spec
=============================================================================
