--------------------------- MODULE WorkStealDeque ---------------------------
(***************************************************************************)
(* The Chase-Lev deque of async_scheduler (src/deque/worksteal.zig): its   *)
(* owner pushes and pops at bottom, thieves steal at top, and a full array *)
(* is replaced by one twice as large while thieves may still read the old. *)
(*                                                                         *)
(* Each action holds one access to shared memory.  The owner alone stores  *)
(* bottom and array, so its loads of them cost no step.  The cells are     *)
(* plain memory that a thief may read while the owner writes: a write      *)
(* takes two steps and what is read in between is Torn.                    *)
(***************************************************************************)
EXTENDS Integers, Sequences

CONSTANTS
  Owner, Stealer,
  capacity,     \* of the first array
  None, Torn,
  MaxPushes,    \* bound: pushes begun
  AllocMayFail  \* whether growing may run out of memory

ASSUME DequeAssumption ==
  /\ capacity \in Nat \ {0}
  /\ Owner \notin Stealer
  /\ MaxPushes \in Nat
  /\ AllocMayFail \in BOOLEAN

VARIABLES
  top, bottom,
  arrays,   \* every array made, oldest first: the last is in use, the others retired
  owner, stealer,
  pushes,   \* history: pushes begun; the k-th push carries the value k
  taken     \* history: the values each thread took

vars == <<top, bottom, arrays, owner, stealer, pushes, taken>>

Value == 1..MaxPushes

\* @mod of the index by the array's capacity, its length here.
cell(index, arr) == (index % Len(arr)) + 1
get(arr, index) == arr[cell(index, arr)]

current == arrays[Len(arrays)]

OwnerIdle == [pc |-> "idle", top |-> 0, value |-> None]
StealerIdle == [pc |-> "idle", top |-> 0, array |-> 0, value |-> None]

Init ==
  /\ top = 0 /\ bottom = 0
  /\ arrays = <<[i \in 1..capacity |-> None]>>
  /\ owner = OwnerIdle
  /\ stealer = [s \in Stealer |-> StealerIdle]
  /\ pushes = 0
  /\ taken = [t \in {Owner} \union Stealer |-> <<>>]

-----------------------------------------------------------------------------
(* push() *)

Push ==
  /\ owner.pc = "idle" /\ pushes < MaxPushes
  /\ pushes' = pushes + 1
  /\ owner' = [owner EXCEPT !.pc = "push", !.value = pushes + 1]
  /\ UNCHANGED <<top, bottom, arrays, stealer, taken>>

isFull(size) == size >= Len(current)

PushLoadTop ==
  /\ owner.pc = "push"
  /\ owner' = [owner EXCEPT !.top = top, !.pc = IF isFull(bottom - top) THEN "grow" ELSE "put"]
  /\ UNCHANGED <<top, bottom, arrays, stealer, pushes, taken>>

\* grow: the live indices, from the top that push saw, move to a new array.
\* mutant: the cells are copied, not the indices
grownCells(arr, from) == arr \o [i \in 1..Len(arr) |-> None]
grown(arr, from) ==
  [i \in 1..(2 * Len(arr)) |->
     LET live == {k \in from..(bottom - 1) : (k % (2 * Len(arr))) + 1 = i}
     IN  IF live = {} THEN None ELSE get(arr, CHOOSE k \in live : TRUE)]

Grow ==
  /\ owner.pc = "grow"
  /\ arrays' = Append(arrays, grown(current, owner.top))
  /\ owner' = [owner EXCEPT !.pc = "put"]
  /\ UNCHANGED <<top, bottom, stealer, pushes, taken>>

\* push returns the error and leaves the deque as it was.
GrowFails ==
  /\ owner.pc = "grow" /\ AllocMayFail
  /\ owner' = OwnerIdle
  /\ UNCHANGED <<top, bottom, arrays, stealer, pushes, taken>>

store(index, value) ==
  arrays' = [arrays EXCEPT ![Len(arrays)][cell(index, current)] = value]

PutBegins ==
  /\ owner.pc = "put"
  /\ store(bottom, Torn)
  /\ owner' = [owner EXCEPT !.pc = "putting"]
  /\ UNCHANGED <<top, bottom, stealer, pushes, taken>>

PutEnds ==
  /\ owner.pc = "putting"
  /\ store(bottom, owner.value)
  /\ owner' = [owner EXCEPT !.pc = "publish"]
  /\ UNCHANGED <<top, bottom, stealer, pushes, taken>>

Publish ==
  /\ owner.pc = "publish"
  /\ bottom' = bottom + 1
  /\ owner' = OwnerIdle
  /\ UNCHANGED <<top, arrays, stealer, pushes, taken>>

-----------------------------------------------------------------------------
(* pop() *)

Pop ==
  /\ owner.pc = "idle"
  /\ bottom' = bottom - 1
  /\ owner' = [owner EXCEPT !.pc = "pop"]
  /\ UNCHANGED <<top, arrays, stealer, pushes, taken>>

\* Who the value at bottom belongs to, by the top that pop sees.
popVerdict(seen) ==
  IF seen < bottom THEN "take" ELSE IF seen = bottom THEN "last" ELSE "restore"

PopLoadTop ==
  /\ owner.pc = "pop"
  /\ owner' = [owner EXCEPT !.top = top, !.pc = popVerdict(top)]
  /\ UNCHANGED <<top, bottom, arrays, stealer, pushes, taken>>

Take ==
  /\ owner.pc = "take"
  /\ taken' = [taken EXCEPT ![Owner] = Append(@, get(current, bottom))]
  /\ owner' = OwnerIdle
  /\ UNCHANGED <<top, bottom, arrays, stealer, pushes>>

ReadLast ==
  /\ owner.pc = "last"
  /\ owner' = [owner EXCEPT !.pc = "race", !.value = get(current, bottom)]
  /\ UNCHANGED <<top, bottom, arrays, stealer, pushes, taken>>

WinLast ==
  /\ owner.pc = "race" /\ top = owner.top
  /\ top' = top + 1
  /\ taken' = [taken EXCEPT ![Owner] = Append(@, owner.value)]
  /\ owner' = [owner EXCEPT !.pc = "restore"]
  /\ UNCHANGED <<bottom, arrays, stealer, pushes>>

\* The weak compare-and-swap may fail though top has not moved.
LoseLast ==
  /\ owner.pc = "race"
  /\ owner' = [owner EXCEPT !.pc = "restore", !.value = None]
  /\ UNCHANGED <<top, bottom, arrays, stealer, pushes, taken>>

Restore ==
  /\ owner.pc = "restore"
  /\ bottom' = bottom + 1
  /\ owner' = IF owner.value = None THEN [OwnerIdle EXCEPT !.pc = "null"] ELSE OwnerIdle
  /\ UNCHANGED <<top, arrays, stealer, pushes, taken>>

\* pop returns null.
PopNull ==
  /\ owner.pc = "null"
  /\ owner' = OwnerIdle
  /\ UNCHANGED <<top, bottom, arrays, stealer, pushes, taken>>

-----------------------------------------------------------------------------
(* steal() *)

StealLoadTop(s) ==
  /\ stealer[s].pc = "idle"
  /\ stealer' = [stealer EXCEPT ![s].pc = "bottom", ![s].top = top]
  /\ UNCHANGED <<top, bottom, arrays, owner, pushes, taken>>

StealLoadBottom(s) ==
  /\ stealer[s].pc = "bottom"
  /\ stealer' = [stealer EXCEPT ![s] =
       IF @.top >= bottom THEN StealerIdle ELSE [@ EXCEPT !.pc = "array"]]
  /\ UNCHANGED <<top, bottom, arrays, owner, pushes, taken>>

StealLoadArray(s) ==
  /\ stealer[s].pc = "array"
  /\ stealer' = [stealer EXCEPT ![s].pc = "read", ![s].array = Len(arrays)]
  /\ UNCHANGED <<top, bottom, arrays, owner, pushes, taken>>

StealRead(s) ==
  /\ stealer[s].pc = "read"
  /\ stealer' = [stealer EXCEPT ![s].pc = "claim",
                                ![s].value = get(arrays[stealer[s].array], stealer[s].top)]
  /\ UNCHANGED <<top, bottom, arrays, owner, pushes, taken>>

StealWins(s) ==
  /\ stealer[s].pc = "claim" /\ top = stealer[s].top
  /\ top' = top + 1
  /\ taken' = [taken EXCEPT ![s] = Append(@, stealer[s].value)]
  /\ stealer' = [stealer EXCEPT ![s] = StealerIdle]
  /\ UNCHANGED <<bottom, arrays, owner, pushes>>

StealLoses(s) ==
  /\ stealer[s].pc = "claim"
  /\ stealer' = [stealer EXCEPT ![s] = StealerIdle]
  /\ UNCHANGED <<top, bottom, arrays, owner, pushes, taken>>

-----------------------------------------------------------------------------

OwnerStep ==
  \/ Push \/ PushLoadTop \/ Grow \/ GrowFails \/ PutBegins \/ PutEnds \/ Publish
  \/ Pop \/ PopLoadTop \/ Take \/ ReadLast \/ WinLast \/ LoseLast \/ Restore \/ PopNull

StealerStep(s) ==
  \/ StealLoadTop(s) \/ StealLoadBottom(s) \/ StealLoadArray(s) \/ StealRead(s)
  \/ StealWins(s) \/ StealLoses(s)

Next == OwnerStep \/ \E s \in Stealer : StealerStep(s)

Spec == Init /\ [][Next]_vars

-----------------------------------------------------------------------------
(* Properties. *)

Content == Value \union {None, Torn}

\* Types; top runs past bottom by one at most, while pop looks at an empty deque.
TypeOK ==
  /\ top \in Nat /\ bottom \in Int /\ top <= bottom + 1
  /\ arrays \in Seq(Seq(Content)) \ {<<>>}
  /\ \A k \in 1..Len(arrays) : Len(arrays[k]) >= capacity
  /\ owner \in [pc : {"idle", "push", "grow", "put", "putting", "publish", "pop", "take",
                      "last", "race", "restore", "null"}, top : Nat, value : Content]
  /\ stealer \in [Stealer -> [pc : {"idle", "bottom", "array", "read", "claim"}, top : Nat,
                              array : 0..Len(arrays), value : Content]]
  /\ pushes \in 0..MaxPushes
  /\ taken \in [{Owner} \union Stealer -> Seq(Content)]

\* The live values.  While pop has lowered bottom and not decided, the value
\* there is anybody's; from its decision to take it, it is the owner's.
undecided == owner.pc \in {"pop", "last", "race", "restore"}
end == IF undecided THEN bottom + 1 ELSE bottom
contents == [i \in 1..(end - top) |-> get(current, top + i - 1)]

takenBy(t) ==
  IF t = Owner /\ owner.pc = "take" THEN Append(taken[t], get(current, bottom)) ELSE taken[t]

\* Every value pushed is taken once, at the end it should be, by the thread that
\* gets it: torn reads and arrays outgrown in the middle of a steal are harmless.
Abstract == INSTANCE TaskDeque WITH
  items <- contents, taken <- [t \in {Owner} \union Stealer |-> takenBy(t)]

ImplementsDeque == Abstract!Spec
=============================================================================
