----------------------------- MODULE TaskDeque -----------------------------
(***************************************************************************)
(* What a work-stealing deque promises: one owner adds and takes at one    *)
(* end, thieves take at the other, and whoever takes a value gets the one  *)
(* that is there at that moment; nobody else gets it again.                *)
(***************************************************************************)
EXTENDS Naturals, Sequences

CONSTANTS Owner, Stealer, Value

VARIABLES
  items,  \* from the thieves' end to the owner's
  taken   \* per thread, the values it has taken, in order

vars == <<items, taken>>

Init ==
  /\ items = <<>>
  /\ taken = [t \in {Owner} \union Stealer |-> <<>>]

Push(v) ==
  /\ items' = Append(items, v)
  /\ UNCHANGED taken

Pop ==
  /\ items # <<>>
  /\ items' = SubSeq(items, 1, Len(items) - 1)
  /\ taken' = [taken EXCEPT ![Owner] = Append(@, items[Len(items)])]

Steal(t) ==
  /\ items # <<>>
  /\ items' = Tail(items)
  /\ taken' = [taken EXCEPT ![t] = Append(@, Head(items))]

Next == (\E v \in Value : Push(v)) \/ Pop \/ \E t \in Stealer : Steal(t)

Spec == Init /\ [][Next]_vars
=============================================================================
