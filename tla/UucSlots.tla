------------------------------ MODULE UucSlots ------------------------------
(***************************************************************************)
(* The stack of UucStack as a machine of its own: what its calls do to it  *)
(* and what they return, with room for any number of values.               *)
(***************************************************************************)
EXTENDS UucStack

CONSTANT SlotValues   \* what is pushed and set; a slot never written has Anything

VARIABLES slots, got

vars == <<slots, got>>

Init == slots = EmptyStack /\ got = NullVal

Push(v) == slots' = StackPush(slots, v) /\ UNCHANGED got

Pop == slots' = StackDrop(slots) /\ got' = StackPeek(slots)

Peek == got' = StackPeek(slots) /\ UNCHANGED slots

Get(i) ==
  /\ i <= slots.size
  /\ got' = IF i < Len(slots.mem) THEN slots.mem[i + 1] ELSE Anything
  /\ UNCHANGED slots

Set(i, v) ==
  /\ i <= slots.size
  /\ slots' = StackSet(slots, i, v)
  /\ UNCHANGED got

Next ==
  \/ Pop \/ Peek
  \/ \E v \in SlotValues : Push(v)
  \/ \E i \in 0 .. slots.size : Get(i) \/ \E v \in SlotValues : Set(i, v)

Spec == Init /\ [][Next]_vars
=============================================================================
