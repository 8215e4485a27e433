------------------------------ MODULE UucStack ------------------------------
(***************************************************************************)
(* ValueStack as the interpreter uses it.  mem is every slot of head that  *)
(* has ever been written; popping moves size and erases nothing, so a slot *)
(* at or above size still holds the value popped from it.  How head grows  *)
(* is the subject of UucValues.                                            *)
(***************************************************************************)
EXTENDS Sequences, UucValueOps

EmptyStack == [mem |-> <<>>, size |-> 0]

\* A write to slot i (counted from 0), the first unwritten one included.
Store(mem, i, v) ==
  IF i < Len(mem) THEN [mem EXCEPT ![i + 1] = v] ELSE Append(mem, v)

StackPush(s, v) == [mem |-> Store(s.mem, s.size, v), size |-> s.size + 1]

\* Mutant of StackDrop: nothing keeps an empty stack from being popped.
DropUnchecked(s) == [s EXCEPT !.size = @ - 1]

\* stack_pop returns StackPeek(s) and leaves StackDrop(s): popping an empty
\* stack logs, returns null and leaves it empty.
StackPeek(s) == IF s.size = 0 THEN NullVal ELSE s.mem[s.size]
StackDrop(s) == [s EXCEPT !.size = IF s.size = 0 THEN 0 ELSE s.size - 1]

\* stack_set
StackSet(s, i, v) == [s EXCEPT !.mem = Store(s.mem, i, v)]

\* The type of a stack whose values are in V: every slot below size was written.
IsStack(s, V) == s \in [mem: Seq(V), size: Nat] /\ s.size <= Len(s.mem)
=============================================================================
