----------------------------- MODULE UucValues ------------------------------
(***************************************************************************)
(* A ValueStack in memory: head, the block that holds its slots, grown by  *)
(* doubling a uint32_t capacity.  A slot nothing was stored in holds       *)
(* Anything.  status is "ok", "exit" (an index check called exit(1)) or    *)
(* "wild" (a slot past the end of head was read or written).               *)
(***************************************************************************)
EXTENDS UucStack, FiniteSets

CONSTANTS InitCapacity,   \* 32: uuc_vm_init
          SlotValues      \* what is pushed and set

ASSUME ValuesAssumption ==
  /\ InitCapacity \in 1 .. WordMod - 1
  /\ Anything \notin SlotValues \cup {NullVal}

VARIABLES head, capacity, size,
          got,      \* what the last pop, peek or get returned
          status

vars == <<head, capacity, size, got, status>>

Init ==
  /\ head = [i \in 1 .. InitCapacity |-> Anything]
  /\ capacity = InitCapacity
  /\ size = 0
  /\ got = NullVal
  /\ status = "ok"

\* Mutant of Realloc: the new block is not given what the old one held.
FreshBlock(block, n) == [i \in 1 .. n |-> Anything]

\* reallocate: what both blocks have room for is kept; none at all for n = 0.
Realloc(block, n) == [i \in 1 .. n |-> IF i <= Len(block) THEN block[i] ELSE Anything]

\* stack->capacity * 2
Doubled(n) == (2 * n) % WordMod

\* head[i] = v
Write(block, i, v) ==
  IF i < Len(block) THEN head' = [block EXCEPT ![i + 1] = v] /\ status' = "ok"
                    ELSE head' = block /\ status' = "wild"

Push(v) ==
  /\ status = "ok"
  /\ IF size = capacity
       THEN capacity' = Doubled(capacity) /\ Write(Realloc(head, Doubled(capacity)), size, v)
       ELSE UNCHANGED capacity /\ Write(head, size, v)
  /\ size' = size + 1
  /\ UNCHANGED got

\* Mutant of Top: the slot past the top.
PastTop == IF size = 0 THEN NullVal ELSE head[IF size < Len(head) THEN size + 1 ELSE size]

Top == IF size = 0 THEN NullVal ELSE head[size]

Pop ==
  /\ status = "ok"
  /\ got' = Top
  /\ size' = IF size = 0 THEN 0 ELSE size - 1
  /\ UNCHANGED <<head, capacity, status>>

Peek ==
  /\ status = "ok"
  /\ got' = Top
  /\ UNCHANGED <<head, capacity, size, status>>

\* Mutant of OutOfRange: one index further.
FarOutOfRange(i) == i > size + 1

\* The check of stack_get and stack_set.
OutOfRange(i) == i > size

Get(i) ==
  /\ status = "ok"
  /\ IF OutOfRange(i) THEN status' = "exit" /\ UNCHANGED got
     ELSE IF i >= Len(head) THEN status' = "wild" /\ UNCHANGED got
     ELSE got' = head[i + 1] /\ UNCHANGED status
  /\ UNCHANGED <<head, capacity, size>>

Set(i, v) ==
  /\ status = "ok"
  /\ IF OutOfRange(i) THEN status' = "exit" /\ UNCHANGED head ELSE Write(head, i, v)
  /\ UNCHANGED <<capacity, size, got>>

Stopped == status # "ok" /\ UNCHANGED vars

Indexes == 0 .. size + 1

Next ==
  \/ Pop \/ Peek \/ Stopped
  \/ \E v \in SlotValues : Push(v)
  \/ \E i \in Indexes : Get(i) \/ \E v \in SlotValues : Set(i, v)

Spec == Init /\ [][Next]_vars

-----------------------------------------------------------------------------
(***************************************************************************)
(* Type invariant; head is as large as capacity says, and of it a prefix   *)
(* that holds every slot below size was written.                           *)
(***************************************************************************)
Written == {i \in 1 .. Len(head) : head[i] # Anything}

TypeOK ==
  /\ head \in Seq(SlotValues \cup {Anything}) /\ Len(head) = capacity
  /\ Written = 1 .. Cardinality(Written)
  /\ status # "wild" => size <= Cardinality(Written)
  /\ got \in SlotValues \cup {NullVal, Anything}
  /\ status \in {"ok", "exit", "wild"}

(***************************************************************************)
(* As long as every access is in bounds, the calls do to the stack what    *)
(* UucStack says, however often head was moved in between.                 *)
(***************************************************************************)
Slots ==
  INSTANCE UucSlots WITH
    slots <- [mem |-> SubSeq(head, 1, Cardinality(Written)), size |-> size]

KeepsSlots == Slots!Init /\ [][status' # "wild" => [Slots!Next]_(Slots!vars)]_vars

(***************************************************************************)
(* The index check of stack_get and stack_set lets the size itself pass,   *)
(* which is in bounds unless the stack is full; nothing else leaves head,  *)
(* until capacity can no longer be doubled.                                *)
(***************************************************************************)
WildWhenFull == status = "wild" => size >= capacity
=============================================================================
