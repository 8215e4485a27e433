--------------------------- MODULE UucArrayProofs ---------------------------
(***************************************************************************)
(* The two arrays that grow.  The stack in memory, for every first         *)
(* capacity, width of a word and set of values: its types, where it can go *)
(* wild, and that until then it is the stack of slots.  A slice of code,   *)
(* for every first capacity: only a long run of bytes without a constant   *)
(* is written past what is allocated for it.                               *)
(***************************************************************************)
EXTENDS UucValues, UucSlice, FiniteSetTheorems, SequenceTheorems, TLAPS

Held == SlotValues \cup {Anything}

\* The first n slots of block were written, and no others.
Prefix(block, n) ==
  /\ n \in 0 .. Len(block)
  /\ \A i \in 1 .. Len(block) : block[i] # Anything <=> i <= n

\* How many slots of head were written.
Count == Cardinality(Written)

IInv == TypeOK /\ size \in Nat /\ WildWhenFull

-----------------------------------------------------------------------------
(***************************************************************************)
(* Blocks.                                                                 *)
(***************************************************************************)
\* There are n slots from 1 to n.
LEMMA UpTo ==
  ASSUME NEW n \in Nat
  PROVE  IsFiniteSet(1 .. n) /\ Cardinality(1 .. n) = n
<1>1. 1 \in Int /\ n \in Int
  OBVIOUS
<1>2. /\ IsFiniteSet(1 .. n)
      /\ Cardinality(1 .. n) = IF 1 > n THEN 0 ELSE n - 1 + 1
  BY <1>1, FS_Interval
<1>3. (IF 1 > n THEN 0 ELSE n - 1 + 1) = n
  OBVIOUS
<1> QED
  BY <1>2, <1>3

\* Where a prefix was written, its length is how many slots were.
LEMMA PrefixCounts ==
  ASSUME NEW block \in Seq(Held), NEW n, Prefix(block, n)
  PROVE  LET W == {i \in 1 .. Len(block) : block[i] # Anything}
         IN  W = 1 .. n /\ Cardinality(W) = n
<1>1. n \in Nat /\ Len(block) \in Nat
  BY DEF Prefix
<1>2. {i \in 1 .. Len(block) : block[i] # Anything} = 1 .. n
  BY <1>1 DEF Prefix
<1>3. Cardinality(1 .. n) = n
  BY <1>1, UpTo
<1> QED
  BY <1>2, <1>3

\* The type invariant has a prefix written.
LEMMA WrittenPrefix ==
  ASSUME TypeOK
  PROVE  Prefix(head, Count)
<1>1. head \in Seq(Held) /\ Len(head) \in Nat
  BY DEF TypeOK, Held
<1>2. Written \subseteq 1 .. Len(head) /\ IsFiniteSet(1 .. Len(head))
  BY <1>1, UpTo DEF Written
<1>3. IsFiniteSet(Written) /\ Cardinality(Written) <= Cardinality(1 .. Len(head))
  BY <1>2, FS_Subset
<1>4. Count \in Nat /\ Count <= Len(head)
  <2>1. Cardinality(1 .. Len(head)) = Len(head)
    BY <1>1, UpTo
  <2>2. Cardinality(Written) \in Nat
    BY <1>3, FS_CardinalityType
  <2> QED
    BY <1>3, <2>1, <2>2 DEF Count
<1>5. \A i \in 1 .. Len(head) : head[i] # Anything <=> i <= Count
  BY <1>1, <1>4 DEF TypeOK, Written, Count
<1> QED
  BY <1>1, <1>4, <1>5 DEF Prefix

\* A value stored within the prefix or right behind it leaves a prefix written.
LEMMA StorePrefix ==
  ASSUME NEW block \in Seq(Held), NEW n, Prefix(block, n),
         NEW i \in 0 .. n, i < Len(block), NEW v \in SlotValues
  PROVE  LET stored == [block EXCEPT ![i + 1] = v]
         IN  /\ stored \in Seq(Held)
             /\ Len(stored) = Len(block)
             /\ Prefix(stored, IF i = n THEN n + 1 ELSE n)
<1> DEFINE stored == [block EXCEPT ![i + 1] = v]
<1>1. n \in Nat /\ Len(block) \in Nat /\ i \in Nat /\ i + 1 \in 1 .. Len(block) /\ n <= Len(block)
  BY DEF Prefix
<1>2. v \in Held /\ v # Anything
  BY ValuesAssumption DEF Held
<1>3. /\ stored \in Seq(Held) /\ Len(stored) = Len(block)
      /\ \A j \in 1 .. Len(block) : stored[j] = IF j = i + 1 THEN v ELSE block[j]
  BY <1>1, <1>2, ExceptSeq
<1>4. \A j \in 1 .. Len(stored) : stored[j] # Anything <=> j <= (IF i = n THEN n + 1 ELSE n)
  BY <1>1, <1>2, <1>3 DEF Prefix
<1> QED
  BY <1>1, <1>3, <1>4 DEF Prefix

\* A reallocated block holds of the prefix what it has room for.
LEMMA ReallocPrefix ==
  ASSUME NEW block \in Seq(Held), NEW n, Prefix(block, n), NEW m \in Nat
  PROVE  LET new == Realloc(block, m)
         IN  /\ new \in Seq(Held)
             /\ Len(new) = m
             /\ Prefix(new, IF n <= m THEN n ELSE m)
             /\ \A i \in 1 .. m : i <= n => new[i] = block[i]
<1> DEFINE new == Realloc(block, m)
<1>1. n \in Nat /\ Len(block) \in Nat /\ n <= Len(block)
  BY DEF Prefix
<1>2. \A i \in 1 .. m : new[i] = IF i <= Len(block) THEN block[i] ELSE Anything
  BY DEF Realloc
<1>3. new \in [1 .. m -> Held]
  <2>1. \A i \in 1 .. m : (IF i <= Len(block) THEN block[i] ELSE Anything) \in Held
    BY <1>1 DEF Held
  <2> QED
    BY <2>1 DEF Realloc
<1>4. new \in Seq(Held) /\ Len(new) = m
  BY <1>3
<1>5. \A i \in 1 .. m : new[i] # Anything <=> i <= n
  BY <1>1, <1>2 DEF Prefix
<1> QED
  BY <1>1, <1>2, <1>4, <1>5 DEF Prefix
-----------------------------------------------------------------------------
(***************************************************************************)
(* The steps.                                                              *)
(***************************************************************************)
\* What is to be shown of a step, given how far the slots were written after it.
LEMMA NextIInv ==
  ASSUME NEW n, head' \in Seq(Held), Prefix(head', n), Len(head') = capacity',
         size' \in Nat, status' # "wild" => size' <= n,
         got' \in SlotValues \cup {NullVal, Anything},
         status' \in {"ok", "exit", "wild"}, WildWhenFull'
  PROVE  IInv' /\ Count' = n
<1>1. Written' = 1 .. n /\ Cardinality(Written') = n
  BY PrefixCounts DEF Written
<1> QED
  BY <1>1 DEF IInv, TypeOK, Held, Count

LEMMA InitIInv == Init => IInv
<1> SUFFICES ASSUME Init
             PROVE  IInv
  OBVIOUS
<1>1. InitCapacity \in Nat
  BY ValuesAssumption, WordModAssumption
<1>2. head \in Seq(Held) /\ Len(head) = InitCapacity /\ \A i \in 1 .. InitCapacity : head[i] = Anything
  BY <1>1 DEF Init, Held
<1>3. Prefix(head, 0)
  BY <1>1, <1>2 DEF Prefix
<1>4. Written = 1 .. 0 /\ Cardinality(Written) = 0
  BY <1>2, <1>3, PrefixCounts DEF Written
<1> QED
  BY <1>1, <1>2, <1>4 DEF Init, IInv, TypeOK, WildWhenFull, Held

\* What a capacity is doubled to is one, though it may be less.
LEMMA DoubledIsNat == ASSUME NEW n \in Nat PROVE Doubled(n) \in Nat
  BY WordModAssumption DEF Doubled

\* What the invariant says of an "ok" stack.
LEMMA OkFacts ==
  ASSUME IInv, status = "ok"
  PROVE  /\ head \in Seq(Held) /\ Len(head) = capacity /\ capacity \in Nat
         /\ Count \in Nat /\ Count <= capacity /\ size \in 0 .. Count
         /\ Prefix(head, Count)
<1>1. Prefix(head, Count)
  BY WrittenPrefix DEF IInv
<1>2. head \in Seq(Held) /\ Len(head) = capacity
  BY DEF IInv, TypeOK, Held
<1> QED
  BY <1>1, <1>2 DEF IInv, TypeOK, Prefix, Count

\* A write at an index up to the prefix's end is in bounds, or wild.
LEMMA WriteFacts ==
  ASSUME NEW block \in Seq(Held), NEW n, Prefix(block, n), NEW i \in 0 .. n,
         NEW v \in SlotValues, Write(block, i, v)
  PROVE  /\ head' \in Seq(Held) /\ Len(head') = Len(block)
         /\ i < Len(block) => /\ status' = "ok" /\ head' = [block EXCEPT ![i + 1] = v]
                               /\ Prefix(head', IF i = n THEN n + 1 ELSE n)
         /\ i >= Len(block) => status' = "wild" /\ head' = block /\ Prefix(head', n)
<1>1. CASE i < Len(block)
  BY <1>1, StorePrefix DEF Write
<1>2. CASE ~ (i < Len(block))
  BY <1>2 DEF Write, Prefix
<1> QED
  BY <1>1, <1>2 DEF Prefix

-----------------------------------------------------------------------------
(***************************************************************************)
(* Slots.                                                                  *)
(***************************************************************************)
Mem(block, n) == SubSeq(block, 1, n)

\* The slots a prefix stands for.
LEMMA MemFacts ==
  ASSUME NEW block \in Seq(Held), NEW n, Prefix(block, n)
  PROVE  /\ Mem(block, n) \in Seq(SlotValues)
         /\ Len(Mem(block, n)) = n
         /\ \A i \in 1 .. n : Mem(block, n)[i] = block[i]
<1>1. n \in Nat /\ n <= Len(block) /\ Len(block) \in Nat
  BY DEF Prefix
<1>2. \A i \in 1 .. n : block[i] \in SlotValues
  BY <1>1 DEF Prefix, Held
<1>3. /\ SubSeq(block, 1, n) \in Seq(SlotValues)
      /\ Len(SubSeq(block, 1, n)) = IF 1 <= n THEN n - 1 + 1 ELSE 0
      /\ \A i \in 1 .. n - 1 + 1 : SubSeq(block, 1, n)[i] = block[1 + i - 1]
  <2> HIDE DEF Held
  <2> QED
    BY ONLY <1>1, <1>2, SubSeqProperties
<1> QED
  BY <1>1, <1>3 DEF Mem

\* A store in memory is a store in the slots.
LEMMA StoreMem ==
  ASSUME NEW block \in Seq(Held), NEW n, Prefix(block, n),
         NEW i \in 0 .. n, i < Len(block), NEW v \in SlotValues
  PROVE  Mem([block EXCEPT ![i + 1] = v], IF i = n THEN n + 1 ELSE n) = Store(Mem(block, n), i, v)
<1> DEFINE stored == [block EXCEPT ![i + 1] = v]
           m == IF i = n THEN n + 1 ELSE n
           slots == Store(Mem(block, n), i, v)
<1>1. n \in Nat /\ n <= Len(block) /\ Len(block) \in Nat /\ i \in Nat /\ i + 1 \in 1 .. Len(block)
  BY DEF Prefix
<1>2. /\ stored \in Seq(Held) /\ Len(stored) = Len(block) /\ Prefix(stored, m)
      /\ \A j \in 1 .. Len(block) : stored[j] = IF j = i + 1 THEN v ELSE block[j]
  BY <1>1, StorePrefix, ExceptSeq DEF Held
<1>3. /\ Mem(stored, m) \in Seq(SlotValues) /\ Len(Mem(stored, m)) = m
      /\ \A j \in 1 .. m : Mem(stored, m)[j] = stored[j]
  BY <1>2, MemFacts
<1>4. /\ Mem(block, n) \in Seq(SlotValues) /\ Len(Mem(block, n)) = n
      /\ \A j \in 1 .. n : Mem(block, n)[j] = block[j]
  BY MemFacts
<1>5. /\ slots \in Seq(SlotValues) /\ Len(slots) = m
      /\ \A j \in 1 .. m : slots[j] = IF j = i + 1 THEN v ELSE block[j]
  <2>1. CASE i < n
    <3>1. slots = [Mem(block, n) EXCEPT ![i + 1] = v] /\ i + 1 \in 1 .. Len(Mem(block, n)) /\ m = n
      BY <1>1, <1>4, <2>1 DEF Store
    <3> QED
      BY <1>4, <3>1, ExceptSeq
  <2>2. CASE i = n
    <3>1. slots = Append(Mem(block, n), v) /\ m = n + 1
      BY <1>1, <1>4, <2>2 DEF Store
    <3> QED
      BY <1>1, <1>4, <2>2, <3>1, AppendProperties
  <2> QED
    BY <1>1, <2>1, <2>2
<1>6. m \in Nat /\ m <= Len(block)
  BY <1>1
<1> HIDE DEF stored, m, slots
<1>7. \A j \in 1 .. m : Mem(stored, m)[j] = slots[j]
  BY <1>1, <1>2, <1>3, <1>5, <1>6
<1>8. Mem(stored, m) = slots
  BY <1>3, <1>5, <1>7, SeqEqual
<1> QED
  BY <1>8 DEF stored, m, slots

\* A block that was given more room holds the same slots.
LEMMA ReallocMem ==
  ASSUME NEW block \in Seq(Held), NEW n, Prefix(block, n), NEW m \in Nat, n <= m
  PROVE  Mem(Realloc(block, m), n) = Mem(block, n)
<1>1. n \in Nat
  BY DEF Prefix
<1>2. /\ Realloc(block, m) \in Seq(Held) /\ Prefix(Realloc(block, m), n)
      /\ \A i \in 1 .. n : Realloc(block, m)[i] = block[i]
  <2>1. /\ Realloc(block, m) \in Seq(Held)
        /\ Prefix(Realloc(block, m), IF n <= m THEN n ELSE m)
        /\ \A i \in 1 .. m : i <= n => Realloc(block, m)[i] = block[i]
    BY ReallocPrefix
  <2>2. \A i \in 1 .. n : i \in 1 .. m /\ i <= n
    BY <1>1
  <2> QED
    BY <2>1, <2>2
<1>3. /\ Mem(Realloc(block, m), n) \in Seq(SlotValues) /\ Len(Mem(Realloc(block, m), n)) = n
      /\ \A i \in 1 .. n : Mem(Realloc(block, m), n)[i] = Realloc(block, m)[i]
  BY <1>2, MemFacts
<1>4. /\ Mem(block, n) \in Seq(SlotValues) /\ Len(Mem(block, n)) = n
      /\ \A i \in 1 .. n : Mem(block, n)[i] = block[i]
  BY MemFacts
<1>5. \A i \in 1 .. n : Mem(Realloc(block, m), n)[i] = Mem(block, n)[i]
  BY <1>2, <1>3, <1>4
<1> QED
  BY <1>3, <1>4, <1>5, SeqEqual

-----------------------------------------------------------------------------
(***************************************************************************)
(* The calls.  Each keeps the invariant and, unless it went wild, is a     *)
(* step of the slots or leaves them alone.                                 *)
(***************************************************************************)
Refines == status' # "wild" => [Slots!Next]_(Slots!vars)

\* The slots that head, as far as it is written, and size stand for.
Shape == [mem |-> Mem(head, Count), size |-> size]

ValueAt(i) == IF i < Len(Shape.mem) THEN Shape.mem[i + 1] ELSE Anything

\* The calls of the slots, in terms of the stack's own operators.
LEMMA SlotCalls ==
  ASSUME NEW v, NEW i
  PROVE  /\ Shape' = StackPush(Shape, v) /\ got' = got => Slots!Push(v)
         /\ Shape' = StackDrop(Shape) /\ got' = StackPeek(Shape) => Slots!Pop
         /\ Shape' = Shape /\ got' = StackPeek(Shape) => Slots!Peek
         /\ (i <= size /\ Shape' = Shape /\ got' = ValueAt(i)) => Slots!Get(i)
         /\ i <= size /\ Shape' = StackSet(Shape, i, v) /\ got' = got => Slots!Set(i, v)
<1>1. Shape = [mem |-> SubSeq(head, 1, Cardinality(Written)), size |-> size]
  BY DEF Shape, Mem, Count
<1>2. Shape' = [mem |-> SubSeq(head, 1, Cardinality(Written)), size |-> size]'
  BY DEF Shape, Mem, Count
<1>3. Shape.size = size
  BY DEF Shape
<1>4. Shape' = StackPush(Shape, v) /\ got' = got => Slots!Push(v)
  BY <1>1, <1>2 DEF Slots!Push, StackPush, Store, Slots!StackPush, Slots!Store
<1>5. Shape' = StackDrop(Shape) /\ got' = StackPeek(Shape) => Slots!Pop
  BY <1>1, <1>2 DEF Slots!Pop, StackDrop, Slots!StackDrop,
                    StackPeek, Slots!StackPeek, NullVal, Slots!NullVal
<1>6. Shape' = Shape /\ got' = StackPeek(Shape) => Slots!Peek
  BY <1>1, <1>2 DEF Slots!Peek, StackPeek, Slots!StackPeek, NullVal, Slots!NullVal
<1>7. (i <= size /\ Shape' = Shape /\ got' = ValueAt(i)) => Slots!Get(i)
  BY <1>1, <1>2, <1>3 DEF Slots!Get, ValueAt, Anything, Slots!Anything
<1>8. i <= size /\ Shape' = StackSet(Shape, i, v) /\ got' = got => Slots!Set(i, v)
  BY <1>1, <1>2, <1>3 DEF Slots!Set, StackSet, Store, Slots!StackSet, Slots!Store
<1> QED
  BY <1>4, <1>5, <1>6, <1>7, <1>8

LEMMA PushStep ==
  ASSUME IInv, NEW v \in SlotValues, Push(v)
  PROVE  IInv' /\ Refines
<1> DEFINE block == IF size = capacity THEN Realloc(head, Doubled(capacity)) ELSE head
           n == IF Count <= capacity' THEN Count ELSE capacity'
<1>1. /\ head \in Seq(Held) /\ Len(head) = capacity /\ capacity \in Nat
      /\ Count \in Nat /\ Count <= capacity /\ size \in 0 .. Count /\ Prefix(head, Count)
  BY OkFacts DEF Push
<1>2. /\ Write(block, size, v) /\ size' = size + 1 /\ got' = got
      /\ capacity' = IF size = capacity THEN Doubled(capacity) ELSE capacity
  BY DEF Push
<1>3. /\ capacity' \in Nat /\ block \in Seq(Held) /\ Len(block) = capacity' /\ Prefix(block, n)
      /\ Count <= capacity' => Mem(block, Count) = Mem(head, Count)
  <2>1. CASE size = capacity
    <3>1. capacity' \in Nat /\ block = Realloc(head, capacity')
      BY <1>1, <1>2, <2>1, DoubledIsNat
    <3> QED
      BY <1>1, <3>1, ReallocPrefix, ReallocMem
  <2>2. CASE size # capacity
    BY <1>1, <1>2, <2>2
  <2> QED
    BY <2>1, <2>2
<1> HIDE DEF block, n
<1>4. n \in Nat /\ (size < capacity' => n = Count /\ Count <= capacity') /\ size \in Nat
  <2>1. size < capacity' => Count <= capacity'
    BY <1>1, <1>2, <1>3
  <2> QED
    BY <1>1, <1>3, <2>1 DEF n
<1>5. got \in SlotValues \cup {NullVal, Anything}
  BY DEF IInv, TypeOK
<1>6. CASE size < capacity'
  <2> DEFINE m == IF size = Count THEN Count + 1 ELSE Count
  <2>1. /\ head' = [block EXCEPT ![size + 1] = v] /\ status' = "ok"
        /\ head' \in Seq(Held) /\ Len(head') = capacity' /\ Prefix(head', m)
    BY <1>1, <1>2, <1>3, <1>4, <1>6, WriteFacts
  <2>2. m \in Nat /\ size' <= m
    BY <1>1, <1>2
  <2>3. IInv' /\ Count' = m
    <3> HIDE DEF m
    <3>1. WildWhenFull'
      BY <2>1 DEF WildWhenFull
    <3>2. got' \in SlotValues \cup {NullVal, Anything} /\ status' \in {"ok", "exit", "wild"}
      BY <1>2, <1>5, <2>1
    <3>3. size' \in Nat
      BY <1>2, <1>4
    <3> QED
      BY <2>1, <2>2, <3>1, <3>2, <3>3, NextIInv
  <2>4. Mem(head', m) = Store(Mem(head, Count), size, v)
    <3>1. Prefix(block, Count) /\ Mem(block, Count) = Mem(head, Count) /\ size < Len(block)
      BY <1>3, <1>4, <1>6
    <3>2. block \in Seq(Held) /\ Prefix(block, Count) /\ size \in 0 .. Count
      BY <1>1, <1>3, <3>1
    <3>3. size < Len(block)
      BY <3>1
    <3>4. Mem([block EXCEPT ![size + 1] = v], m) = Store(Mem(block, Count), size, v)
      BY <3>2, <3>3, StoreMem
    <3> QED
      BY <2>1, <3>1, <3>4
  <2>5. Slots!Push(v)
    BY <1>2, <2>3, <2>4, SlotCalls DEF StackPush, Shape
  <2> QED
    BY <2>3, <2>5 DEF Refines, Slots!Next
<1>7. CASE ~ (size < capacity')
  <2>1. size \in 0 .. n \/ size > n
    BY <1>4
  <2>2. status' = "wild" /\ head' = block
    BY <1>1, <1>2, <1>3, <1>7 DEF Write
  <2>3. IInv'
    BY <1>2, <1>3, <1>4, <1>5, <1>7, <2>2, NextIInv DEF WildWhenFull
  <2> QED
    BY <2>2, <2>3 DEF Refines
<1> QED
  BY <1>6, <1>7

\* What Pop and Peek return is the top of the slots.
LEMMA TopIsPeek ==
  ASSUME IInv, status = "ok"
  PROVE  /\ Top = StackPeek([mem |-> Mem(head, Count), size |-> size])
         /\ Top \in SlotValues \cup {NullVal}
<1>1. /\ head \in Seq(Held) /\ Count \in Nat /\ size \in 0 .. Count /\ Prefix(head, Count)
  BY OkFacts
<1>2. /\ Mem(head, Count) \in Seq(SlotValues) /\ Len(Mem(head, Count)) = Count
      /\ \A i \in 1 .. Count : Mem(head, Count)[i] = head[i]
  BY <1>1, MemFacts
<1>3. size # 0 => head[size] = Mem(head, Count)[size] /\ head[size] \in SlotValues
  BY <1>1, <1>2
<1> QED
  BY <1>3 DEF Top, StackPeek

LEMMA PopPeekStep ==
  ASSUME IInv, Pop \/ Peek
  PROVE  IInv' /\ Refines
<1>1. /\ head \in Seq(Held) /\ Len(head) = capacity /\ capacity \in Nat
      /\ Count \in Nat /\ size \in 0 .. Count /\ Prefix(head, Count) /\ status = "ok"
  BY OkFacts DEF Pop, Peek
<1>2. /\ head' = head /\ capacity' = capacity /\ status' = status /\ got' = Top
      /\ size' = size \/ size' = IF size = 0 THEN 0 ELSE size - 1
  BY DEF Pop, Peek
<1>3. Top \in SlotValues \cup {NullVal}
  BY <1>1, TopIsPeek
<1>4. size' \in Nat /\ size' <= Count
  BY <1>1, <1>2
<1>5. IInv' /\ Count' = Count
  BY <1>1, <1>2, <1>3, <1>4, NextIInv DEF WildWhenFull
<1>6. CASE Pop
  <2>1. Slots!Pop
    BY <1>1, <1>2, <1>5, <1>6, TopIsPeek, SlotCalls DEF Pop, StackDrop, Shape
  <2> QED
    BY <1>5, <2>1 DEF Refines, Slots!Next
<1>7. CASE Peek
  <2>1. Slots!Peek
    BY <1>1, <1>2, <1>5, <1>7, TopIsPeek, SlotCalls DEF Peek, Shape
  <2> QED
    BY <1>5, <2>1 DEF Refines, Slots!Next
<1> QED
  BY <1>6, <1>7

LEMMA GetStep ==
  ASSUME IInv, NEW i \in Indexes, Get(i)
  PROVE  IInv' /\ Refines
<1>1. /\ head \in Seq(Held) /\ Len(head) = capacity /\ capacity \in Nat
      /\ Count \in Nat /\ Count <= capacity /\ size \in 0 .. Count /\ Prefix(head, Count)
  BY OkFacts DEF Get
<1>2. head' = head /\ capacity' = capacity /\ size' = size /\ i \in Nat
  BY <1>1 DEF Get, Indexes
<1>3. got \in SlotValues \cup {NullVal, Anything}
  BY DEF IInv, TypeOK
<1>4. CASE OutOfRange(i) \/ i >= Len(head)
  <2>1. got' = got /\ status' \in {"exit", "wild"} /\ (status' = "wild" => size >= capacity)
    BY <1>1, <1>2, <1>4 DEF Get, OutOfRange
  <2>2. IInv' /\ Count' = Count
    BY <1>1, <1>2, <1>3, <2>1, NextIInv DEF WildWhenFull
  <2>3. UNCHANGED Slots!vars
    BY <1>2, <2>1 DEF Slots!vars, Written
  <2> QED
    BY <2>2, <2>3 DEF Refines
<1>5. CASE ~ OutOfRange(i) /\ i < Len(head)
  <2>1. got' = head[i + 1] /\ status' = "ok" /\ i <= size /\ i + 1 \in 1 .. Len(head)
    BY <1>1, <1>2, <1>5 DEF Get, OutOfRange
  <2>2. got' \in SlotValues \cup {NullVal, Anything}
    BY <1>1, <2>1 DEF Held
  <2>3. IInv' /\ Count' = Count
    BY <1>1, <1>2, <2>1, <2>2, NextIInv DEF WildWhenFull
  <2>4. got' = ValueAt(i)
    <3>1. /\ Len(Mem(head, Count)) = Count
          /\ \A j \in 1 .. Count : Mem(head, Count)[j] = head[j]
      BY <1>1, MemFacts
    <3>2. i >= Count => head[i + 1] = Anything
      BY <1>1, <1>2, <2>1 DEF Prefix
    <3>3. Shape.mem = Mem(head, Count)
      BY DEF Shape
    <3>4. i < Count => i + 1 \in 1 .. Count
      BY <1>1, <1>2
    <3> QED
      BY <1>1, <1>2, <2>1, <3>1, <3>2, <3>3, <3>4 DEF ValueAt
  <2>5. Shape' = Shape
    BY <1>2, <2>3 DEF Shape
  <2>6. Slots!Get(i)
    BY <2>1, <2>4, <2>5, SlotCalls
  <2>7. Shape.size = size /\ i \in 0 .. size
    BY <1>1, <1>2, <2>1 DEF Shape
  <2>8. Slots!Next
    BY <2>6, <2>7 DEF Slots!Next
  <2> QED
    BY <2>3, <2>8 DEF Refines
<1> QED
  BY <1>1, <1>2, <1>4, <1>5

LEMMA SetStep ==
  ASSUME IInv, NEW i \in Indexes, NEW v \in SlotValues, Set(i, v)
  PROVE  IInv' /\ Refines
<1>1. /\ head \in Seq(Held) /\ Len(head) = capacity /\ capacity \in Nat
      /\ Count \in Nat /\ Count <= capacity /\ size \in 0 .. Count /\ Prefix(head, Count)
  BY OkFacts DEF Set
<1>2. capacity' = capacity /\ size' = size /\ got' = got /\ i \in Nat
  BY <1>1 DEF Set, Indexes
<1>3. got' \in SlotValues \cup {NullVal, Anything}
  BY <1>2 DEF IInv, TypeOK
<1>4. CASE OutOfRange(i) \/ i >= Len(head)
  <2>1. head' = head /\ status' \in {"exit", "wild"} /\ (status' = "wild" => size >= capacity)
    BY <1>1, <1>2, <1>4 DEF Set, Write, OutOfRange
  <2>2. IInv' /\ Count' = Count
    BY <1>1, <1>2, <1>3, <2>1, NextIInv DEF WildWhenFull
  <2>3. UNCHANGED Slots!vars
    BY <1>2, <2>1 DEF Slots!vars, Written
  <2> QED
    BY <2>2, <2>3 DEF Refines
<1>5. CASE ~ OutOfRange(i) /\ i < Len(head)
  <2> DEFINE m == IF i = Count THEN Count + 1 ELSE Count
  <2>1. Write(head, i, v) /\ i <= size /\ i \in 0 .. Count
    BY <1>1, <1>2, <1>5 DEF Set, OutOfRange
  <2>2. /\ head' = [head EXCEPT ![i + 1] = v] /\ status' = "ok"
        /\ head' \in Seq(Held) /\ Len(head') = capacity' /\ Prefix(head', m)
    BY <1>1, <1>2, <1>5, <2>1, WriteFacts
  <2>3. size' \in Nat /\ size' <= m
    BY <1>1, <1>2
  <2>4. IInv' /\ Count' = m
    <3> HIDE DEF m
    <3>1. WildWhenFull'
      BY <2>2 DEF WildWhenFull
    <3> QED
      BY <1>3, <2>2, <2>3, <3>1, NextIInv
  <2>5. Mem([head EXCEPT ![i + 1] = v], m) = Store(Mem(head, Count), i, v)
    <3>1. head \in Seq(Held) /\ Prefix(head, Count) /\ i \in 0 .. Count /\ i < Len(head)
      BY <1>1, <1>5, <2>1
    <3> QED
      BY <3>1, StoreMem
  <2>6. Shape' = StackSet(Shape, i, v)
    BY <1>2, <2>2, <2>4, <2>5 DEF Shape, StackSet
  <2>7. Slots!Set(i, v)
    BY <1>2, <2>1, <2>6, SlotCalls
  <2>8. Shape.size = size /\ i \in 0 .. size
    BY <1>1, <1>2, <2>1 DEF Shape
  <2>9. Slots!Next
    BY <2>7, <2>8 DEF Slots!Next
  <2> QED
    BY <2>4, <2>9 DEF Refines
<1> QED
  BY <1>1, <1>2, <1>4, <1>5

LEMMA StepKeepsIInv == IInv /\ [Next]_vars => IInv' /\ Refines
<1> SUFFICES ASSUME IInv, [Next]_vars
             PROVE  IInv' /\ Refines
  OBVIOUS
<1>1. CASE Pop \/ Peek
  BY <1>1, PopPeekStep
<1>2. CASE \E v \in SlotValues : Push(v)
  BY <1>2, PushStep
<1>3. CASE \E i \in Indexes : Get(i)
  BY <1>3, GetStep
<1>4. CASE \E i \in Indexes : \E v \in SlotValues : Set(i, v)
  BY <1>4, SetStep
<1>5. CASE UNCHANGED vars
  <2>1. IInv'
    BY <1>5 DEF IInv, TypeOK, WildWhenFull, Written, vars
  <2>2. UNCHANGED Slots!vars
    BY <1>5 DEF Slots!vars, Written, vars
  <2> QED
    BY <2>1, <2>2 DEF Refines
<1> QED
  BY <1>1, <1>2, <1>3, <1>4, <1>5 DEF Next, Stopped

-----------------------------------------------------------------------------
(***************************************************************************)
(* The theorems.                                                           *)
(***************************************************************************)
\* head is as large as capacity says and written without gaps up to size at
\* least, whatever is pushed, popped and set in any order (uuc_value_stack.c).
THEOREM ValuesTyped == Spec => []TypeOK
<1>1. IInv => TypeOK
  BY DEF IInv
<1> QED
  BY InitIInv, StepKeepsIInv, <1>1, PTL DEF Spec

\* The slot past the end of head is reached only when the stack is full, or its
\* capacity was doubled past what a uint32_t holds (uuc_value_stack.c:20-45).
THEOREM OnlyWildWhenFull == Spec => []WildWhenFull
<1>1. IInv => WildWhenFull
  BY DEF IInv
<1> QED
  BY InitIInv, StepKeepsIInv, <1>1, PTL DEF Spec

\* The stack in memory is the stack of slots until it goes wild, through every
\* reallocation.
THEOREM StackKeepsSlots == Spec => KeepsSlots
<1>1. Init => Slots!Init
  <2> SUFFICES ASSUME Init
               PROVE  Slots!Init
    OBVIOUS
  <2>1. Written = {}
    BY ValuesAssumption, WordModAssumption DEF Init, Written
  <2>2. Cardinality(Written) = 0
    BY <2>1, FS_EmptySet
  <2>3. SubSeq(head, 1, 0) = <<>>
    BY SubSeqEmpty
  <2> QED
    BY <2>2, <2>3 DEF Init, Slots!Init, Slots!EmptyStack, NullVal, Slots!NullVal
<1>2. Refines => (status' # "wild" => [Slots!Next]_(Slots!vars))
  BY DEF Refines
<1> QED
  BY InitIInv, StepKeepsIInv, <1>1, <1>2, PTL DEF Spec, KeepsSlots

-----------------------------------------------------------------------------
(***************************************************************************)
(* What OverrunByLongRun rests on: a constant that fits leaves the code    *)
(* within capacity, and from there on since bytes were pushed; once size   *)
(* has gone past capacity, the one reallocation that took place doubled    *)
(* codes.                                                                  *)
(***************************************************************************)
Filled ==
  slice_status # "wild" =>
    /\ slice_size <= slice_capacity + since
    /\ slice_size <= allocated
    /\ slice_size > slice_capacity => allocated = 2 * slice_capacity

SliceIInv == SliceTypeOK /\ slice_capacity > 3 /\ Filled /\ OverrunByLongRun

\* Initially nothing is emitted.
LEMMA InitSliceIInv == SliceInit => SliceIInv
  BY SliceAssumption DEF SliceInit, SliceIInv, SliceTypeOK, Filled, OverrunByLongRun

\* The first byte past capacity doubles codes; it is overrun when as many again are pushed.
LEMMA PushCodeKeeps ==
  ASSUME SliceIInv, PushCode
  PROVE  SliceIInv'
<1>1. /\ slice_size' = slice_size + 1 /\ since' = since + 1 /\ slice_capacity' = slice_capacity
      /\ allocated' = IF slice_size = slice_capacity THEN 2 * slice_capacity ELSE allocated
      /\ slice_status' = IF slice_size + 1 <= allocated' THEN "ok" ELSE "wild"
      /\ constants' = constants /\ slice_status = "ok"
  BY DEF PushCode, Emit
<1>2. SliceTypeOK' /\ slice_capacity' > 3
  BY <1>1 DEF SliceIInv, SliceTypeOK
<1>3. Filled'
  BY <1>1 DEF SliceIInv, SliceTypeOK, Filled
<1>4. OverrunByLongRun'
  BY <1>1 DEF SliceIInv, SliceTypeOK, Filled, OverrunByLongRun
<1> QED
  BY <1>2, <1>3, <1>4 DEF SliceIInv

\* A constant that fits leaves the code within capacity, which it doubles when it is near.
LEMMA PushConstantKeeps ==
  ASSUME SliceIInv, PushConstant
  PROVE  SliceIInv'
<1>1. PICK n \in {2, 3} :
        \/ slice_status' = "exit" /\ slice_size' = slice_size
        \/ /\ slice_size' = slice_size + n
           /\ slice_status' = IF slice_size + n <= allocated' THEN "ok" ELSE "wild"
  BY DEF PushConstant, Emit
<1>2. /\ since' = IF slice_status' = "wild" THEN since ELSE 0
      /\ constants' = constants + 1 /\ slice_status = "ok"
  BY DEF PushConstant
<1>3. CASE slice_size + 3 >= slice_capacity
  <2>1. slice_capacity' = 2 * slice_capacity /\ allocated' = 2 * slice_capacity
    BY <1>3 DEF PushConstant, GrowForConstant
  <2>2. SliceTypeOK' /\ slice_capacity' > 3
    BY <1>1, <1>2, <2>1 DEF SliceIInv, SliceTypeOK
  <2>3. Filled'
    BY <1>1, <1>2, <2>1 DEF SliceIInv, SliceTypeOK, Filled
  <2>4. OverrunByLongRun'
    BY <1>1, <1>2, <2>1 DEF SliceIInv, SliceTypeOK, Filled, OverrunByLongRun
  <2> QED
    BY <2>2, <2>3, <2>4 DEF SliceIInv
<1>4. CASE slice_size + 3 < slice_capacity
  <2>1. slice_capacity' = slice_capacity /\ allocated' = allocated
    BY <1>4 DEF PushConstant, GrowForConstant, SliceIInv, SliceTypeOK
  <2>2. SliceTypeOK' /\ slice_capacity' > 3 /\ slice_status' # "wild"
    BY <1>1, <1>2, <1>4, <2>1 DEF SliceIInv, SliceTypeOK
  <2>3. Filled' /\ OverrunByLongRun'
    BY <1>1, <1>2, <1>4, <2>1, <2>2 DEF SliceIInv, SliceTypeOK, Filled, OverrunByLongRun
  <2> QED
    BY <2>2, <2>3 DEF SliceIInv
<1> QED
  BY <1>3, <1>4 DEF SliceIInv, SliceTypeOK

LEMMA StepKeepsSliceIInv == SliceIInv /\ [SliceNext]_slice => SliceIInv'
<1> SUFFICES ASSUME SliceIInv, [SliceNext]_slice
             PROVE  SliceIInv'
  OBVIOUS
<1>1. CASE PushCode
  BY <1>1, PushCodeKeeps
<1>2. CASE PushConstant
  BY <1>2, PushConstantKeeps
<1>3. CASE UNCHANGED slice
  BY <1>3 DEF SliceIInv, SliceTypeOK, Filled, OverrunByLongRun, slice
<1> QED
  BY <1>1, <1>2, <1>3 DEF SliceNext, SliceStopped

(***************************************************************************)
(* The type invariant of a slice under any pushes: how far allocated may   *)
(* be ahead of capacity (uuc_bytecode.c:31-40, 50-81).                     *)
(***************************************************************************)
THEOREM SliceTyped == SliceSpec => []SliceTypeOK
<1>1. SliceIInv => SliceTypeOK
  BY DEF SliceIInv
<1> QED
  BY InitSliceIInv, StepKeepsSliceIInv, <1>1, PTL DEF SliceSpec

(***************************************************************************)
(* Whatever is pushed in whatever order, codes is overrun only by a run of *)
(* bytes without a constant that is long for what is allocated: the price  *)
(* of slice_push_code's not recording that it made room.                   *)
(***************************************************************************)
THEOREM ShortRunsFit == SliceSpec => []OverrunByLongRun
<1>1. SliceIInv => OverrunByLongRun
  BY DEF SliceIInv
<1> QED
  BY InitSliceIInv, StepKeepsSliceIInv, <1>1, PTL DEF SliceSpec
=============================================================================
