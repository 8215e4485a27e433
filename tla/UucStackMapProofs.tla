------------------------- MODULE UucStackMapProofs --------------------------
(***************************************************************************)
(* For every program that has a stack map, every width of a word that the  *)
(* maps fit in and every number of call frames: the machine keeps to the   *)
(* stack discipline, and a run ends as UucStackMap says.                   *)
(*                                                                         *)
(* Discipline and Outcome are inductive only together with TypeOK and with *)
(* three facts more.  No slot is read before something was stored in it,   *)
(* so that no call, operator or jump is led astray.  The frames below the  *)
(* top one have bounded offsets, so that no uint32_t index ever wraps      *)
(* around; and each has an instruction left to run, so that no return      *)
(* leaves main past its end.                                               *)
(***************************************************************************)
EXTENDS UucStackMap, UucVMProofs

Within ==
  status \in {"ok", "end"} =>
    /\ \A i \in 1 .. Len(frames) : frames[i].offset <= (i - 1) * MaxHeight
    /\ \A i \in 1 .. Len(frames) - 1 : frames[i].ii < Len(Programs[prog][frames[i].fn].code)

\* Every value is one that the program made.
Made == IsStack(stack, ProgramValues) /\ IsTable(globals, ProgramValues)

IInv == TypeOK /\ Made /\ Discipline /\ Outcome /\ Within

Map == Heights[prog][Top.fn]
At(frame) == Heights[prog][frame.fn][frame.ii]
FirstOperand == IF Op \in OneByteOperand THEN Operand ELSE 0

\* Multiples of a natural number.
LEMMA Multiples ==
  ASSUME NEW m \in Nat, NEW n \in Nat, NEW k \in Nat, k <= m
  PROVE  k * n <= m * n /\ k * n \in Nat /\ k * n + n = (k + 1) * n
  OBVIOUS

\* Before a step, the map describes the instruction that is about to run.
LEMMA Fitting ==
  ASSUME IInv, status = "ok"
  PROVE  /\ frames # <<>> /\ frames \in Seq(FrameType) /\ Len(frames) \in Nat \ {0}
         /\ Top \in FrameType /\ Fn \in Functions
         /\ FunctionFits(Top.fn, Fn, Map)
         /\ InstructionFits(Top.fn, Fn, Map, Top.ii)
         /\ Top.ii \in DOMAIN Map /\ Top.ii \in 0 .. Len(Code) - 1
         /\ Map[Top.ii] \in 0 .. MaxHeight
         /\ stack.size = Top.offset + Map[Top.ii]
         /\ Top.offset + MaxHeight < WordMod
         /\ InCode /\ Op \in Byte /\ FirstOperand \in Byte
<1>1. frames # <<>> /\ frames \in Seq(FrameType)
  BY DEF IInv, TypeOK, Discipline, FrameType
<1>2. Len(frames) \in Nat \ {0} /\ Top \in FrameType /\ Fn \in Functions
  BY <1>1, Fetched DEF IInv
<1>3. FunctionFits(Top.fn, Fn, Map)
  BY <1>2, StackMapAssumption DEF IInv, TypeOK, FrameType, Fn, Map
<1>4. Top.ii \in DOMAIN Map /\ Top.ii < Len(Code)
  BY <1>2 DEF IInv, Discipline, Outcome, Top, Map
<1>5. InstructionFits(Top.fn, Fn, Map, Top.ii)
  <2>1. Top.ii # Len(Code)
    BY <1>2, <1>4 DEF FrameType
  <2> QED
    BY <1>3, <1>4, <2>1 DEF FunctionFits, Code
<1>6. Map[Top.ii] \in 0 .. MaxHeight
  BY <1>3, <1>4 DEF FunctionFits
<1>7. Top.ii \in 0 .. Len(Code) - 1
  <2>1. Len(Code) \in Nat
    BY <1>2 DEF Code, Functions
  <2>2. DOMAIN Map \subseteq 0 .. Len(Code)
    BY <1>3, <2>1 DEF FunctionFits, Code
  <2> QED
    BY <1>4, <2>1, <2>2
<1>8. stack.size = Top.offset + Map[Top.ii]
  BY DEF IInv, Discipline, Height, Top, Map
<1>9. Top.offset + MaxHeight < WordMod
  <2>1. Top.offset <= (Len(frames) - 1) * MaxHeight
    BY <1>2 DEF IInv, Within, Top
  <2>2. Len(frames) <= MaxCallFrames
    BY DEF IInv, TypeOK
  <2> DEFINE n == Len(frames) - 1
  <2>3. n \in Nat /\ n + 1 = Len(frames) /\ MaxHeight \in Nat /\ MaxCallFrames \in Nat
    BY <1>2, StackMapAssumption, ProgramsAssumption
  <2>4. n * MaxHeight + MaxHeight <= MaxCallFrames * MaxHeight
    <3> HIDE DEF n
    <3>1. n * MaxHeight + MaxHeight = (n + 1) * MaxHeight
      BY <2>3, Multiples
    <3>2. n + 1 \in Nat /\ n + 1 <= MaxCallFrames
      BY <2>2, <2>3
    <3> QED
      BY <2>3, <3>1, <3>2, Multiples
  <2>5. MaxCallFrames * MaxHeight < WordMod /\ MaxCallFrames * MaxHeight \in Nat
    BY <2>3, StackMapAssumption
  <2>6. n * MaxHeight \in Nat
    BY <2>3
  <2>7. Top.offset \in Nat
    BY <1>2 DEF FrameType
  <2> HIDE DEF n
  <2> QED
    BY <2>1, <2>3, <2>4, <2>5, <2>6, <2>7, WordModAssumption DEF n
<1>10. InCode
  BY <1>5, <1>7 DEF InCode, InstructionFits, Op, Code
<1>11. Op \in Byte /\ FirstOperand \in Byte
  <2>1. Op \in Byte /\ (Op \in OneByteOperand => Operand \in Byte)
    BY <1>1, <1>10, Operands DEF IInv
  <2>2. 0 \in Byte
    BY DEF Byte
  <2> QED
    BY <2>1, <2>2 DEF FirstOperand
<1> QED
  BY <1>1, <1>2, <1>3, <1>4, <1>5, <1>6, <1>7, <1>8, <1>9, <1>10, <1>11

-----------------------------------------------------------------------------
(***************************************************************************)
(* A step that goes to a successor of its instruction and leaves the       *)
(* number of slots the map gives that successor.                           *)
(***************************************************************************)
LEMMA Proceeds ==
  ASSUME IInv, status = "ok", prog' = prog,
         NEW n \in Int, Advance(n), Top.ii + n \in Successors(Code, Top.ii),
         stack'.size = stack.size - Takes(Op, FirstOperand) + Puts(Op)
  PROVE  Discipline' /\ Outcome' /\ Within'
<1> DEFINE top == [Top EXCEPT !.ii = @ + n]
<1>1. /\ Len(frames) \in Nat \ {0} /\ frames # <<>> /\ Top \in FrameType
      /\ FunctionFits(Top.fn, Fn, Map) /\ InstructionFits(Top.fn, Fn, Map, Top.ii)
      /\ stack.size = Top.offset + Map[Top.ii] /\ Map[Top.ii] \in 0 .. MaxHeight
      /\ Fn \in Functions
  BY Fitting
<1>2. /\ Len(frames') = Len(frames)
      /\ \A i \in 1 .. Len(frames) - 1 : frames'[i] = frames[i]
      /\ frames'[Len(frames)] = top
  BY <1>1, AdvanceTyped DEF IInv
<1>3. top.fn = Top.fn /\ top.ii = Top.ii + n /\ top.offset = Top.offset
  BY <1>1 DEF FrameType
<1> HIDE DEF top
<1>4. /\ top.ii \in DOMAIN Map
      /\ Map[top.ii] = Map[Top.ii] - Takes(Op, FirstOperand) + Puts(Op)
  BY <1>1, <1>3 DEF InstructionFits, Code, Op, FirstOperand, Operand
<1>5. /\ frames[1].fn = "main" /\ frames[1].offset = 0
      /\ \A i \in 2 .. Len(frames) : frames[i].fn # "main"
      /\ \A i \in 1 .. Len(frames) : frames[i].ii \in DOMAIN Heights[prog][frames[i].fn]
      /\ \A i \in 1 .. Len(frames) - 1 :
           frames[i + 1].offset + 1 = frames[i].offset + At(frames[i])
      /\ \A i \in 1 .. Len(frames) : frames[i].offset <= (i - 1) * MaxHeight
      /\ \A i \in 1 .. Len(frames) - 1 :
           frames[i].ii < Len(Programs[prog][frames[i].fn].code)
  BY DEF IInv, Discipline, Within, Height, At
<1>6. Top = frames[Len(frames)]
  BY DEF Top
<1>7. \A i \in 1 .. Len(frames) :
        frames'[i].fn = frames[i].fn /\ frames'[i].offset = frames[i].offset
  BY <1>1, <1>2, <1>3, <1>6
<1>8. Top' = top /\ At(top) = Map[top.ii]
  BY <1>2, <1>3 DEF Top, At, Map
<1>9. Discipline'
  <2>1. frames' # <<>>
    BY <1>1, <1>2
  <2>2. frames'[1].fn = "main" /\ frames'[1].offset = 0
    BY <1>1, <1>5, <1>7
  <2>3. \A i \in 2 .. Len(frames) : frames'[i].fn # "main"
    BY <1>1, <1>5, <1>7
  <2>4. \A i \in 1 .. Len(frames) : frames'[i].ii \in DOMAIN Heights[prog][frames'[i].fn]
    BY <1>1, <1>2, <1>3, <1>4, <1>5 DEF Map
  <2>5. \A i \in 1 .. Len(frames) - 1 :
          frames'[i + 1].offset + 1 = frames'[i].offset + At(frames'[i])
    <3>1. ASSUME NEW i \in 1 .. Len(frames) - 1
          PROVE  /\ frames'[i] = frames[i] /\ frames'[i + 1].offset = frames[i + 1].offset
                 /\ frames[i + 1].offset + 1 = frames[i].offset + At(frames[i])
      <4>1. i + 1 \in 1 .. Len(frames)
        BY <1>1
      <4> QED
        BY <1>2, <1>5, <1>7, <4>1
    <3> QED
      BY <3>1
  <2>6. stack'.size = top.offset + At(top)
    <3>1. Takes(Op, FirstOperand) \in Int /\ Puts(Op) \in Int
      <4>1. FirstOperand \in Byte
        BY Fitting
      <4>2. FirstOperand \in Int
        BY <4>1 DEF Byte
      <4> QED
        BY <4>2 DEF Takes, Puts
    <3>2. Top.offset \in Nat
      BY <1>1 DEF FrameType
    <3> QED
      BY <1>1, <1>3, <1>4, <1>8, <3>1, <3>2
  <2> QED
    BY <1>2, <1>8, <2>1, <2>2, <2>3, <2>4, <2>5, <2>6 DEF Discipline, Height, At
<1>10. Outcome'
  <2>1. Len(Code) \in Nat /\ Top.ii \in Int
    BY <1>1 DEF Code, Functions, FrameType
  <2>2. status' = IF Len(frames) = 1 /\ PastEnd(top.ii) THEN "end" ELSE "ok"
    BY <1>3 DEF Advance
  <2>3. Code' = Code
    BY <1>3, <1>8 DEF Code, Fn
  <2>4. CASE Len(frames) = 1
    <3>1. top.ii \in 0 .. Len(Code)
      BY <1>1, <1>4, <2>1 DEF FunctionFits, Code
    <3> QED
      BY <1>2, <1>8, <2>1, <2>2, <2>3, <2>4, <3>1 DEF Outcome, PastEnd
  <2>5. CASE Len(frames) # 1
    <3>1. Top.fn # "main"
      <4>1. Len(frames) \in 2 .. Len(frames)
        <5>1. Len(frames) \in Nat /\ Len(frames) # 0 /\ Len(frames) # 1
          BY <1>1, <2>5
        <5>2. \A m \in Nat : m # 0 /\ m # 1 => m \in 2 .. m
          OBVIOUS
        <5> QED
          BY <5>1, <5>2
      <4> QED
        BY <1>5, <1>6, <4>1
    <3>2. top.ii \in 0 .. Len(Code) - 1
      BY <1>1, <1>4, <2>1, <3>1 DEF FunctionFits, Code
    <3> QED
      BY <1>2, <1>8, <2>1, <2>2, <2>3, <2>5, <3>2 DEF Outcome
  <2> QED
    BY <2>4, <2>5
<1>11. Within'
  BY <1>1, <1>2, <1>5, <1>7 DEF Within
<1> QED
  BY <1>9, <1>10, <1>11

-----------------------------------------------------------------------------
(***************************************************************************)
(* One lemma per group of instructions.  An instruction that reports an    *)
(* error is of no further interest: both invariants speak of runs that go  *)
(* on, or have ended.                                                      *)
(***************************************************************************)
Good == Discipline /\ Outcome /\ Within

\* A reported error leaves nothing to show.
LEMMA ErrorStops ==
  ASSUME Halt("error") PROVE Good'
  BY DEF Halt, Good, Discipline, Outcome, Within

\* Where the instructions that neither jump nor return may go.
LEMMA NextInstruction ==
  ASSUME Op \notin Jumps \cup {OP_RETURN, OP_JUMP_IF_FALSE}
  PROVE  Top.ii + Width(Op) \in Successors(Code, Top.ii)
  BY DEF Successors, Op, Jumps

\* A stack with something on it loses one slot.
LEMMA DropOne ==
  ASSUME NEW s, IsStack(s, ProgramValues), s.size > 0
  PROVE  IsStack(StackDrop(s), ProgramValues) /\ StackDrop(s).size = s.size - 1
  BY PopTyped, StackHasValues DEF IsStack

\* The stack holds what the instruction takes, above the frame's offset.
LEMMA Sizes ==
  ASSUME IInv, status = "ok"
  PROVE  /\ IsStack(stack, ProgramValues) /\ stack.size \in Nat
         /\ Takes(Op, FirstOperand) <= stack.size
         /\ Top.offset \in Nat
<1>1. /\ Takes(Op, FirstOperand) <= Map[Top.ii] /\ Map[Top.ii] \in 0 .. MaxHeight
      /\ stack.size = Top.offset + Map[Top.ii] /\ Top \in FrameType
  BY Fitting DEF InstructionFits, Code, Op, Operand, FirstOperand
<1>2. Top.offset \in Nat /\ FirstOperand \in Nat
  <2>1. FirstOperand \in Byte
    BY Fitting
  <2> QED
    BY <1>1, <2>1 DEF FrameType, Byte
<1>3. IsStack(stack, ProgramValues)
  BY DEF IInv, Made
<1>4. stack.size \in Nat
  BY <1>3 DEF IsStack
<1>5. Takes(Op, FirstOperand) \in Int
  BY <1>2 DEF Takes
<1> QED
  BY <1>1, <1>2, <1>3, <1>4, <1>5

\* What each group of instructions takes, puts and occupies.
LEMMA Effects ==
  ASSUME NEW n
  PROVE  /\ \A op \in {OP_CONSTANT, OP_GET_GLOBAL, OP_GET_LOCAL} :
              Takes(op, n) = 0 /\ Puts(op) = 1 /\ Width(op) = 2
         /\ \A op \in {OP_DEFINE_GLOBAL, OP_SET_GLOBAL, OP_SET_LOCAL} :
              Takes(op, n) = 1 /\ Puts(op) = 0 /\ Width(op) = 2
         /\ \A op \in Literals : Takes(op, n) = 0 /\ Puts(op) = 1 /\ Width(op) = 1
         /\ \A op \in {OP_NOT, OP_NEGATE} :
              Takes(op, n) = 1 /\ Puts(op) = 1 /\ Width(op) = 1
         /\ \A op \in BinaryOps : Takes(op, n) = 2 /\ Puts(op) = 1 /\ Width(op) = 1
         /\ Takes(OP_POP, n) = 1 /\ Puts(OP_POP) = 0 /\ Width(OP_POP) = 1
         /\ \A op \in Jumps : Takes(op, n) = 0 /\ Puts(op) = 0
         /\ Takes(OP_JUMP_IF_FALSE, n) = 1 /\ Puts(OP_JUMP_IF_FALSE) = 0
         /\ Takes(OP_CALL, n) = n + 1 /\ Puts(OP_CALL) = 1 /\ Width(OP_CALL) = 2
         /\ Takes(OP_RETURN, n) = 1 /\ Width(OP_RETURN) = 1
  BY DEF Takes, Puts, Width, OneByteOperand, TwoByteOperand, BinaryOps, Arithmetic,
    Comparison, Literals, Jumps, OP_CONSTANT, OP_DEFINE_GLOBAL, OP_GET_GLOBAL,
    OP_SET_GLOBAL, OP_GET_LOCAL, OP_SET_LOCAL, OP_TRUE, OP_NULL, OP_NEGATE, OP_NOT,
    OP_ADD, OP_DIVIDE, OP_EQ, OP_LTE, OP_JUMP, OP_JUMP_BACK, OP_JUMP_IF_FALSE, OP_CALL,
    OP_RETURN, OP_POP

\* The instructions after which the next one runs.
StraightOps == {OP_CONSTANT, OP_DEFINE_GLOBAL, OP_GET_GLOBAL, OP_SET_GLOBAL, OP_GET_LOCAL,
                OP_SET_LOCAL, OP_NOT, OP_NEGATE, OP_POP} \cup Literals \cup BinaryOps

\* An instruction that goes on to the next one, with the height the map gives it.
LEMMA Straight ==
  ASSUME IInv, status = "ok", prog' = prog, Op \in StraightOps,
         Advance(Width(Op)),
         stack'.size = stack.size - Takes(Op, FirstOperand) + Puts(Op)
  PROVE  Good'
<1>1. Op \notin Jumps \cup {OP_RETURN, OP_JUMP_IF_FALSE}
  BY DEF StraightOps, BinaryOps, Arithmetic, Comparison, Literals, Jumps, OP_CONSTANT,
    OP_DEFINE_GLOBAL, OP_GET_GLOBAL, OP_SET_GLOBAL, OP_GET_LOCAL, OP_SET_LOCAL, OP_TRUE,
    OP_NULL, OP_NEGATE, OP_NOT, OP_ADD, OP_DIVIDE, OP_EQ, OP_LTE, OP_JUMP, OP_JUMP_BACK,
    OP_JUMP_IF_FALSE, OP_RETURN, OP_POP
<1>2. Top.ii + Width(Op) \in Successors(Code, Top.ii)
  BY <1>1, NextInstruction
<1>3. Width(Op) \in Int
  BY DEF Width
<1> QED
  BY <1>2, <1>3, Proceeds DEF Good

\* The instructions that push one value find their constant, name or slot.
LEMMA PushingRuns ==
  ASSUME IInv, Constant \/ Constant16 \/ GetGlobal \/ GetLocal \/ Literal PROVE Good'
<1>1. status = "ok" /\ prog' = prog
  BY DEF Constant, Constant16, GetGlobal, GetLocal, Literal, Executes
<1>2. /\ InstructionFits(Top.fn, Fn, Map, Top.ii) /\ Top.offset + MaxHeight < WordMod
      /\ Map[Top.ii] \in 0 .. MaxHeight /\ stack.size = Top.offset + Map[Top.ii]
      /\ FirstOperand \in Byte
  BY <1>1, Fitting
<1>3. stack.size \in Nat /\ Top.offset \in Nat
  BY <1>1, Sizes
<1>4. ASSUME NEW v, stack' = StackPush(stack, v), Advance(Width(Op)),
             Op \in {OP_CONSTANT, OP_GET_GLOBAL, OP_GET_LOCAL} \cup Literals
      PROVE  Good'
  <2>1. stack'.size = stack.size - Takes(Op, FirstOperand) + Puts(Op)
    <3>1. stack'.size = stack.size + 1
      BY <1>4 DEF StackPush
    <3>2. Takes(Op, FirstOperand) = 0 /\ Puts(Op) = 1
      BY <1>4, Effects
    <3> QED
      BY <1>3, <3>1, <3>2
  <2>2. Op \in StraightOps
    BY <1>4 DEF StraightOps
  <2> QED
    BY <1>1, <1>4, <2>1, <2>2, Straight
<1>5. CASE Constant
  <2>1. Op = OP_CONSTANT /\ Width(Op) = 2
    BY <1>5, Effects DEF Constant, Executes
  <2>2. Operand < Len(Fn.constants)
    BY <1>2, <2>1 DEF InstructionFits, Op, Code, Operand, OneByteOperand
  <2>3. stack' = StackPush(stack, Fn.constants[Operand + 1]) /\ Advance(2)
    BY <1>5, <2>2 DEF Constant
  <2> QED
    BY <1>4, <2>1, <2>3
<1>6. CASE Constant16
  BY <1>2, <1>6 DEF Constant16, Executes, InstructionFits, Op, Code
<1>7. CASE GetGlobal
  BY <1>4, <1>7, Effects DEF GetGlobal, Executes
<1>8. CASE GetLocal
  <2>1. Op = OP_GET_LOCAL /\ Width(Op) = 2
    BY <1>8, Effects DEF GetLocal, Executes
  <2>2. Operand = FirstOperand /\ Operand < Map[Top.ii]
    BY <1>2, <2>1 DEF InstructionFits, Op, Code, Operand, OneByteOperand, FirstOperand
  <2>3. LocalSlot = Top.offset + Operand
    <3>1. Top.offset + Operand \in 0 .. WordMod - 1
      BY <1>2, <1>3, <2>2, WordModAssumption, StackMapAssumption DEF Byte
    <3>2. \A n \in 0 .. WordMod - 1 : Wrap(n) = n
      BY WordModAssumption DEF Wrap
    <3> QED
      BY <3>1, <3>2 DEF LocalSlot
  <2>4. LocalSlot < stack.size /\ LocalSlot \in Nat
    BY <1>2, <1>3, <2>2, <2>3, StackMapAssumption DEF Byte
  <2>5. LocalSlot < Len(stack.mem) /\ ~ (LocalSlot > stack.size)
    BY <1>1, <2>4, Sizes DEF IsStack
  <2>6. Advance(2) /\ stack' = StackPush(stack, stack.mem[LocalSlot + 1])
    BY <1>8, <2>5 DEF GetLocal
  <2> QED
    BY <1>4, <2>1, <2>6
<1>9. CASE Literal
  BY <1>4, <1>9, Effects DEF Literal, Executes
<1> QED
  BY <1>5, <1>6, <1>7, <1>8, <1>9

\* The instructions that pop one value find it, and their name or slot.
LEMMA PoppingRuns ==
  ASSUME IInv, DefineGlobal \/ SetGlobal \/ SetLocal \/ Pop PROVE Good'
<1>1. status = "ok" /\ prog' = prog
  BY DEF DefineGlobal, SetGlobal, SetLocal, Pop, Executes
<1>2. /\ InstructionFits(Top.fn, Fn, Map, Top.ii) /\ Top.offset + MaxHeight < WordMod
      /\ Map[Top.ii] \in 0 .. MaxHeight /\ stack.size = Top.offset + Map[Top.ii]
      /\ FirstOperand \in Byte
  BY <1>1, Fitting
<1>3. /\ IsStack(stack, ProgramValues) /\ stack.size \in Nat /\ Top.offset \in Nat
      /\ Takes(Op, FirstOperand) <= stack.size
  BY <1>1, Sizes
<1>4. /\ Op \in {OP_DEFINE_GLOBAL, OP_SET_GLOBAL, OP_SET_LOCAL, OP_POP}
      /\ Takes(Op, FirstOperand) = 1 /\ Puts(Op) = 0
      /\ Width(Op) = IF Op = OP_POP THEN 1 ELSE 2
  BY Effects DEF DefineGlobal, SetGlobal, SetLocal, Pop, Executes, OP_DEFINE_GLOBAL,
    OP_SET_GLOBAL, OP_SET_LOCAL, OP_POP
<1>5. StackDrop(stack).size = stack.size - 1 /\ IsStack(StackDrop(stack), ProgramValues)
  BY <1>3, <1>4, DropOne
<1>6. ASSUME stack'.size = StackDrop(stack).size, Advance(Width(Op))
      PROVE  Good'
  <2>1. stack'.size = stack.size - Takes(Op, FirstOperand) + Puts(Op)
    BY <1>3, <1>4, <1>5, <1>6
  <2>2. Op \in StraightOps
    BY <1>4 DEF StraightOps
  <2> QED
    BY <1>1, <1>6, <2>1, <2>2, Straight
<1>7. CASE DefineGlobal \/ SetGlobal
  BY <1>4, <1>6, <1>7 DEF DefineGlobal, SetGlobal, Executes, OP_DEFINE_GLOBAL,
    OP_SET_GLOBAL, OP_POP
<1>8. CASE Pop
  BY <1>4, <1>6, <1>8 DEF Pop, Executes
<1>9. CASE SetLocal
  <2>1. Op = OP_SET_LOCAL /\ Width(Op) = 2
    BY <1>9, Effects DEF SetLocal, Executes
  <2>2. Operand = FirstOperand /\ Operand < Map[Top.ii] - 1
    BY <1>2, <2>1 DEF InstructionFits, Op, Code, Operand, OneByteOperand, FirstOperand
  <2>3. LocalSlot = Top.offset + Operand
    <3>1. Top.offset + Operand \in 0 .. WordMod - 1
      BY <1>2, <1>3, <2>2, WordModAssumption, StackMapAssumption DEF Byte
    <3>2. \A n \in 0 .. WordMod - 1 : Wrap(n) = n
      BY WordModAssumption DEF Wrap
    <3> QED
      BY <3>1, <3>2 DEF LocalSlot
  <2>4. ~ (LocalSlot > StackDrop(stack).size)
    BY <1>2, <1>3, <1>5, <2>2, <2>3 DEF Byte
  <2>5. Advance(2) /\ stack'.size = StackDrop(stack).size
    <3>1. Advance(2) /\ stack' = StackSet(StackDrop(stack), LocalSlot, StackPeek(stack))
      BY <1>9, <2>4 DEF SetLocal
    <3> QED
      BY <1>5, <3>1 DEF StackSet, IsStack
  <2> QED
    BY <1>6, <2>1, <2>5
<1> QED
  BY <1>7, <1>8, <1>9

\* Operators find their operands.
LEMMA OperatorsRun ==
  ASSUME IInv, Unary \/ Binary PROVE Good'
<1> DEFINE b  == StackPeek(stack)
           s1 == StackDrop(stack)
           a  == StackPeek(s1)
           s2 == StackDrop(s1)
<1>1. status = "ok" /\ prog' = prog
  BY DEF Unary, Binary, Executes
<1>2. /\ IsStack(stack, ProgramValues) /\ stack.size \in Nat
      /\ Takes(Op, FirstOperand) <= stack.size
  BY <1>1, Sizes
<1>3. CASE Unary
  <2>1. /\ Op \in {OP_NOT, OP_NEGATE} /\ Op \in StraightOps
        /\ Takes(Op, FirstOperand) = 1 /\ Puts(Op) = 1 /\ Width(Op) = 1
    BY <1>3, Effects DEF Unary, Executes, StraightOps
  <2>2. s1.size = stack.size - 1
    BY <1>2, <2>1, DropOne
  <2>3. CASE Halt("error")
    BY <2>3, ErrorStops
  <2>4. ASSUME NEW v, stack' = StackPush(s1, v), Advance(1) PROVE Good'
    <3>1. stack'.size = s1.size + 1
      BY <2>4 DEF StackPush
    <3>2. stack'.size = stack.size - Takes(Op, FirstOperand) + Puts(Op)
      BY <1>2, <2>1, <2>2, <3>1
    <3> QED
      BY <1>1, <2>1, <2>4, <3>2, Straight
  <2> QED
    BY <1>3, <2>3, <2>4 DEF Unary
<1>4. CASE Binary
  <2>1. /\ Op \in StraightOps /\ Op \in BinaryOps
        /\ Takes(Op, FirstOperand) = 2 /\ Puts(Op) = 1 /\ Width(Op) = 1
    BY <1>4, Effects DEF Binary, Executes, StraightOps
  <2>2. s1.size = stack.size - 1 /\ IsStack(s1, ProgramValues)
    BY <1>2, <2>1, DropOne
  <2>3. s2.size = stack.size - 2
    <3>1. s1.size > 0
      BY <1>2, <2>1, <2>2
    <3>2. s2.size = s1.size - 1
      BY <2>2, <3>1, DropOne
    <3> QED
      BY <1>2, <2>2, <3>2
  <2>4. CASE Halt("error")
    BY <2>4, ErrorStops
  <2>5. ASSUME NEW v, stack' = StackPush(s2, v), Advance(1) PROVE Good'
    <3>1. stack'.size = s2.size + 1
      BY <2>5 DEF StackPush
    <3>2. stack'.size = stack.size - Takes(Op, FirstOperand) + Puts(Op)
      BY <1>2, <2>1, <2>3, <3>1
    <3> QED
      BY <1>1, <2>1, <2>5, <3>2, Straight
  <2>6. Wild \notin BinaryResults(Op, a, b)
    <3>1. a \in ProgramValues /\ b \in ProgramValues
      BY <1>2, <2>2, PopTyped, StackHasValues
    <3>2. BinaryResults(Op, a, b) \subseteq ProgramValues \cup {Fail}
      BY <2>1, <3>1, BinaryTyped, AnythingIsNoValue DEF ProgramValues
    <3>3. Wild \notin ProgramValues /\ Wild # Fail
      BY ValueCases DEF ProgramValues, Wild, Fail
    <3> QED
      BY <3>2, <3>3
  <2>7. Halt("error") \/ (Advance(1) /\ \E v : stack' = StackPush(s2, v))
    BY <1>4, <2>6 DEF Binary
  <2> QED
    BY <2>4, <2>5, <2>7
<1> QED
  BY <1>3, <1>4

\* Jumps land where the map says.
LEMMA JumpsRun ==
  ASSUME IInv, Jump \/ JumpIfFalse PROVE Good'
<1>1. status = "ok" /\ prog' = prog
  BY DEF Jump, JumpIfFalse, Executes
<1>2. /\ IsStack(stack, ProgramValues) /\ stack.size \in Nat
      /\ Takes(Op, FirstOperand) <= stack.size
  BY <1>1, Sizes
<1>3. Operand16 \in Nat /\ Top.ii \in Int
  <2>1. InCode /\ frames # <<>> /\ Op \in TwoByteOperand /\ Top \in FrameType
    BY <1>1, Fitting DEF Jump, JumpIfFalse, Executes, TwoByteOperand
  <2> QED
    BY <2>1, Operands DEF IInv, FrameType
<1>4. ASSUME NEW n \in Int, Advance(n), Top.ii + n \in Successors(Code, Top.ii),
             stack'.size = stack.size - Takes(Op, FirstOperand) + Puts(Op)
      PROVE  Good'
  BY <1>1, <1>4, Proceeds DEF Good
<1>5. CASE Jump
  <2> DEFINE n == IF Op = OP_JUMP THEN 3 + Operand16 ELSE 3 - Operand16
  <2>1. /\ Op \in {OP_JUMP, OP_JUMP_BACK} /\ stack' = stack /\ Advance(n)
        /\ Takes(Op, FirstOperand) = 0 /\ Puts(Op) = 0
    BY <1>5, Effects DEF Jump, Executes, Jumps
  <2>2. n \in Int
    BY <1>3
  <2>3. Top.ii + n \in Successors(Code, Top.ii)
    BY <1>3, <2>1 DEF Successors, Op, Operand16, OP_JUMP, OP_JUMP_BACK, OP_RETURN
  <2>4. stack'.size = stack.size - Takes(Op, FirstOperand) + Puts(Op)
    BY <1>2, <2>1
  <2> HIDE DEF n
  <2> QED
    BY <1>4, <2>1, <2>2, <2>3, <2>4
<1>6. CASE JumpIfFalse
  <2>1. /\ Op = OP_JUMP_IF_FALSE /\ stack' = StackDrop(stack)
        /\ Takes(Op, FirstOperand) = 1 /\ Puts(Op) = 0
    BY <1>6, Effects DEF JumpIfFalse, Executes
  <2>2. stack'.size = stack.size - Takes(Op, FirstOperand) + Puts(Op)
    <3>1. StackDrop(stack).size = stack.size - 1
      BY <1>2, <2>1, DropOne
    <3> QED
      BY <1>2, <2>1, <3>1
  <2>3. \A n \in {3, 3 + Operand16} : n \in Int /\ Top.ii + n \in Successors(Code, Top.ii)
    BY <1>3, <2>1 DEF Successors, Op, Operand16, OP_JUMP_IF_FALSE, OP_JUMP, OP_JUMP_BACK,
      OP_RETURN
  <2>4. StackPeek(stack) # Anything
    BY <1>2, PopTyped, StackHasValues, AnythingIsNoValue DEF ProgramValues
  <2>5. Halt("error") \/ \E n \in {3, 3 + Operand16} : Advance(n)
    BY <1>6, <2>4 DEF JumpIfFalse
  <2> QED
    BY <1>4, <2>2, <2>3, <2>5, ErrorStops
<1> QED
  BY <1>5, <1>6

\* Steps the map rules out, and those that stop the machine.
LEMMA OthersStop ==
  ASSUME IInv, NoSuchName \/ UndefinedGlobal \/ UnknownOpcode \/ RunPastCode \/ NoFrame
  PROVE  Good'
<1>1. status = "ok"
  BY DEF NoSuchName, UndefinedGlobal, UnknownOpcode, RunPastCode, NoFrame, Executes
<1>2. frames # <<>> /\ InCode /\ InstructionFits(Top.fn, Fn, Map, Top.ii)
  BY <1>1, Fitting
<1>3. ~ RunPastCode /\ ~ NoFrame
  BY <1>2 DEF RunPastCode, NoFrame
<1>4. ~ NoSuchName
  BY <1>2 DEF NoSuchName, Executes, HasName, InstructionFits, Op, Code, Operand, GlobalOps,
    OneByteOperand
<1> QED
  BY <1>3, <1>4, ErrorStops DEF UndefinedGlobal, UnknownOpcode

-----------------------------------------------------------------------------
\* What Discipline and Within say of the frames, one by one.
LEMMA FrameFacts ==
  ASSUME IInv, status = "ok"
  PROVE  /\ frames[1].fn = "main" /\ frames[1].offset = 0
         /\ \A i \in 2 .. Len(frames) : frames[i].fn # "main"
         /\ \A i \in 1 .. Len(frames) : frames[i].ii \in DOMAIN Heights[prog][frames[i].fn]
         /\ \A i \in 1 .. Len(frames) - 1 :
              frames[i + 1].offset + 1 = frames[i].offset + At(frames[i])
         /\ \A i \in 1 .. Len(frames) : frames[i].offset <= (i - 1) * MaxHeight
         /\ \A i \in 1 .. Len(frames) - 1 :
              frames[i].ii < Len(Programs[prog][frames[i].fn].code)
  BY DEF IInv, Discipline, Within, Height, At

(***************************************************************************)
(* A call: the callee's window starts at its arguments, and the caller's   *)
(* is left one short of what the map gives the instruction after the call. *)
(***************************************************************************)
LEMMA CallRuns ==
  ASSUME IInv, Call, CallsMatch PROVE Good'
<1> DEFINE callee == StackPeek(stack)
           s == StackDrop(stack)
           fun == Programs[prog][callee.fn]
           caller == [Top EXCEPT !.ii = @ + 2]
           below == [frames EXCEPT ![Len(frames)] = caller]
           new == [fn |-> callee.fn, ii |-> 0, offset |-> FrameOffset(s, fun)]
<1>1. status = "ok" /\ prog' = prog /\ Op = OP_CALL /\ stack' = s /\ Executes({OP_CALL})
  BY DEF Call, Executes
<1>2. /\ frames # <<>> /\ frames \in Seq(FrameType) /\ Len(frames) \in Nat \ {0}
      /\ Top \in FrameType /\ InstructionFits(Top.fn, Fn, Map, Top.ii)
      /\ Map[Top.ii] \in 0 .. MaxHeight /\ stack.size = Top.offset + Map[Top.ii]
      /\ Top.offset + MaxHeight < WordMod
  BY <1>1, Fitting
<1>3. /\ IsStack(stack, ProgramValues) /\ stack.size \in Nat /\ Top.offset \in Nat
      /\ Takes(Op, FirstOperand) <= stack.size
  BY <1>1, Sizes
<1>4. CASE Halt("error")
  BY <1>4, ErrorStops
<1>5. CASE Len(frames) = MaxCallFrames /\ Halt("wild")
  BY <1>5 DEF Halt, Good, Discipline, Outcome, Within
<1>6. CASE /\ callee.type = "function"
           /\ frames' = Append([frames EXCEPT ![Len(frames)].ii = @ + 2], new)
           /\ UNCHANGED status
  <2>1. /\ callee \in ProgramValues /\ IsStack(s, ProgramValues)
        /\ callee.fn \in DOMAIN Programs[prog] /\ callee.fn # "main"
    <3>1. callee \in ProgramValues /\ IsStack(s, ProgramValues)
      BY <1>3, PopTyped, StackHasValues
    <3> QED
      BY <1>6, <3>1, ValueCases DEF ProgramValues
  <2>2. FunctionFits(callee.fn, fun, Heights[prog][callee.fn]) /\ fun \in Functions
    BY <2>1, StackMapAssumption, ProgramsAssumption DEF IInv, TypeOK
  <2>3. /\ Operand = fun.arity /\ FirstOperand = Operand /\ fun.arity \in Nat
    <3>1. Operand = fun.arity
      BY <1>1, <1>6 DEF CallsMatch
    <3>2. FirstOperand = Operand
      BY <1>1 DEF FirstOperand, OneByteOperand
    <3>3. fun.arity \in Nat
      <4>1. fun \in Functions
        BY <2>2
      <4>2. fun.arity \in Byte
        BY <4>1 DEF Functions
      <4> QED
        BY <4>2 DEF Byte
    <3> QED
      BY <3>1, <3>2, <3>3
  <2>4. /\ Takes(Op, FirstOperand) = fun.arity + 1 /\ Puts(Op) = 1
        /\ Takes(Op, FirstOperand) <= Map[Top.ii]
        /\ Top.ii + 2 \in DOMAIN Map /\ Top.ii + 2 < Len(Code)
        /\ Map[Top.ii + 2] = Map[Top.ii] - Takes(Op, FirstOperand) + Puts(Op)
    <3>1. Takes(Op, FirstOperand) = fun.arity + 1 /\ Puts(Op) = 1 /\ Width(Op) = 2
      BY <1>1, <2>3, Effects
    <3>2. Op \notin Jumps \cup {OP_RETURN, OP_JUMP_IF_FALSE}
      BY <1>1 DEF Jumps, OP_CALL, OP_JUMP, OP_JUMP_BACK, OP_RETURN, OP_JUMP_IF_FALSE
    <3>3. Top.ii + 2 \in Successors(Code, Top.ii)
      BY <3>1, <3>2, NextInstruction
    <3> QED
      BY <1>1, <1>2, <3>1, <3>3 DEF InstructionFits, Op, Code, Operand, FirstOperand
  <2>5. s.size = stack.size - 1
    <3>1. stack.size > 0
      BY <1>3, <2>3, <2>4
    <3> QED
      BY <1>3, <3>1, DropOne
  <2> DEFINE k == fun.arity
             h == Map[Top.ii]
             o == Top.offset
  <2>5a. /\ k \in Nat /\ o \in Nat /\ h \in Nat /\ h <= MaxHeight /\ k + 1 <= h
         /\ o + MaxHeight < WordMod /\ WordMod \in Nat /\ MaxHeight \in Nat
         /\ s.size = o + h - 1 /\ Map[Top.ii + 2] = h - k
    <3>1. h \in 0 .. MaxHeight /\ MaxHeight \in Nat /\ k + 1 <= h /\ k \in Nat
      BY <1>2, <2>3, <2>4, StackMapAssumption
    <3>2. s.size = o + h - 1 /\ o \in Nat /\ o + MaxHeight < WordMod /\ WordMod \in Nat
      BY <1>2, <1>3, <2>5, WordModAssumption
    <3>3. Map[Top.ii + 2] = h - (k + 1) + 1
      BY <2>4
    <3> HIDE DEF k, h, o
    <3> QED
      BY <3>1, <3>2, <3>3
  <2>6. new.offset = s.size - fun.arity
    <3>1. s.size - fun.arity \in 0 .. WordMod - 1
      <4>1. s.size - k \in 0 .. WordMod - 1
        <5> HIDE DEF k, h, o
        <5> QED
          BY <2>5a
      <4> QED
        BY <4>1
    <3>2. \A n \in 0 .. WordMod - 1 : Wrap(n) = n
      BY WordModAssumption DEF Wrap
    <3> QED
      BY <3>1, <3>2 DEF FrameOffset
  <2>7. /\ caller \in FrameType
        /\ caller.fn = Top.fn /\ caller.ii = Top.ii + 2 /\ caller.offset = Top.offset
    <3>1. Top \in FrameType
      BY <1>2
    <3> QED
      BY <3>1 DEF FrameType
  <2>8. new.fn = callee.fn /\ new.ii = 0 /\ frames' = Append(below, new)
    BY <1>6 DEF Top
  <2> HIDE DEF caller, new
  <2>9. /\ below \in Seq(FrameType) /\ Len(below) = Len(frames)
        /\ \A i \in 1 .. Len(frames) :
             below[i] = IF i = Len(frames) THEN caller ELSE frames[i]
    BY <1>2, <2>7, ExceptSeq
  <2> DEFINE m == Len(frames)
  <2>10. m \in Nat \ {0} /\ Top = frames[m]
    BY <1>2 DEF Top
  <2> HIDE DEF below
  <2>11. /\ Len(frames') = m + 1 /\ frames'[m + 1] = new
         /\ \A i \in 1 .. m : frames'[i] = IF i = m THEN caller ELSE frames[i]
    BY <2>8, <2>9, <2>10
  <2>12. /\ frames[1].fn = "main" /\ frames[1].offset = 0
         /\ \A i \in 2 .. m : frames[i].fn # "main"
         /\ \A i \in 1 .. m : frames[i].ii \in DOMAIN Heights[prog][frames[i].fn]
         /\ \A i \in 1 .. m - 1 :
              frames[i + 1].offset + 1 = frames[i].offset + At(frames[i])
         /\ \A i \in 1 .. m : frames[i].offset <= (i - 1) * MaxHeight
         /\ \A i \in 1 .. m - 1 : frames[i].ii < Len(Programs[prog][frames[i].fn].code)
    BY <1>1, FrameFacts
  <2> HIDE DEF m
  <2>13. \A i \in 1 .. m :
           frames'[i].fn = frames[i].fn /\ frames'[i].offset = frames[i].offset
    BY <2>7, <2>10, <2>11
  <2>14. new.offset + 1 = caller.offset + At(caller)
    <3>1. At(caller) = Map[Top.ii + 2]
      BY <2>7 DEF At, Map
    <3>2. /\ new.offset = s.size - k /\ caller.offset = o /\ At(caller) = h - k
          /\ k \in Nat /\ o \in Nat /\ h \in Nat /\ s.size = o + h - 1
      BY <2>6, <2>7, <2>5a, <3>1
    <3> HIDE DEF k, h, o
    <3> QED
      BY <3>2
  <2>15. \A i \in 1 .. m : frames'[i + 1].offset + 1 = frames'[i].offset + At(frames'[i])
    <3> TAKE i \in 1 .. m
    <3>1. CASE i = m
      BY <2>10, <2>11, <2>14, <3>1
    <3>2. CASE i # m
      <4>1. i \in 1 .. m - 1 /\ i + 1 \in 1 .. m
        BY <2>10, <3>2
      <4>2. frames'[i] = frames[i] /\ frames'[i + 1].offset = frames[i + 1].offset
        BY <2>11, <2>13, <3>2, <4>1
      <4> QED
        BY <2>12, <4>1, <4>2
    <3> QED
      BY <3>1, <3>2
  <2>16. Top' = new /\ At(new) = fun.arity /\ 0 \in DOMAIN Heights[prog][callee.fn]
    BY <2>2, <2>8, <2>10, <2>11 DEF Top, At, FunctionFits
  <2>17. stack'.size = new.offset + At(new)
    BY <1>1, <1>3, <2>3, <2>5, <2>6, <2>16
  <2>18. /\ frames' # <<>> /\ frames'[1].fn = "main" /\ frames'[1].offset = 0
         /\ \A i \in 2 .. m + 1 : frames'[i].fn # "main"
    BY <2>1, <2>8, <2>10, <2>11, <2>12, <2>13
  <2>19. \A i \in 1 .. m + 1 : frames'[i].ii \in DOMAIN Heights[prog][frames'[i].fn]
    <3> TAKE i \in 1 .. m + 1
    <3>1. CASE i = m + 1
      BY <2>8, <2>11, <2>16, <3>1
    <3>2. CASE i = m
      <4>1. frames'[i] = caller
        BY <2>10, <2>11, <3>2
      <4> QED
        BY <2>4, <2>7, <4>1 DEF Map
    <3>3. CASE i \in 1 .. m - 1
      <4>1. frames'[i] = frames[i] /\ i \in 1 .. m
        BY <2>10, <2>11, <3>3
      <4> QED
        BY <2>12, <4>1
    <3> QED
      BY <2>10, <3>1, <3>2, <3>3
  <2>20. Discipline'
    <3>1. Len(frames') - 1 = m
      BY <2>10, <2>11
    <3> QED
      BY <1>1, <2>11, <2>15, <2>16, <2>17, <2>18, <2>19, <3>1 DEF Discipline, Height, At
  <2>21. Outcome'
    <3>1. Code' = fun.code
      BY <1>1, <2>8, <2>16 DEF Code, Fn
    <3>2. Len(fun.code) \in Nat \ {0}
      <4>1. fun.code \in Seq(Byte) /\ fun.code # <<>>
        BY <2>2 DEF Functions, FunctionFits
      <4> QED
        BY <4>1, EmptySeq
    <3>3. Top'.ii < Len(Code')
      BY <2>8, <2>16, <3>1, <3>2
    <3>4. status' = "ok"
      BY <1>1, <1>6
    <3> QED
      BY <3>3, <3>4 DEF Outcome
  <2>22. Within'
    <3>1. new.offset <= (m + 1 - 1) * MaxHeight
      <4>1. Top.offset <= (m - 1) * MaxHeight
        BY <2>10, <2>12
      <4> DEFINE n == m - 1
      <4>2. n \in Nat /\ MaxHeight \in Nat
        BY <2>10, StackMapAssumption
      <4>3. n * MaxHeight + MaxHeight = (n + 1) * MaxHeight /\ n * MaxHeight \in Nat
        BY <4>2, Multiples
      <4>4. new.offset <= Top.offset + MaxHeight
        <5>1. new.offset = s.size - k
          BY <2>6
        <5> HIDE DEF k, h
        <5>2. new.offset <= o + MaxHeight
          BY <2>5a, <5>1
        <5> QED
          BY <5>2
      <4>5. m + 1 - 1 = n + 1 /\ new.offset \in Int
        BY <1>3, <2>3, <2>5, <2>6, <2>10
      <4> HIDE DEF n
      <4>6. Top.offset <= n * MaxHeight
        BY <4>1 DEF n
      <4>7. new.offset <= (n + 1) * MaxHeight
        BY <1>3, <4>2, <4>3, <4>4, <4>5, <4>6
      <4> QED
        BY <4>5, <4>7
    <3>2. \A i \in 1 .. m + 1 : frames'[i].offset <= (i - 1) * MaxHeight
      BY <2>10, <2>11, <2>12, <2>13, <3>1
    <3>3. \A i \in 1 .. m : frames'[i].ii < Len(Programs[prog][frames'[i].fn].code)
      <4> TAKE i \in 1 .. m
      <4>1. CASE i = m
        <5>1. frames'[i] = caller
          BY <2>10, <2>11, <4>1
        <5> QED
          BY <2>4, <2>7, <5>1 DEF Code, Fn
      <4>2. CASE i \in 1 .. m - 1
        <5>1. frames'[i] = frames[i]
          BY <2>10, <2>11, <4>2
        <5> QED
          BY <2>12, <4>2, <5>1
      <4> QED
        BY <2>10, <4>1, <4>2
    <3>4. Len(frames') - 1 = m
      BY <2>10, <2>11
    <3> QED
      BY <1>1, <2>11, <3>2, <3>3, <3>4 DEF Within
  <2> QED
    BY <2>20, <2>21, <2>22 DEF Good
<1>7. callee # Anything
  BY <1>3, PopTyped, StackHasValues, AnythingIsNoValue DEF ProgramValues
<1> QED
  BY <1>4, <1>5, <1>6, <1>7 DEF Call

(***************************************************************************)
(* A return: the slots of the function are popped with its frame, the      *)
(* caller finds the one its window was short of, and main still has an     *)
(* instruction to run when it is the caller.                               *)
(***************************************************************************)
LEMMA ReturnRuns ==
  ASSUME IInv, Return PROVE Good'
<1> DEFINE m == Len(frames)
           s == StackDrop(stack)
           locals == Wrap(s.size - Top.offset)
           left   == IF locals > s.size THEN 0 ELSE s.size - locals
           t      == [s EXCEPT !.size = left]
           o == Top.offset
           h == Map[Top.ii]
<1>1. /\ status = "ok" /\ prog' = prog /\ Op = OP_RETURN /\ frames' = Front(frames)
      /\ stack' = StackPush(t, StackPeek(stack))
      /\ status' = IF m = 2 /\ PastEnd(Top.ii + 1) THEN "end" ELSE "ok"
  BY DEF Return, Executes
<1>2. /\ frames # <<>> /\ frames \in Seq(FrameType) /\ m \in Nat \ {0}
      /\ Top \in FrameType /\ InstructionFits(Top.fn, Fn, Map, Top.ii)
      /\ h \in 0 .. MaxHeight /\ stack.size = o + h
      /\ o + MaxHeight < WordMod /\ Top.ii \in 0 .. Len(Code) - 1
  BY <1>1, Fitting
<1>3. /\ IsStack(stack, ProgramValues) /\ stack.size \in Nat /\ o \in Nat
      /\ Takes(Op, FirstOperand) <= stack.size
  BY <1>1, Sizes
<1>4. /\ Top.fn # "main" /\ Top.ii + 1 < Len(Code) /\ 1 <= h
  BY <1>1, <1>2, Effects DEF InstructionFits, Op, Code
<1>5. s.size = o + h - 1 /\ IsStack(s, ProgramValues)
  <2>1. stack.size > 0
    BY <1>2, <1>3, <1>4
  <2> QED
    BY <1>2, <1>3, <2>1, DropOne
<1>6. left = o
  <2>1. /\ h \in Nat /\ 1 <= h /\ h <= MaxHeight /\ o \in Nat /\ o + MaxHeight < WordMod
        /\ s.size = o + h - 1 /\ MaxHeight \in Nat /\ WordMod \in Nat
    BY <1>2, <1>3, <1>4, <1>5, WordModAssumption, StackMapAssumption
  <2>2. \A n \in 0 .. WordMod - 1 : Wrap(n) = n
    BY WordModAssumption DEF Wrap
  <2>3. s.size - o = h - 1 /\ h - 1 \in 0 .. WordMod - 1
    <3> HIDE DEF h, o, s
    <3> QED
      BY <2>1
  <2>4. locals = h - 1
    BY <2>2, <2>3
  <2> HIDE DEF h, o, s, locals
  <2> QED
    BY <2>1, <2>4 DEF left
<1>7. stack'.size = o + 1
  <2>1. t.size = o
    <3> HIDE DEF left, s
    <3> QED
      BY <1>5, <1>6 DEF IsStack
  <2> HIDE DEF t
  <2> QED
    BY <1>1, <2>1 DEF StackPush
<1>8. /\ Len(frames') = m - 1 /\ \A i \in 1 .. m - 1 : frames'[i] = frames[i]
  BY <1>1, <1>2, FrontOf
<1>9. Top = frames[m]
  BY DEF Top
<1>10. /\ frames[1].fn = "main" /\ frames[1].offset = 0
       /\ \A i \in 2 .. m : frames[i].fn # "main"
       /\ \A i \in 1 .. m : frames[i].ii \in DOMAIN Heights[prog][frames[i].fn]
       /\ \A i \in 1 .. m - 1 : frames[i + 1].offset + 1 = frames[i].offset + At(frames[i])
       /\ \A i \in 1 .. m : frames[i].offset <= (i - 1) * MaxHeight
       /\ \A i \in 1 .. m - 1 : frames[i].ii < Len(Programs[prog][frames[i].fn].code)
  BY <1>1, FrameFacts
<1> HIDE DEF m, o, s, left, t, h
<1>11. m \in Nat /\ m - 1 \in Nat /\ m - 1 >= 1
  <2>1. m # 1
    BY <1>4, <1>9, <1>10
  <2> QED
    BY <1>2, <2>1
<1>12. Len(frames') \in Nat /\ Len(frames') = m - 1 /\ Top' = frames[m - 1]
  BY <1>8, <1>11 DEF Top
<1>13. stack'.size = Top'.offset + At(Top')
  <2>1. frames[m].offset + 1 = frames[m - 1].offset + At(frames[m - 1])
    <3>1. m - 1 \in 1 .. m - 1 /\ (m - 1) + 1 = m
      BY <1>11
    <3> QED
      BY <1>10, <3>1
  <2> QED
    BY <1>7, <1>9, <1>12, <2>1 DEF o
<1>14. Discipline'
  <2>1. frames' # <<>> /\ frames'[1].fn = "main" /\ frames'[1].offset = 0
    BY <1>8, <1>10, <1>11
  <2>2. \A i \in 2 .. m - 1 : frames'[i].fn # "main"
    <3> TAKE i \in 2 .. m - 1
    <3>1. i \in 1 .. m - 1 /\ i \in 2 .. m
      BY <1>11
    <3> QED
      BY <1>8, <1>10, <3>1
  <2>3. \A i \in 1 .. m - 1 : frames'[i].ii \in DOMAIN Heights[prog][frames'[i].fn]
    BY <1>8, <1>10, <1>11
  <2>4. \A i \in 1 .. (m - 1) - 1 :
          frames'[i + 1].offset + 1 = frames'[i].offset + At(frames'[i])
    <3> TAKE i \in 1 .. (m - 1) - 1
    <3>1. i \in 1 .. m - 1 /\ i + 1 \in 1 .. m - 1
      BY <1>11
    <3> QED
      BY <1>8, <1>10, <3>1
  <2> QED
    BY <1>1, <1>12, <1>13, <2>1, <2>2, <2>3, <2>4 DEF Discipline, Height, At, Top
<1>15. status' = "ok"
  <2>1. ~ PastEnd(Top.ii + 1)
    <3>1. Len(Code) \in Nat
      BY <1>1, Fitting DEF Code, Functions
    <3> QED
      BY <1>2, <1>4, <3>1 DEF PastEnd
  <2> QED
    BY <1>1, <2>1
<1>16. Outcome'
  <2>1. m - 1 \in 1 .. m - 1
    BY <1>11
  <2>2. Top'.ii < Len(Code')
    BY <1>1, <1>10, <1>12, <2>1 DEF Code, Fn
  <2> QED
    BY <1>15, <2>2 DEF Outcome
<1>17. Within'
  <2>1. \A i \in 1 .. m - 1 : frames'[i].offset <= (i - 1) * MaxHeight
    <3> TAKE i \in 1 .. m - 1
    <3>1. i \in 1 .. m /\ frames'[i] = frames[i]
      BY <1>8, <1>11
    <3> QED
      BY <1>10, <3>1
  <2>2. \A i \in 1 .. (m - 1) - 1 : frames'[i].ii < Len(Programs[prog][frames'[i].fn].code)
    <3> TAKE i \in 1 .. (m - 1) - 1
    <3>1. i \in 1 .. m - 1
      BY <1>11
    <3> QED
      BY <1>8, <1>10, <3>1
  <2> QED
    BY <1>1, <1>12, <2>1, <2>2 DEF Within
<1> QED
  BY <1>14, <1>16, <1>17 DEF Good

-----------------------------------------------------------------------------
\* A run starts with main's first instruction and no slots.
LEMMA GoodInit == Init => IInv
<1> SUFFICES ASSUME Init PROVE IInv
  OBVIOUS
<1>1. /\ prog \in DOMAIN Programs /\ frames = <<[fn |-> "main", ii |-> 0, offset |-> 0]>>
      /\ stack.size = 0 /\ status = "ok"
  BY DEF Init, EmptyStack
<1>2. "main" \in DOMAIN Programs[prog] /\ Programs[prog]["main"].arity = 0
      /\ Programs[prog]["main"] \in Functions
  BY <1>1, ProgramsAssumption
<1>3. FunctionFits("main", Programs[prog]["main"], Heights[prog]["main"])
  BY <1>1, <1>2, StackMapAssumption
<1>4. /\ 0 \in DOMAIN Heights[prog]["main"] /\ Heights[prog]["main"][0] = 0
      /\ Len(Programs[prog]["main"].code) > 0
  <2>1. Programs[prog]["main"].code # <<>> /\ Programs[prog]["main"].code \in Seq(Byte)
    BY <1>2, <1>3 DEF FunctionFits, Functions
  <2>2. Len(Programs[prog]["main"].code) > 0
    BY <2>1, EmptySeq
  <2> QED
    BY <1>2, <1>3, <2>2 DEF FunctionFits
<1>5. Discipline
  BY <1>1, <1>4 DEF Discipline, Height, Top
<1>6. Outcome
  BY <1>1, <1>4 DEF Outcome, Top, Code, Fn
<1>7. Within
  BY <1>1, StackMapAssumption DEF Within
<1>8. Made
  BY EmptyTableTyped, ProgramsAssumption DEF Init, Made, IsStack, EmptyStack
<1> QED
  BY <1>5, <1>6, <1>7, <1>8, TypeInit DEF IInv

\* No instruction of a program with a map reads a slot that was never stored in.
LEMMA MadeNext ==
  ASSUME IInv, Tick PROVE Made'
<1> DEFINE b  == StackPeek(stack)
           s1 == StackDrop(stack)
           a  == StackPeek(s1)
           s2 == StackDrop(s1)
<1>1. /\ status = "ok" /\ prog' = prog /\ frames # <<>> /\ ProgramValues' = ProgramValues
      /\ Fn \in Functions /\ InCode
  <2>1. status = "ok" /\ prog' = prog
    BY TickRuns
  <2> QED
    BY <2>1, Fitting DEF ProgramValues
<1>2. IsStack(stack, ProgramValues) /\ IsTable(globals, ProgramValues)
  BY DEF IInv, Made
<1>3. IsStack(s1, ProgramValues) /\ b \in ProgramValues /\ b # Anything
  BY <1>2, PopTyped, StackHasValues, AnythingIsNoValue DEF ProgramValues
<1>4. IsStack(s2, ProgramValues) /\ a \in ProgramValues /\ a # Anything
  BY <1>3, PopTyped, StackHasValues, AnythingIsNoValue DEF ProgramValues
<1>5. ASSUME NEW v \in ProgramValues, stack' = StackPush(stack, v), globals' = globals
      PROVE  Made'
  BY <1>1, <1>2, <1>5, PushTyped DEF Made
<1>6. ASSUME stack' \in {stack, s1, s2}, globals' = globals PROVE Made'
  BY <1>1, <1>2, <1>3, <1>4, <1>6 DEF Made
<1> HIDE DEF a, b, s1, s2
<1>7. ASSUME HasName, Op \in GlobalOps PROVE Name \in Keys
  <2>1. Operand \in Byte
    BY <1>1, <1>7, Operands DEF IInv, GlobalOps, OneByteOperand
  <2>2. \A i \in 1 .. Len(Fn.names) : Fn.names[i] \in Keys
    BY <1>1, Fetched DEF IInv
  <2>3. Len(Fn.names) \in Nat
    BY <1>1 DEF Functions
  <2> QED
    BY <1>7, <2>1, <2>2, <2>3 DEF HasName, Name, Byte
<1>8. CASE Constant
  <2>1. Operand \in Byte
    BY <1>1, <1>8, Operands DEF IInv, Constant, Executes, OneByteOperand
  <2>2. Operand < Len(Fn.constants) => Fn.constants[Operand + 1] \in ProgramValues
    BY <1>1, <2>1, Fetched DEF IInv, Byte, Functions
  <2> QED
    BY <1>5, <1>6, <1>8, <2>2 DEF Constant
<1>9. CASE Constant16
  <2>1. Fn.constants # <<>> => Fn.constants[1] \in ProgramValues
    BY <1>1, Fetched, EmptySeq DEF IInv, Functions
  <2> QED
    BY <1>5, <1>6, <1>9, <2>1 DEF Constant16
<1>10. CASE DefineGlobal \/ SetGlobal
  <2>1. HasName /\ Op \in GlobalOps
    BY <1>10 DEF DefineGlobal, SetGlobal, Executes, GlobalOps
  <2>2. IsTable(TablePut(globals, Name, b), ProgramValues)
    BY <1>2, <1>3, <1>7, <2>1, TablePutTyped
  <2>3. globals' = TablePut(globals, Name, b) /\ stack' = s1
    BY <1>10 DEF DefineGlobal, SetGlobal, b, s1
  <2> QED
    BY <1>1, <1>3, <2>2, <2>3 DEF Made
<1>11. CASE GetGlobal
  <2>1. TableFetch(globals, Name) \in ProgramValues
    BY <1>2, <1>7, <1>11, FetchTyped DEF GetGlobal, Executes, GlobalOps
  <2> QED
    BY <1>5, <1>11, <2>1 DEF GetGlobal
<1>12. CASE GetLocal
  <2>1. /\ Map[Top.ii] \in 0 .. MaxHeight /\ stack.size = Top.offset + Map[Top.ii]
        /\ Top.offset + MaxHeight < WordMod /\ Op = OP_GET_LOCAL
        /\ FirstOperand \in Byte /\ Top.offset \in Nat
    BY <1>1, <1>12, Fitting, Sizes DEF GetLocal, Executes
  <2>2. Operand = FirstOperand /\ Operand < Map[Top.ii]
    BY <1>1, <2>1, Fitting DEF InstructionFits, Op, Code, Operand, OneByteOperand, FirstOperand
  <2>3. LocalSlot = Top.offset + Operand
    <3>1. Top.offset + Operand \in 0 .. WordMod - 1
      BY <2>1, <2>2, WordModAssumption, StackMapAssumption DEF Byte
    <3>2. \A n \in 0 .. WordMod - 1 : Wrap(n) = n
      BY WordModAssumption DEF Wrap
    <3> QED
      BY <3>1, <3>2 DEF LocalSlot
  <2>4. LocalSlot \in 0 .. stack.size - 1
    BY <2>1, <2>2, <2>3, StackMapAssumption DEF Byte
  <2>5. /\ LocalSlot < Len(stack.mem) /\ ~ (LocalSlot > stack.size)
        /\ stack.mem[LocalSlot + 1] \in ProgramValues
    BY <1>2, <2>4 DEF IsStack
  <2> QED
    BY <1>5, <1>12, <2>5 DEF GetLocal
<1>13. CASE SetLocal
  <2>1. LocalSlot \in Nat
    <3>1. Operand \in Byte /\ Top.offset \in Nat
      BY <1>1, <1>13, Operands, Sizes DEF IInv, SetLocal, Executes, OneByteOperand
    <3> QED
      BY <3>1, WordModAssumption DEF LocalSlot, Wrap, Byte
  <2>2. CASE LocalSlot > s1.size
    BY <1>6, <1>13, <2>2 DEF SetLocal, s1
  <2>3. CASE ~ (LocalSlot > s1.size)
    <3>1. LocalSlot \in 0 .. s1.size
      BY <1>3, <2>1, <2>3 DEF IsStack
    <3>2. IsStack(StackSet(s1, LocalSlot, b), ProgramValues)
      BY <1>3, <3>1, SetTyped
    <3>3. stack' = StackSet(s1, LocalSlot, b) /\ globals' = globals
      BY <1>13, <2>3 DEF SetLocal, s1, b
    <3> QED
      BY <1>1, <1>2, <3>2, <3>3 DEF Made
  <2> QED
    BY <2>2, <2>3
<1>14. CASE Unary
  <2>1. PICK r \in UnaryResults(Op, b) :
          IF r = Fail THEN stack' = s1 ELSE stack' = StackPush(s1, r)
    BY <1>14 DEF Unary, s1, b
  <2>2. r \in ProgramValues \cup {Fail} /\ globals' = globals
    BY <1>3, <1>14, <2>1, UnaryTyped DEF ProgramValues, Unary
  <2> QED
    BY <1>1, <1>2, <1>3, <1>6, <2>1, <2>2, PushTyped DEF Made
<1>15. CASE Binary
  <2>1. Op \in BinaryOps /\ globals' = globals
    BY <1>15 DEF Binary, Executes
  <2>2. BinaryResults(Op, a, b) \subseteq ProgramValues \cup {Fail}
    BY <1>3, <1>4, <2>1, BinaryTyped DEF ProgramValues
  <2>3. \/ stack' \in {s1, s2}
        \/ stack' = StackPush(s2, NullVal)
        \/ \E r \in BinaryResults(Op, a, b) : r # Fail /\ stack' = StackPush(s2, r)
    BY <1>15 DEF Binary, a, b, s1, s2
  <2>4. \A v \in ProgramValues : IsStack(StackPush(s2, v), ProgramValues)
    BY <1>4, PushTyped
  <2> QED
    BY <1>1, <1>2, <1>6, <2>1, <2>2, <2>3, <2>4, StackHasValues DEF Made
<1>16. CASE Literal
  <2>1. LiteralValue(Op) \in ProgramValues
    BY StackHasValues DEF LiteralValue
  <2> QED
    BY <1>5, <1>16, <2>1 DEF Literal
<1>17. CASE Pop \/ JumpIfFalse \/ Call
  BY <1>6, <1>17 DEF Pop, JumpIfFalse, Call, s1
<1>18. CASE NoSuchName \/ UndefinedGlobal \/ Jump \/ UnknownOpcode \/ RunPastCode \/ NoFrame
  BY <1>6, <1>18 DEF NoSuchName, UndefinedGlobal, Jump, UnknownOpcode, RunPastCode, NoFrame
<1>19. CASE Return
  <2> DEFINE locals == Wrap(s1.size - Top.offset)
             left   == IF locals > s1.size THEN 0 ELSE s1.size - locals
             t      == [s1 EXCEPT !.size = left]
  <2>1. left \in 0 .. s1.size
    <3>1. s1.size \in Nat /\ Top.offset \in Nat
      BY <1>1, <1>3, Sizes DEF IsStack
    <3> QED
      BY <3>1, WordModAssumption DEF Wrap
  <2> HIDE DEF left
  <2>2. IsStack(t, ProgramValues)
    BY <1>3, <2>1 DEF IsStack
  <2>3. stack' = StackPush(t, b) /\ globals' = globals
    BY <1>19 DEF Return, left, s1, b
  <2> HIDE DEF t
  <2> QED
    BY <1>1, <1>2, <1>3, <2>2, <2>3, PushTyped DEF Made
<1> QED
  BY <1>8, <1>9, <1>10, <1>11, <1>12, <1>13, <1>14, <1>15, <1>16, <1>17, <1>18, <1>19 DEF Tick

\* Every step keeps IInv, one lemma per group of actions.
LEMMA GoodNext == IInv /\ [MatchedNext]_vars => IInv'
<1> SUFFICES ASSUME IInv, [MatchedNext]_vars PROVE IInv'
  OBVIOUS
<1>1. TypeOK'
  BY TypeNext DEF IInv, MatchedNext, MatchedTick, Next
<1>2. CASE MatchedTick
  <2> SUFFICES Good'
    BY <1>1, <1>2, MadeNext DEF IInv, Good, MatchedTick
  <2>1. CASE Constant \/ Constant16 \/ GetGlobal \/ GetLocal \/ Literal
    BY <2>1, PushingRuns
  <2>2. CASE DefineGlobal \/ SetGlobal \/ SetLocal \/ Pop
    BY <2>2, PoppingRuns
  <2>3. CASE Unary \/ Binary
    BY <2>3, OperatorsRun
  <2>4. CASE Jump \/ JumpIfFalse
    BY <2>4, JumpsRun
  <2>5. CASE NoSuchName \/ UndefinedGlobal \/ UnknownOpcode \/ RunPastCode \/ NoFrame
    BY <2>5, OthersStop
  <2>6. CASE Call
    BY <1>2, <2>6, CallRuns DEF MatchedTick
  <2>7. CASE Return
    BY <2>7, ReturnRuns
  <2> QED
    BY <1>2, <2>1, <2>2, <2>3, <2>4, <2>5, <2>6, <2>7 DEF MatchedTick, Tick
<1>3. CASE UNCHANGED vars
  BY <1>1, <1>3 DEF vars, IInv, Made, ProgramValues, Discipline, Outcome, Within, Height, Top, Code, Fn
<1> QED
  BY <1>2, <1>3 DEF MatchedNext, Stopped

(***************************************************************************)
(* For every program that has a stack map, while every call passes the     *)
(* declared number of arguments: each frame's slots start where its        *)
(* caller's stop, so that no function reaches another one's.               *)
(***************************************************************************)
THEOREM StackDiscipline == MatchedSpec => []Discipline
<1>1. IInv => Discipline
  BY DEF IInv
<1> QED
  BY <1>1, GoodInit, GoodNext, PTL DEF MatchedSpec

(***************************************************************************)
(* For the same runs: no index is out of range, the machine stays within   *)
(* its arrays but for a call too deep, and it ends where main does.        *)
(***************************************************************************)
THEOREM RunsEndWell == MatchedSpec => []Outcome
<1>1. IInv => Outcome
  BY DEF IInv
<1> QED
  BY <1>1, GoodInit, GoodNext, PTL DEF MatchedSpec

-----------------------------------------------------------------------------
(***************************************************************************)
(* The machine implements UucActivations, for every program with a stack   *)
(* map: the stack it shares among all functions is, for each activation, a *)
(* stack of its own.                                                       *)
(***************************************************************************)
\* The activations that the refinement mapping shows.
Acts == [i \in 1 .. Len(frames) |-> Activation(i)]

\* The windows on the stack do not go back.
Nested ==
  \A i, j \in 1 .. Len(frames) : i <= j => frames[i].offset <= frames[j].offset

PInv == IInv /\ Nested

-----------------------------------------------------------------------------
(***************************************************************************)
(* Windows on a sequence of slots.                                         *)
(***************************************************************************)
\* What a window holds.
LEMMA Window ==
  ASSUME NEW V, NEW mem \in Seq(V), NEW a \in Nat, NEW b \in Nat, a <= b, b <= Len(mem)
  PROVE  /\ SubSeq(mem, a + 1, b) \in Seq(V)
         /\ Len(SubSeq(mem, a + 1, b)) = b - a
         /\ \A i \in 1 .. b - a : SubSeq(mem, a + 1, b)[i] = mem[a + i]
<1>1. \A i \in a + 1 .. b : mem[i] \in V
  OBVIOUS
<1>2. /\ SubSeq(mem, a + 1, b) \in Seq(V)
      /\ Len(SubSeq(mem, a + 1, b)) = IF a + 1 <= b THEN b - (a + 1) + 1 ELSE 0
      /\ \A i \in 1 .. b - (a + 1) + 1 : SubSeq(mem, a + 1, b)[i] = mem[a + 1 + i - 1]
  BY <1>1, SubSeqProperties
<1>3. b - (a + 1) + 1 = b - a /\ \A i \in 1 .. b - a : a + 1 + i - 1 = a + i
  OBVIOUS
<1>4. \A i \in 1 .. b - a : SubSeq(mem, a + 1, b)[i] = mem[a + i]
  BY <1>2, <1>3
<1> QED
  BY <1>2, <1>4

\* A window is what it is made of.
LEMMA SameWindow ==
  ASSUME NEW V, NEW mem \in Seq(V), NEW a \in Nat, NEW b \in Nat, a <= b, b <= Len(mem),
         NEW w \in Seq(V), Len(w) = b - a, \A i \in 1 .. b - a : w[i] = mem[a + i]
  PROVE  w = SubSeq(mem, a + 1, b)
  BY Window, SeqEqual

\* A window below everything that changed.
LEMMA KeptWindow ==
  ASSUME NEW V, NEW old \in Seq(V), NEW new \in Seq(V), NEW a \in Nat, NEW b \in Nat,
         a <= b, b <= Len(old), b <= Len(new), \A j \in 1 .. b : new[j] = old[j]
  PROVE  SubSeq(new, a + 1, b) = SubSeq(old, a + 1, b)
<1>1. /\ SubSeq(new, a + 1, b) \in Seq(V) /\ Len(SubSeq(new, a + 1, b)) = b - a
      /\ \A i \in 1 .. b - a : SubSeq(new, a + 1, b)[i] = new[a + i]
  BY Window
<1>2. \A i \in 1 .. b - a : a + i \in 1 .. b
  OBVIOUS
<1> QED
  BY <1>1, <1>2, SameWindow

\* A window of a window.
LEMMA SubWindow ==
  ASSUME NEW V, NEW mem \in Seq(V), NEW a \in Nat, NEW b \in Nat, a <= b, b <= Len(mem),
         NEW c \in Nat, NEW d \in Nat, c <= d, d <= b - a
  PROVE  SubSeq(SubSeq(mem, a + 1, b), c + 1, d) = SubSeq(mem, a + c + 1, a + d)
<1> DEFINE w == SubSeq(mem, a + 1, b)
<1>1. w \in Seq(V) /\ Len(w) = b - a /\ \A i \in 1 .. b - a : w[i] = mem[a + i]
  BY Window
<1> HIDE DEF w
<1>2. /\ SubSeq(w, c + 1, d) \in Seq(V) /\ Len(SubSeq(w, c + 1, d)) = d - c
      /\ \A i \in 1 .. d - c : SubSeq(w, c + 1, d)[i] = w[c + i]
  BY <1>1, Window
<1> DEFINE p == a + c
           q == a + d
<1>3. p \in Nat /\ q \in Nat /\ p <= q /\ q <= Len(mem) /\ q - p = d - c
  OBVIOUS
<1>4. \A i \in 1 .. d - c : c + i \in 1 .. b - a /\ a + (c + i) = p + i
  OBVIOUS
<1>5. \A i \in 1 .. d - c : SubSeq(w, c + 1, d)[i] = mem[p + i]
  BY <1>1, <1>2, <1>4
<1> DEFINE x == SubSeq(w, c + 1, d)
<1> HIDE DEF p, q
<1>6. x \in Seq(V) /\ Len(x) = q - p /\ \A i \in 1 .. q - p : x[i] = mem[p + i]
  BY <1>2, <1>3, <1>5
<1> HIDE DEF x
<1>7. x = SubSeq(mem, p + 1, q)
  BY <1>3, <1>6, SameWindow
<1> QED
  BY <1>7 DEF w, p, q, x

\* The top of a window and what is below it.
LEMMA WindowTop ==
  ASSUME NEW V, NEW mem \in Seq(V), NEW a \in Nat, NEW b \in Nat, a < b, b <= Len(mem)
  PROVE  /\ SubSeq(mem, a + 1, b) # <<>>
         /\ Last(SubSeq(mem, a + 1, b)) = mem[b]
         /\ Front(SubSeq(mem, a + 1, b)) = SubSeq(mem, a + 1, b - 1)
<1> DEFINE w == SubSeq(mem, a + 1, b)
<1>1. w \in Seq(V) /\ Len(w) = b - a /\ \A i \in 1 .. b - a : w[i] = mem[a + i]
  BY Window
<1>2. Front(w) = SubSeq(mem, a + 1, b - 1)
  <2>1. Front(w) = SubSeq(w, 0 + 1, b - a - 1)
    BY <1>1 DEF Front
  <2>2. /\ 0 \in Nat /\ b - a - 1 \in Nat /\ 0 <= b - a - 1 /\ b - a - 1 <= b - a
        /\ a + 0 + 1 = a + 1 /\ a + (b - a - 1) = b - 1
    OBVIOUS
  <2>3. SubSeq(w, 0 + 1, b - a - 1) = SubSeq(mem, a + 0 + 1, a + (b - a - 1))
    BY <2>2, SubWindow
  <2> QED
    BY <2>1, <2>2, <2>3
<1>3. Last(w) = mem[b]
  <2>1. b - a \in 1 .. b - a /\ a + (b - a) = b
    OBVIOUS
  <2> HIDE DEF w
  <2>2. w[b - a] = mem[b]
    BY <1>1, <2>1
  <2> QED
    BY <1>1, <2>2 DEF Last
<1>4. w # <<>>
  BY <1>1
<1> QED
  BY <1>2, <1>3, <1>4

\* One more value on top of a window.
LEMMA WindowAppend ==
  ASSUME NEW V, NEW old \in Seq(V), NEW new \in Seq(V), NEW a \in Nat, NEW b \in Nat,
         a <= b, b <= Len(old), b + 1 <= Len(new), \A j \in 1 .. b : new[j] = old[j]
  PROVE  SubSeq(new, a + 1, b + 1) = Append(SubSeq(old, a + 1, b), new[b + 1])
<1> DEFINE w == SubSeq(old, a + 1, b)
           x == Append(w, new[b + 1])
<1>1. w \in Seq(V) /\ Len(w) = b - a /\ \A i \in 1 .. b - a : w[i] = old[a + i]
  BY Window
<1>2. x \in Seq(V) /\ Len(x) = b + 1 - a
  BY <1>1
<1>3. \A i \in 1 .. b + 1 - a : x[i] = new[a + i]
  BY <1>1
<1> HIDE DEF x
<1>4. x = SubSeq(new, a + 1, b + 1)
  BY <1>2, <1>3, SameWindow
<1> QED
  BY <1>4 DEF x

-----------------------------------------------------------------------------
(***************************************************************************)
(* Instructions that neither call nor return write no slot below the       *)
(* window of the frame that executes them, and move no window's start.     *)
(***************************************************************************)
\* t has the slots that stack has below the top frame's window.
KeepsBelow(t) ==
  Top.offset <= Len(t.mem) /\ \A j \in 1 .. Top.offset : t.mem[j] = stack.mem[j]

\* A write changes no slot below the one written.
LEMMA StoreKeeps ==
  ASSUME NEW V, NEW mem \in Seq(V), NEW i \in 0 .. Len(mem), NEW v, NEW k \in 0 .. i
  PROVE  k <= Len(Store(mem, i, v)) /\ \A j \in 1 .. k : Store(mem, i, v)[j] = mem[j]
<1> DEFINE W == V \cup {v}
<1>1. mem \in Seq(W) /\ v \in W
  OBVIOUS
<1> HIDE DEF W
<1>2. /\ Len(Store(mem, i, v)) = IF i < Len(mem) THEN Len(mem) ELSE Len(mem) + 1
      /\ \A j \in 1 .. Len(mem) : j # i + 1 => Store(mem, i, v)[j] = mem[j]
  BY <1>1, StoreTyped
<1>3. /\ Len(mem) \in Nat /\ i \in Nat /\ k \in Nat /\ k <= i /\ i <= Len(mem)
      /\ \A j \in 1 .. k : j \in 1 .. Len(mem) /\ j # i + 1
  OBVIOUS
<1>4. k <= Len(Store(mem, i, v))
  BY <1>2, <1>3
<1> QED
  BY <1>2, <1>3, <1>4

\* A push on a stack that kept those slots, with its top no lower.
LEMMA PushKeeps ==
  ASSUME NEW V, NEW s, IsStack(s, V), KeepsBelow(s), NEW v,
         Top.offset \in Nat, Top.offset <= s.size
  PROVE  KeepsBelow(StackPush(s, v))
<1>1. s.mem \in Seq(V) /\ s.size \in 0 .. Len(s.mem) /\ Top.offset \in 0 .. s.size
  BY DEF IsStack
<1>2. StackPush(s, v).mem = Store(s.mem, s.size, v)
  BY DEF StackPush
<1>3. /\ Top.offset <= Len(Store(s.mem, s.size, v))
      /\ \A j \in 1 .. Top.offset : Store(s.mem, s.size, v)[j] = s.mem[j]
  BY <1>1, StoreKeeps
<1> QED
  BY <1>2, <1>3 DEF KeepsBelow

\* Pops erase nothing.
LEMMA DropKeeps ==
  ASSUME NEW V, NEW s, IsStack(s, V), KeepsBelow(s)
  PROVE  KeepsBelow(StackDrop(s))
  BY DEF KeepsBelow, StackDrop, IsStack

\* The stack itself, and how far its top is above the window's start.
LEMMA StackIsKept ==
  ASSUME IInv, status = "ok"
  PROVE  /\ IsStack(stack, ProgramValues) /\ KeepsBelow(stack)
         /\ Top.offset \in Nat /\ stack.size \in Nat
         /\ Top.offset + Takes(Op, FirstOperand) <= stack.size
<1>1. /\ Takes(Op, FirstOperand) <= Map[Top.ii] /\ Map[Top.ii] \in 0 .. MaxHeight
      /\ stack.size = Top.offset + Map[Top.ii] /\ FirstOperand \in Byte
  BY Fitting DEF InstructionFits, Code, Op, Operand, FirstOperand
<1>2. IsStack(stack, ProgramValues) /\ stack.size \in Nat /\ Top.offset \in Nat
  BY Sizes
<1>3. Takes(Op, FirstOperand) \in Int /\ MaxHeight \in Int
  BY <1>1, StackMapAssumption DEF Takes, Byte
<1>4. stack.size <= Len(stack.mem) /\ Len(stack.mem) \in Nat
  BY <1>2 DEF IsStack
<1>5. Top.offset <= stack.size /\ Top.offset + Takes(Op, FirstOperand) <= stack.size
  BY <1>1, <1>2, <1>3
<1>6. Top.offset <= Len(stack.mem)
  BY <1>2, <1>4, <1>5
<1>7. KeepsBelow(stack)
  BY <1>6 DEF KeepsBelow
<1> QED
  BY <1>2, <1>5, <1>7

\* No step but a call or a return writes below the window.
LEMMA WritesAbove ==
  ASSUME IInv, Tick, ~ Call, ~ Return
  PROVE  KeepsBelow(stack')
<1> DEFINE s1 == StackDrop(stack)
           s2 == StackDrop(s1)
<1>1. status = "ok"
  BY DEF Tick, Constant, Constant16, NoSuchName, DefineGlobal, GetGlobal, SetGlobal,
    UndefinedGlobal, GetLocal, SetLocal, Unary, Binary, Literal, Pop, Jump, JumpIfFalse,
    UnknownOpcode, RunPastCode, NoFrame, Executes
<1>2. /\ IsStack(stack, ProgramValues) /\ KeepsBelow(stack)
      /\ Top.offset \in Nat /\ stack.size \in Nat
      /\ Top.offset + Takes(Op, FirstOperand) <= stack.size
  BY <1>1, StackIsKept
<1>3. IsStack(s1, ProgramValues) /\ KeepsBelow(s1)
  BY <1>2, DropKeeps, PopTyped, StackHasValues
<1>4. IsStack(s2, ProgramValues) /\ KeepsBelow(s2)
  BY <1>3, DropKeeps, PopTyped, StackHasValues
<1>5. s1.size = (IF stack.size = 0 THEN 0 ELSE stack.size - 1)
  BY <1>2, PopTyped, StackHasValues
<1>6. s2.size = (IF s1.size = 0 THEN 0 ELSE s1.size - 1)
  BY <1>3, PopTyped, StackHasValues
<1> HIDE DEF s1, s2
<1>7. CASE Constant \/ Constant16 \/ GetGlobal \/ GetLocal \/ Literal
  <2>1. stack' = stack \/ \E v : stack' = StackPush(stack, v)
    BY <1>7 DEF Constant, Constant16, GetGlobal, GetLocal, Literal
  <2>2. Top.offset <= stack.size
    <3>1. stack.size = Top.offset + Map[Top.ii] /\ Map[Top.ii] \in 0 .. MaxHeight
      BY <1>1, Fitting
    <3> QED
      BY <1>2, <3>1, StackMapAssumption
  <2> QED
    BY <1>2, <2>1, <2>2, PushKeeps
<1>8. CASE NoSuchName \/ UndefinedGlobal \/ Jump \/ UnknownOpcode \/ RunPastCode \/ NoFrame
  BY <1>2, <1>8 DEF NoSuchName, UndefinedGlobal, Jump, UnknownOpcode, RunPastCode, NoFrame
<1>9. CASE DefineGlobal \/ SetGlobal \/ Pop \/ JumpIfFalse
  BY <1>3, <1>9 DEF DefineGlobal, SetGlobal, Pop, JumpIfFalse, s1
<1>10. CASE SetLocal
  <2>1. Op = OP_SET_LOCAL
    BY <1>10 DEF SetLocal, Executes
  <2>2. /\ InstructionFits(Top.fn, Fn, Map, Top.ii) /\ Top.offset + MaxHeight < WordMod
        /\ Map[Top.ii] \in 0 .. MaxHeight /\ stack.size = Top.offset + Map[Top.ii]
        /\ FirstOperand \in Byte
    BY <1>1, Fitting
  <2>3. Operand = FirstOperand /\ Operand < Map[Top.ii] - 1
    BY <2>1, <2>2 DEF InstructionFits, Op, Code, Operand, OneByteOperand, FirstOperand
  <2>4. LocalSlot = Top.offset + Operand
    <3>1. Top.offset + Operand \in 0 .. WordMod - 1
      BY <1>2, <2>2, <2>3, WordModAssumption, StackMapAssumption DEF Byte
    <3>2. \A n \in 0 .. WordMod - 1 : Wrap(n) = n
      BY WordModAssumption DEF Wrap
    <3> QED
      BY <3>1, <3>2 DEF LocalSlot
  <2>5. LocalSlot \in Nat /\ Top.offset <= LocalSlot /\ LocalSlot <= s1.size
    BY <1>2, <1>5, <2>2, <2>3, <2>4, StackMapAssumption DEF Byte
  <2>6. /\ s1.mem \in Seq(ProgramValues) /\ LocalSlot \in 0 .. Len(s1.mem)
        /\ Top.offset \in 0 .. LocalSlot
    BY <1>2, <1>3, <2>5 DEF IsStack
  <2>7. stack' = s1 \/ stack' = StackSet(s1, LocalSlot, StackPeek(stack))
    BY <1>10 DEF SetLocal, s1
  <2>8. KeepsBelow(StackSet(s1, LocalSlot, StackPeek(stack)))
    <3> DEFINE v == StackPeek(stack)
               new == Store(s1.mem, LocalSlot, v)
    <3>1. Top.offset <= Len(new) /\ \A j \in 1 .. Top.offset : new[j] = s1.mem[j]
      BY <2>6, StoreKeeps
    <3>2. StackSet(s1, LocalSlot, v).mem = new
      BY <1>3 DEF StackSet, IsStack
    <3> HIDE DEF v, new
    <3> QED
      BY <1>3, <3>1, <3>2 DEF KeepsBelow, v
  <2> QED
    BY <1>3, <2>7, <2>8
<1>11. CASE Unary
  <2>1. Takes(Op, FirstOperand) = 1
    BY <1>11, Effects DEF Unary, Executes
  <2>2. Top.offset <= s1.size
    BY <1>2, <1>5, <2>1
  <2>3. stack' = s1 \/ \E v : stack' = StackPush(s1, v)
    BY <1>11 DEF Unary, s1
  <2> QED
    BY <1>2, <1>3, <2>2, <2>3, PushKeeps
<1>12. CASE Binary
  <2>1. Takes(Op, FirstOperand) = 2
    BY <1>12, Effects DEF Binary, Executes
  <2>2. Top.offset <= s2.size
    BY <1>2, <1>5, <1>6, <2>1
  <2>3. stack' = s1 \/ stack' = s2 \/ \E v : stack' = StackPush(s2, v)
    BY <1>12 DEF Binary, s1, s2
  <2> QED
    BY <1>2, <1>3, <1>4, <2>2, <2>3, PushKeeps
<1> QED
  BY <1>7, <1>8, <1>9, <1>10, <1>11, <1>12 DEF Tick

\* The frames stay, each with its function and the start of its window.
FramesStay ==
  /\ Len(frames') = Len(frames)
  /\ \A i \in 1 .. Len(frames) :
       frames'[i].fn = frames[i].fn /\ frames'[i].offset = frames[i].offset

\* An instruction that moves the executing frame moves no window.
LEMMA AdvanceStays ==
  ASSUME TypeOK, frames # <<>>, NEW n \in Int, Advance(n)
  PROVE  FramesStay
<1>1. /\ Len(frames') = Len(frames)
      /\ \A i \in 1 .. Len(frames) - 1 : frames'[i] = frames[i]
      /\ frames'[Len(frames)] = [Top EXCEPT !.ii = @ + n]
  BY AdvanceTyped
<1>2. Len(frames) \in Nat \ {0} /\ Top \in FrameType /\ Top = frames[Len(frames)]
  BY Fetched DEF Top
<1>3. frames'[Len(frames)].fn = Top.fn /\ frames'[Len(frames)].offset = Top.offset
  BY <1>1, <1>2 DEF FrameType
<1>4. \A i \in 1 .. Len(frames) : i \in 1 .. Len(frames) - 1 \/ i = Len(frames)
  BY <1>2
<1>5. \A i \in 1 .. Len(frames) :
        frames'[i].fn = frames[i].fn /\ frames'[i].offset = frames[i].offset
  BY <1>1, <1>2, <1>3, <1>4
<1> QED
  BY <1>1, <1>5 DEF FramesStay

\* No step but a call or a return moves a window's start.
LEMMA WindowsStay ==
  ASSUME TypeOK, Tick, ~ Call, ~ Return
  PROVE  FramesStay
<1>1. ASSUME frames # <<>>, NEW n \in Int, Advance(n)
      PROVE  FramesStay
  BY <1>1, AdvanceStays
<1>2. ASSUME NEW reason, Halt(reason)
      PROVE  FramesStay
  BY <1>2 DEF Halt, FramesStay
<1>3. CASE Constant \/ Constant16
  BY <1>1, <1>2, <1>3 DEF Constant, Constant16, Executes
<1>4. CASE NoSuchName \/ DefineGlobal \/ GetGlobal \/ SetGlobal \/ UndefinedGlobal
  BY <1>1, <1>2, <1>4 DEF NoSuchName, DefineGlobal, GetGlobal, SetGlobal,
    UndefinedGlobal, Executes
<1>5. CASE GetLocal \/ SetLocal
  BY <1>1, <1>2, <1>5 DEF GetLocal, SetLocal, Executes
<1>6. CASE Unary \/ Literal \/ Pop
  BY <1>1, <1>2, <1>6 DEF Unary, Literal, Pop, Executes
<1>7. CASE Binary
  <2>1. frames # <<>> /\ (Advance(1) \/ Halt("error") \/ Halt("wild"))
    BY <1>7 DEF Binary, Executes
  <2> QED
    BY <1>1, <1>2, <2>1
<1>8. CASE Jump \/ JumpIfFalse
  <2>1. frames # <<>> /\ InCode /\ Op \in TwoByteOperand
    BY <1>8 DEF Jump, JumpIfFalse, Executes, TwoByteOperand
  <2>2. Operand16 \in Nat
    BY <2>1, Operands
  <2>3. Halt("error") \/ Halt("wild") \/ \E n \in Int : Advance(n)
    BY <1>8, <2>2 DEF Jump, JumpIfFalse
  <2> QED
    BY <1>1, <1>2, <2>1, <2>3
<1>9. CASE UnknownOpcode \/ RunPastCode \/ NoFrame
  BY <1>2, <1>9 DEF UnknownOpcode, RunPastCode, NoFrame
<1> QED
  BY <1>3, <1>4, <1>5, <1>6, <1>7, <1>8, <1>9 DEF Tick

-----------------------------------------------------------------------------
(***************************************************************************)
(* What a call and a return do to the frames and the stack, in terms of    *)
(* the windows.                                                            *)
(***************************************************************************)
\* A call that succeeds: the callee's window is cut off the caller's.
LEMMA CallFacts ==
  ASSUME IInv, IInv', Call, CallsMatch, ~ Halt("error"), ~ Halt("wild"),
         NEW callee, callee = StackPeek(stack),
         NEW k, k = Programs[prog][callee.fn].arity
  PROVE  /\ status = "ok" /\ status' = "ok" /\ prog' = prog
         /\ callee.type = "function" /\ callee.fn \in DOMAIN Programs[prog]
         /\ k \in Nat /\ Top.offset + k + 1 <= stack.size
         /\ stack'.mem = stack.mem /\ stack'.size = stack.size - 1
         /\ Len(frames') = Len(frames) + 1
         /\ \A i \in 1 .. Len(frames) :
              frames'[i].fn = frames[i].fn /\ frames'[i].offset = frames[i].offset
         /\ frames'[Len(frames) + 1].fn = callee.fn
         /\ frames'[Len(frames) + 1].offset = stack.size - 1 - k
<1> DEFINE m == Len(frames)
           s == StackDrop(stack)
           caller == [Top EXCEPT !.ii = @ + 2]
           below == [frames EXCEPT ![m] = caller]
           new == [fn |-> callee.fn, ii |-> 0,
                   offset |-> FrameOffset(s, Programs[prog][callee.fn])]
<1>1. /\ status = "ok" /\ prog' = prog /\ Op = OP_CALL /\ stack' = s
      /\ callee.type = "function" /\ status' = status
      /\ frames' = Append([frames EXCEPT ![m].ii = @ + 2], new)
      /\ Executes({OP_CALL})
  BY DEF Call, Executes
<1>2. /\ frames \in Seq(FrameType) /\ m \in Nat \ {0} /\ Top \in FrameType
      /\ Top = frames[m]
  BY <1>1, Fitting DEF Top
<1>3. /\ IsStack(stack, ProgramValues) /\ stack.size \in Nat /\ Top.offset \in Nat
      /\ Top.offset + Takes(Op, FirstOperand) <= stack.size
  BY <1>1, StackIsKept
<1>4. callee.fn \in DOMAIN Programs[prog]
  <2>1. callee \in ProgramValues
    BY <1>3, PopTyped, StackHasValues
  <2> QED
    BY <1>1, <2>1, ValueCases DEF ProgramValues
<1>5. /\ FunctionFits(callee.fn, Programs[prog][callee.fn], Heights[prog][callee.fn])
      /\ Programs[prog][callee.fn] \in Functions
  <2>1. prog \in DOMAIN Programs
    BY DEF IInv, TypeOK
  <2> QED
    BY <1>4, <2>1, StackMapAssumption, ProgramsAssumption
<1>6. k \in Nat /\ Heights[prog][callee.fn][0] = k
  BY <1>5 DEF Functions, Byte, FunctionFits
<1>7. Takes(Op, FirstOperand) = k + 1
  <2>1. Operand = k
    BY <1>1 DEF CallsMatch
  <2>2. FirstOperand = Operand
    BY <1>1 DEF FirstOperand, OneByteOperand
  <2> QED
    BY <1>1, <2>1, <2>2, Effects
<1>8. Top.offset + k + 1 <= stack.size
  BY <1>3, <1>6, <1>7
<1>9. stack'.mem = stack.mem /\ stack'.size = stack.size - 1
  <2>1. stack.size > 0
    BY <1>3, <1>6, <1>8
  <2>2. s.mem = stack.mem /\ s.size = IF stack.size = 0 THEN 0 ELSE stack.size - 1
    BY <1>3, PopTyped, StackHasValues
  <2> HIDE DEF s
  <2> QED
    BY <1>1, <1>3, <2>1, <2>2
<1>10. caller \in FrameType /\ caller.fn = Top.fn /\ caller.offset = Top.offset
  <2>1. Top \in FrameType
    BY <1>2
  <2> QED
    BY <2>1 DEF FrameType
<1>11. new.fn = callee.fn /\ new.ii = 0 /\ frames' = Append(below, new)
  BY <1>1, <1>2
<1> HIDE DEF caller, new
<1>12. /\ below \in Seq(FrameType) /\ Len(below) = m
       /\ \A i \in 1 .. m : below[i] = IF i = m THEN caller ELSE frames[i]
  BY <1>2, <1>10, ExceptSeq
<1> HIDE DEF below, m
<1>13. /\ Len(frames') = m + 1 /\ frames'[m + 1] = new
       /\ \A i \in 1 .. m : frames'[i] = below[i]
  BY <1>2, <1>11, <1>12
<1>14. \A i \in 1 .. m :
         frames'[i].fn = frames[i].fn /\ frames'[i].offset = frames[i].offset
  BY <1>2, <1>10, <1>12, <1>13
<1>15. new.offset = stack.size - 1 - k
  <2>1. stack'.size = Top'.offset + At(Top)'
    BY <1>1 DEF IInv, Discipline, Height, At, Top
  <2>2. Top' = new
    BY <1>13 DEF Top
  <2>3. At(Top)' = k
    BY <1>1, <1>6, <1>11, <2>2 DEF At
  <2>4. new.offset \in Nat
    <3>1. frames' \in Seq(FrameType)'
      BY DEF IInv, TypeOK, FrameType
    <3>2. m + 1 \in 1 .. Len(frames')
      BY <1>2, <1>13
    <3>3. frames'[m + 1] \in FrameType'
      BY <3>1, <3>2
    <3> QED
      BY <1>13, <3>3 DEF FrameType
  <2> QED
    BY <1>3, <1>6, <1>9, <2>1, <2>2, <2>3, <2>4
<1> QED
  BY <1>1, <1>4, <1>6, <1>8, <1>9, <1>11, <1>13, <1>14, <1>15 DEF m

\* A return: the result takes the place of the callee's window.
LEMMA ReturnFacts ==
  ASSUME IInv, IInv', Return
  PROVE  /\ status = "ok" /\ status' = "ok" /\ prog' = prog
         /\ Len(frames) > 1 /\ Len(frames') = Len(frames) - 1
         /\ \A i \in 1 .. Len(frames) - 1 : frames'[i] = frames[i]
         /\ Top.offset < stack.size /\ KeepsBelow(stack')
         /\ stack'.size = Top.offset + 1
         /\ Top.offset + 1 <= Len(stack'.mem)
         /\ stack'.mem[Top.offset + 1] = StackPeek(stack)
<1> DEFINE m == Len(frames)
           s == StackDrop(stack)
           locals == Wrap(s.size - Top.offset)
           left   == IF locals > s.size THEN 0 ELSE s.size - locals
           t      == [s EXCEPT !.size = left]
           v == StackPeek(stack)
<1>1. /\ status = "ok" /\ prog' = prog /\ Op = OP_RETURN /\ frames' = Front(frames)
      /\ stack' = StackPush(t, v)
      /\ status' = IF m = 2 /\ PastEnd(Top.ii + 1) THEN "end" ELSE "ok"
  BY DEF Return, Executes
<1>2. /\ frames # <<>> /\ frames \in Seq(FrameType) /\ m \in Nat \ {0}
      /\ Top = frames[m] /\ Top.ii \in 0 .. Len(Code) - 1 /\ Fn \in Functions
  BY <1>1, Fitting DEF Top
<1>3. Top.ii + 1 < Len(Code)
  BY <1>1, Fitting DEF InstructionFits, Op, Code
<1>4. status' = "ok"
  <2>1. Len(Code) \in Nat
    BY <1>2 DEF Code, Functions
  <2> QED
    BY <1>1, <1>2, <1>3, <2>1 DEF PastEnd
<1>5. Len(frames') = m - 1 /\ \A i \in 1 .. m - 1 : frames'[i] = frames[i]
  BY <1>1, <1>2, FrontOf
<1>6. /\ IsStack(stack, ProgramValues) /\ KeepsBelow(stack) /\ stack.size \in Nat
      /\ Top.offset \in Nat /\ Top.offset + Takes(Op, FirstOperand) <= stack.size
  BY <1>1, StackIsKept
<1>7. Top.offset < stack.size
  BY <1>1, <1>6, Effects
<1>8. v \in ProgramValues /\ IsStack(s, ProgramValues) /\ KeepsBelow(s)
  BY <1>6, PopTyped, StackHasValues, DropKeeps
<1>9. left \in 0 .. s.size
  BY <1>6, <1>8, WordModAssumption DEF IsStack, Wrap
<1> HIDE DEF left, s, v
<1>10. IsStack(t, ProgramValues) /\ t.mem = s.mem /\ t.size = left
  BY <1>8, <1>9 DEF IsStack
<1>11. stack'.size = left + 1
  BY <1>1, <1>10 DEF StackPush
<1>12. Len(frames) > 1
  <2>1. frames' # <<>>
    BY <1>4 DEF IInv, Discipline
  <2>2. frames' \in Seq(FrameType)
    BY <1>1, <1>2, FrontOf
  <2>3. Len(frames') # 0
    BY <2>1, <2>2, EmptySeq
  <2> QED
    BY <1>2, <1>5, <2>3
<1>13. stack'.size = Top.offset + 1
  <2>1. stack'.size = Top'.offset + At(Top)'
    BY <1>4 DEF IInv, Discipline, Height, At, Top
  <2>2. m - 1 \in 1 .. m - 1 /\ (m - 1) + 1 = m
    BY <1>2, <1>12
  <2>3. Top' = frames[m - 1]
    BY <1>5, <2>2 DEF Top
  <2>4. At(Top)' = At(frames[m - 1])
    BY <1>1, <2>3 DEF At
  <2>5. frames[m].offset + 1 = frames[m - 1].offset + At(frames[m - 1])
    BY <1>1, <2>2, FrameFacts
  <2> QED
    BY <1>2, <2>1, <2>3, <2>4, <2>5
<1>14. left = Top.offset
  BY <1>6, <1>8, <1>9, <1>11, <1>13 DEF IsStack
<1>15. KeepsBelow(stack')
  <2>1. KeepsBelow(t)
    BY <1>8, <1>10 DEF KeepsBelow
  <2>2. Top.offset <= t.size
    BY <1>6, <1>10, <1>14
  <2> HIDE DEF t
  <2> QED
    BY <1>1, <1>6, <1>10, <2>1, <2>2, PushKeeps
<1>16. /\ stack'.mem = Store(t.mem, t.size, v) /\ t.mem \in Seq(ProgramValues)
       /\ t.size \in 0 .. Len(t.mem) /\ t.size = Top.offset
  BY <1>1, <1>10, <1>14 DEF StackPush, IsStack
<1> HIDE DEF t
<1>17. /\ stack'.mem[t.size + 1] = v
       /\ Len(stack'.mem) = IF t.size < Len(t.mem) THEN Len(t.mem) ELSE Len(t.mem) + 1
  <2> DEFINE mem == t.mem
             p == t.size
  <2>1. mem \in Seq(ProgramValues) /\ p \in 0 .. Len(mem) /\ v \in ProgramValues
    BY <1>8, <1>16
  <2>2. stack'.mem = Store(mem, p, v)
    BY <1>16
  <2> HIDE DEF mem, p
  <2>3. /\ Store(mem, p, v)[p + 1] = v
        /\ Len(Store(mem, p, v)) = IF p < Len(mem) THEN Len(mem) ELSE Len(mem) + 1
    BY <2>1 DEF Store
  <2> QED
    BY <2>2, <2>3 DEF mem, p
<1> QED
  BY <1>1, <1>4, <1>5, <1>7, <1>12, <1>13, <1>15, <1>16, <1>17 DEF v

-----------------------------------------------------------------------------
(***************************************************************************)
(* The steps of UucActivations on the list of activations.                 *)
(***************************************************************************)
\* A list given element by element.
LEMMA Listed ==
  ASSUME NEW S, NEW n \in Nat, NEW s, s = [i \in 1 .. n |-> s[i]],
         \A i \in 1 .. n : s[i] \in S
  PROVE  s \in Seq(S) /\ Len(s) = n
<1>1. s \in [1 .. n -> S]
  OBVIOUS
<1> QED
  BY <1>1

\* Only the last element is another one.
LEMMA SameFront ==
  ASSUME NEW S, NEW s \in Seq(S), NEW t \in Seq(S), s # <<>>, Len(t) = Len(s),
         \A i \in 1 .. Len(s) - 1 : t[i] = s[i]
  PROVE  Front(t) = Front(s)
<1>1. Len(s) \in Nat \ {0} /\ t # <<>>
  BY EmptySeq
<1>2. /\ Front(s) \in Seq(S) /\ Len(Front(s)) = Len(s) - 1
      /\ \A i \in 1 .. Len(s) - 1 : Front(s)[i] = s[i]
  BY FrontOf
<1>3. /\ Front(t) \in Seq(S) /\ Len(Front(t)) = Len(s) - 1
      /\ \A i \in 1 .. Len(s) - 1 : Front(t)[i] = t[i]
  BY <1>1, FrontOf
<1>4. \A i \in 1 .. Len(Front(s)) : Front(t)[i] = Front(s)[i]
  BY <1>2, <1>3
<1> QED
  BY <1>2, <1>3, <1>4, SeqEqual

\* The last element is another one, and there is one more.
LEMMA CallShape ==
  ASSUME NEW S, NEW s \in Seq(S), NEW t \in Seq(S), s # <<>>, Len(t) = Len(s) + 1,
         \A i \in 1 .. Len(s) - 1 : t[i] = s[i]
  PROVE  t = Append(Front(s) \o <<t[Len(s)]>>, t[Len(s) + 1])
<1> DEFINE n == Len(s)
           x == t[n]
           y == t[n + 1]
           u == Front(s) \o <<x>>
           w == Append(u, y)
<1>1. n \in Nat \ {0}
  BY EmptySeq
<1>2. /\ Front(s) \in Seq(S) /\ Len(Front(s)) = n - 1
      /\ \A i \in 1 .. n - 1 : Front(s)[i] = s[i]
  BY FrontOf
<1>3. x \in S /\ y \in S
  BY <1>1
<1> HIDE DEF x, y
<1>4. u \in Seq(S) /\ Len(u) = n
  BY <1>1, <1>2, <1>3
<1>5. u[n] = x /\ \A i \in 1 .. n - 1 : u[i] = s[i]
  BY <1>1, <1>2, <1>3
<1> HIDE DEF u
<1>6. /\ w \in Seq(S) /\ Len(w) = n + 1 /\ w[n + 1] = y
      /\ \A i \in 1 .. n : w[i] = u[i]
  BY <1>1, <1>3, <1>4
<1> HIDE DEF w
<1>7. \A i \in 1 .. n + 1 : i \in 1 .. n - 1 \/ i = n \/ i = n + 1
  BY <1>1
<1>8. \A i \in 1 .. n - 1 : i \in 1 .. n
  BY <1>1
<1>9. n \in 1 .. n
  BY <1>1
<1> HIDE DEF n
<1>10. \A i \in 1 .. n + 1 : w[i] = t[i]
  BY <1>5, <1>6, <1>7, <1>8, <1>9 DEF x, y, n
<1>11. w = t
  BY <1>6, <1>10, SeqEqual DEF n
<1> QED
  BY <1>11 DEF n, x, y, u, w

\* The last element is dropped, and the one before it is another one.
LEMMA ReturnShape ==
  ASSUME NEW S, NEW s \in Seq(S), NEW t \in Seq(S), Len(s) > 1, Len(t) = Len(s) - 1,
         \A i \in 1 .. Len(s) - 2 : t[i] = s[i]
  PROVE  t = Append(SubSeq(s, 1, Len(s) - 2), t[Len(s) - 1])
<1> DEFINE n == Len(s)
           p == n - 2
           x == t[n - 1]
           u == SubSeq(s, 0 + 1, p)
           w == Append(u, x)
<1>1. n \in Nat /\ p \in Nat /\ p <= n /\ n - 1 = p + 1 /\ n - 1 \in 1 .. n - 1
  OBVIOUS
<1>2. x \in S
  BY <1>1
<1>3. u \in Seq(S) /\ Len(u) = p - 0 /\ \A i \in 1 .. p - 0 : u[i] = s[0 + i]
  BY <1>1, Window
<1>4. u \in Seq(S) /\ Len(u) = p /\ \A i \in 1 .. p : u[i] = s[i]
  BY <1>1, <1>3
<1> HIDE DEF u, x
<1>5. /\ w \in Seq(S) /\ Len(w) = p + 1 /\ w[p + 1] = x
      /\ \A i \in 1 .. p : w[i] = u[i]
  BY <1>1, <1>2, <1>4
<1> HIDE DEF w
<1>6. \A i \in 1 .. p + 1 : i \in 1 .. p \/ i = p + 1
  BY <1>1
<1>7. \A i \in 1 .. p : t[i] = s[i]
  BY <1>1
<1>8. t[p + 1] = x /\ Len(t) = p + 1
  BY <1>1 DEF x
<1> HIDE DEF p, n
<1>9. \A i \in 1 .. p + 1 : w[i] = t[i]
  BY <1>4, <1>5, <1>6, <1>7, <1>8
<1>10. w = t
  BY <1>5, <1>8, <1>9, SeqEqual
<1> QED
  BY <1>10 DEF n, p, x, u, w

-----------------------------------------------------------------------------
(***************************************************************************)
(* Each step of the machine is a step of UucActivations.                   *)
(***************************************************************************)
\* The windows one by one: from its offset to the next one's, or to the top.
LEMMA Windows ==
  ASSUME PInv, status = "ok"
  PROVE  /\ frames # <<>> /\ Len(frames) \in Nat \ {0} /\ Top = frames[Len(frames)]
         /\ stack.mem \in Seq(ProgramValues) /\ Len(stack.mem) \in Nat
         /\ stack.size \in Nat /\ stack.size <= Len(stack.mem)
         /\ Top.offset <= stack.size
         /\ \A i \in 1 .. Len(frames) :
              /\ frames[i].offset \in Nat /\ frames[i].offset <= Top.offset
              /\ Activation(i).fn = frames[i].fn
         /\ \A i \in 1 .. Len(frames) - 1 :
              /\ i + 1 \in 1 .. Len(frames) /\ frames[i].offset <= frames[i + 1].offset
              /\ Activation(i).slots
                   = SubSeq(stack.mem, frames[i].offset + 1, frames[i + 1].offset)
         /\ Activation(Len(frames)).slots
              = SubSeq(stack.mem, Top.offset + 1, stack.size)
<1>1. IInv /\ Nested
  BY DEF PInv
<1>2. /\ frames # <<>> /\ frames \in Seq(FrameType) /\ Len(frames) \in Nat \ {0}
      /\ Top = frames[Len(frames)] /\ stack.size = Top.offset + Map[Top.ii]
      /\ Map[Top.ii] \in 0 .. MaxHeight
  BY <1>1, Fitting DEF Top
<1>3. IsStack(stack, ProgramValues) /\ stack.size \in Nat /\ Top.offset \in Nat
  BY <1>1, Sizes
<1>4. /\ stack.mem \in Seq(ProgramValues) /\ Len(stack.mem) \in Nat
      /\ stack.size <= Len(stack.mem)
  BY <1>3 DEF IsStack
<1>5. Top.offset <= stack.size
  BY <1>2, <1>3, StackMapAssumption
<1>6. \A i \in 1 .. Len(frames) : frames[i].offset \in Nat /\ frames[i].offset <= Top.offset
  <2> TAKE i \in 1 .. Len(frames)
  <2>1. frames[i] \in FrameType /\ Len(frames) \in 1 .. Len(frames) /\ i <= Len(frames)
    BY <1>2
  <2> QED
    BY <1>1, <1>2, <2>1 DEF FrameType, Nested
<1>7. \A i \in 1 .. Len(frames) - 1 :
        /\ i + 1 \in 1 .. Len(frames) /\ i # Len(frames)
        /\ frames[i].offset <= frames[i + 1].offset
  <2> TAKE i \in 1 .. Len(frames) - 1
  <2>1. i \in 1 .. Len(frames) /\ i + 1 \in 1 .. Len(frames) /\ i <= i + 1 /\ i # Len(frames)
    BY <1>2
  <2> QED
    BY <1>1, <2>1 DEF Nested
<1>8. \A i \in 1 .. Len(frames) : Activation(i).fn = frames[i].fn
  BY DEF Activation
<1>9. \A i \in 1 .. Len(frames) - 1 :
        Activation(i).slots = SubSeq(stack.mem, frames[i].offset + 1, frames[i + 1].offset)
  BY <1>7 DEF Activation, WindowEnd
<1>10. Activation(Len(frames)).slots = SubSeq(stack.mem, Top.offset + 1, stack.size)
  BY <1>2 DEF Activation, WindowEnd
<1> QED
  BY <1>2, <1>3, <1>4, <1>5, <1>6, <1>7, <1>8, <1>9, <1>10

\* The list of activations is one.
LEMMA ActsListed ==
  ASSUME NEW n \in Nat, Len(frames) = n
  PROVE  /\ Len(Acts) = n /\ \A i \in 1 .. n : Acts[i] = Activation(i)
         /\ \A S : (\A i \in 1 .. n : Activation(i) \in S) => Acts \in Seq(S)
<1>1. Acts = [i \in 1 .. n |-> Acts[i]] /\ \A i \in 1 .. n : Acts[i] = Activation(i)
  BY DEF Acts
<1>2. ASSUME NEW S, \A i \in 1 .. n : Activation(i) \in S
      PROVE  Acts \in Seq(S) /\ Len(Acts) = n
  <2>1. \A i \in 1 .. n : Acts[i] \in S
    BY <1>1, <1>2
  <2> HIDE DEF Acts
  <2> QED
    BY <1>1, <2>1, Listed
<1>3. Len(Acts) = n
  <2>1. \A i \in 1 .. n : Activation(i) \in {Activation(j) : j \in 1 .. n}
    OBVIOUS
  <2> QED
    BY <1>2, <2>1
<1> QED
  BY <1>1, <1>2, <1>3

\* After a step the list of activations is one, too.
LEMMA ActsListedNext ==
  ASSUME NEW n \in Nat, Len(frames') = n
  PROVE  /\ Len(Acts') = n /\ \A i \in 1 .. n : Acts'[i] = Activation(i)'
         /\ \A S : (\A i \in 1 .. n : Activation(i)' \in S) => Acts' \in Seq(S)
<1>1. Acts' = [i \in 1 .. n |-> Acts'[i]] /\ \A i \in 1 .. n : Acts'[i] = Activation(i)'
  BY DEF Acts
<1>2. ASSUME NEW S, \A i \in 1 .. n : Activation(i)' \in S
      PROVE  Acts' \in Seq(S) /\ Len(Acts') = n
  <2>1. \A i \in 1 .. n : Acts'[i] \in S
    BY <1>1, <1>2
  <2> HIDE DEF Acts
  <2> QED
    BY <1>1, <2>1, Listed
<1>3. Len(Acts') = n
  <2>1. \A i \in 1 .. n : Activation(i)' \in {Activation(j)' : j \in 1 .. n}
    OBVIOUS
  <2> QED
    BY <1>2, <2>1
<1> QED
  BY <1>1, <1>2, <1>3

\* An activation whose window, and whose slots, stayed.
LEMMA SameActivations ==
  ASSUME PInv, status = "ok", prog' = prog, NEW n, n \in 1 .. Len(frames),
         stack'.mem \in Seq(ProgramValues), Len(frames') \in Nat, Len(frames') >= n,
         \A i \in 1 .. n :
           frames'[i].fn = frames[i].fn /\ frames'[i].offset = frames[i].offset,
         \A j \in 1 .. frames[n].offset : stack'.mem[j] = stack.mem[j],
         frames[n].offset <= Len(stack'.mem)
  PROVE  \A i \in 1 .. n - 1 : Activation(i)' = Activation(i)
<1> SUFFICES ASSUME NEW i \in 1 .. n - 1 PROVE Activation(i)' = Activation(i)
  OBVIOUS
<1>1. /\ Len(frames) \in Nat \ {0} /\ stack.mem \in Seq(ProgramValues)
      /\ stack.size <= Len(stack.mem) /\ Top.offset <= stack.size
      /\ Len(stack.mem) \in Nat /\ stack.size \in Nat /\ Top.offset \in Nat
      /\ \A k \in 1 .. Len(frames) :
           frames[k].offset \in Nat /\ frames[k].offset <= Top.offset
      /\ \A k \in 1 .. Len(frames) - 1 : frames[k].offset <= frames[k + 1].offset
  <2>1. Top.offset \in Nat
    BY Sizes DEF PInv
  <2> QED
    BY <2>1, Windows
<1>2. /\ n \in Nat /\ i \in 1 .. n /\ i + 1 \in 1 .. n /\ i + 1 <= n
      /\ i \in 1 .. Len(frames) - 1
      /\ i \in 1 .. Len(frames) /\ i + 1 \in 1 .. Len(frames)
      /\ i # Len(frames) /\ i # Len(frames')
  BY <1>1
<1> DEFINE a == frames[i].offset
           b == frames[i + 1].offset
           c == frames[n].offset
<1>3. a \in Nat /\ b \in Nat /\ a <= b /\ c \in Nat
  BY <1>1, <1>2
<1>4. b <= c
  BY <1>2 DEF PInv, Nested
<1>5. c <= Len(stack.mem)
  BY <1>1
<1>6. b <= Len(stack.mem) /\ b <= Len(stack'.mem)
  <2>1. Len(stack.mem) \in Nat /\ Len(stack'.mem) \in Nat /\ c <= Len(stack'.mem)
    BY <1>1
  <2> HIDE DEF b, c
  <2> QED
    BY <1>3, <1>4, <1>5, <2>1
<1>7. \A j \in 1 .. b : stack'.mem[j] = stack.mem[j]
  <2> HIDE DEF b, c
  <2>1. \A j \in 1 .. b : j \in 1 .. c
    BY <1>3, <1>4
  <2> QED
    BY <2>1 DEF c
<1>8. frames'[i].offset = a /\ frames'[i + 1].offset = b /\ frames'[i].fn = frames[i].fn
  BY <1>2
<1>9. Activation(i) = [fn |-> frames[i].fn, slots |-> SubSeq(stack.mem, a + 1, b)]
  BY <1>2 DEF Activation, WindowEnd
<1>10. Activation(i)' = [fn |-> frames[i].fn, slots |-> SubSeq(stack'.mem, a + 1, b)]
  BY <1>2, <1>8 DEF Activation, WindowEnd
<1> HIDE DEF a, b
<1>11. SubSeq(stack'.mem, a + 1, b) = SubSeq(stack.mem, a + 1, b)
  <2> DEFINE V == ProgramValues
             old == stack.mem
             new == stack'.mem
  <2>1. old \in Seq(V) /\ new \in Seq(V) /\ b <= Len(old) /\ b <= Len(new)
    BY <1>1, <1>6
  <2>2. \A j \in 1 .. b : new[j] = old[j]
    BY <1>7
  <2> HIDE DEF V, old, new
  <2>3. SubSeq(new, a + 1, b) = SubSeq(old, a + 1, b)
    BY <1>3, <2>1, <2>2, KeptWindow
  <2> QED
    BY <2>3 DEF old, new
<1> QED
  BY <1>9, <1>10, <1>11

\* UucActivations' Front and Last are those of the machine's module.
LEMMA SameOperators ==
  \A s : Activations!Front(s) = Front(s) /\ Activations!Last(s) = Last(s)
  BY DEF Activations!Front, Activations!Last, Front, Last

\* Work, in terms of Acts.
LEMMA WorkForm ==
  ASSUME status = "ok", Len(Acts') = Len(Acts), Front(Acts') = Front(Acts),
         Last(Acts').fn = Last(Acts).fn
  PROVE  Activations!Work
  BY SameOperators DEF Activations!Work, Acts

\* Call, in terms of Acts.
LEMMA CallForm ==
  ASSUME status = "ok", status' = "ok",
         NEW w, w = Last(Acts).slots, w # <<>>,
         NEW callee, callee = Last(w), callee.type = "function",
         NEW rest, rest = Front(w),
         NEW kept, kept = Len(rest) - Arities[prog][callee.fn], kept >= 0,
         Acts' = Append(Front(Acts) \o
                          <<[fn |-> Last(Acts).fn, slots |-> SubSeq(rest, 1, kept)]>>,
                        [fn |-> callee.fn, slots |-> SubSeq(rest, kept + 1, Len(rest))])
  PROVE  Activations!Call
  BY SameOperators DEF Activations!Call, Activations!Running, Acts

\* Return, in terms of Acts.
LEMMA ReturnForm ==
  ASSUME status = "ok", status' = "ok", Len(Acts) > 1,
         NEW w, w = Last(Acts).slots, w # <<>>,
         NEW caller, caller = Acts[Len(Acts) - 1],
         Acts' = Append(SubSeq(Acts, 1, Len(Acts) - 2),
                        [caller EXCEPT !.slots = Append(@, Last(w))])
  PROVE  Activations!Return
  BY SameOperators DEF Activations!Return, Activations!Running, Acts

\* Any instruction but a call or a return works on the last window only.
LEMMA WorkRefined ==
  ASSUME PInv, IInv', status = "ok", prog' = prog, FramesStay, KeepsBelow(stack')
  PROVE  Activations!Work
<1> PICK m : m = Len(frames)
  OBVIOUS
<1> DEFINE V == {Activation(i) : i \in 1 .. m} \cup {Activation(i)' : i \in 1 .. m}
<1>1. m \in Nat \ {0} /\ Top = frames[m] /\ m \in 1 .. m /\ Len(frames') = m
  BY Windows DEF FramesStay
<1>2. stack'.mem \in Seq(ProgramValues)
  BY DEF IInv, Made, IsStack, ProgramValues
<1>3. \A i \in 1 .. m - 1 : Activation(i)' = Activation(i)
  BY <1>1, <1>2, SameActivations DEF FramesStay, KeepsBelow
<1>4. /\ Acts \in Seq(V) /\ Len(Acts) = m
      /\ \A i \in 1 .. m : Acts[i] = Activation(i)
  BY <1>1, ActsListed
<1>5. /\ Acts' \in Seq(V) /\ Len(Acts') = m
      /\ \A i \in 1 .. m : Acts'[i] = Activation(i)'
  BY <1>1, ActsListedNext
<1> HIDE DEF V
<1>6. Acts # <<>>
  BY <1>1, <1>4
<1>7. \A i \in 1 .. m - 1 : Acts'[i] = Acts[i]
  BY <1>1, <1>3, <1>4, <1>5
<1>8. Front(Acts') = Front(Acts)
  BY <1>4, <1>5, <1>6, <1>7, SameFront
<1>9. Last(Acts').fn = Last(Acts).fn
  <2>1. Last(Acts') = Activation(m)' /\ Last(Acts) = Activation(m)
    BY <1>1, <1>4, <1>5 DEF Last
  <2>2. frames'[m].fn = frames[m].fn
    BY <1>1 DEF FramesStay
  <2> QED
    BY <2>1, <2>2 DEF Activation
<1> QED
  BY <1>4, <1>5, <1>8, <1>9, WorkForm

\* A call that succeeds hands the callee its window.
LEMMA CallRefined ==
  ASSUME PInv, IInv', Call, CallsMatch, ~ Halt("error"), ~ Halt("wild")
  PROVE  Activations!Call
<1>1. PICK m, callee, k, mem, o, top :
        /\ m = Len(frames) /\ callee = StackPeek(stack)
        /\ k = Programs[prog][callee.fn].arity
        /\ mem = stack.mem /\ o = Top.offset /\ top = stack.size
  OBVIOUS
<1> DEFINE V == {Activation(i) : i \in 1 .. m} \cup {Activation(i)' : i \in 1 .. m + 1}
<1>2. /\ status = "ok" /\ status' = "ok" /\ prog' = prog
      /\ callee.type = "function" /\ callee.fn \in DOMAIN Programs[prog]
      /\ k \in Nat /\ o + k + 1 <= top
      /\ stack'.mem = mem /\ stack'.size = top - 1
      /\ Len(frames') = m + 1
      /\ \A i \in 1 .. m :
           frames'[i].fn = frames[i].fn /\ frames'[i].offset = frames[i].offset
      /\ frames'[m + 1].fn = callee.fn
      /\ frames'[m + 1].offset = top - 1 - k
  BY <1>1, CallFacts DEF PInv
<1>3. /\ m \in Nat \ {0} /\ Top = frames[m] /\ m \in 1 .. m
      /\ mem \in Seq(ProgramValues) /\ Len(mem) \in Nat /\ top \in Nat /\ top <= Len(mem)
      /\ o \in Nat /\ Activation(m).fn = Top.fn
      /\ Activation(m).slots = SubSeq(mem, o + 1, top)
  <2>1. status = "ok"
    BY <1>2
  <2> QED
    BY <1>1, <2>1, Windows
<1>4. /\ o \in Nat /\ k \in Nat /\ top \in Nat /\ o + k + 1 <= top
      /\ top <= Len(mem) /\ Len(mem) \in Nat
  BY <1>2, <1>3
<1>5. PICK kept : kept = top - 1 - o - k
  OBVIOUS
<1>6. /\ kept \in Nat /\ o < top /\ o + kept = top - 1 - k /\ kept <= top - 1 - o
      /\ top - 1 \in Nat /\ o <= top - 1 /\ top - 1 <= Len(mem)
      /\ top - 1 - o \in Nat /\ o + (top - 1 - o) = top - 1
  BY <1>4, <1>5
<1>7. \A i \in 1 .. m - 1 : Activation(i)' = Activation(i)
  <2>1. stack'.mem \in Seq(ProgramValues) /\ o <= Len(stack'.mem)
    BY <1>2, <1>3, <1>6
  <2> QED
    <3>1. /\ m \in 1 .. Len(frames) /\ Len(frames') \in Nat /\ Len(frames') >= m
          /\ frames[m].offset <= Len(stack'.mem)
          /\ \A j \in 1 .. frames[m].offset : stack'.mem[j] = stack.mem[j]
      BY <1>1, <1>2, <1>3, <2>1
    <3> QED
      BY <1>2, <2>1, <3>1, SameActivations
<1>8. /\ Acts \in Seq(V) /\ Len(Acts) = m
      /\ \A i \in 1 .. m : Acts[i] = Activation(i)
  <2>1. \A i \in 1 .. m : Activation(i) \in V
    OBVIOUS
  <2> QED
    BY <1>1, <1>3, <2>1, ActsListed
<1>9. /\ Acts' \in Seq(V) /\ Len(Acts') = m + 1
      /\ \A i \in 1 .. m + 1 : Acts'[i] = Activation(i)'
  <2>1. \A i \in 1 .. m + 1 : Activation(i)' \in V
    OBVIOUS
  <2>2. m + 1 \in Nat /\ Len(frames') = m + 1
    BY <1>1, <1>2, <1>3
  <2> QED
    BY <2>1, <2>2, ActsListedNext
<1> HIDE DEF V
<1>10. Acts' = Append(Front(Acts) \o <<Acts'[m]>>, Acts'[m + 1])
  <2>1. Acts # <<>> /\ \A i \in 1 .. m - 1 : Acts'[i] = Acts[i]
    BY <1>3, <1>7, <1>8, <1>9
  <2> QED
    BY <1>8, <1>9, <2>1, CallShape
<1> DEFINE w == SubSeq(mem, o + 1, top)
           rest == SubSeq(mem, o + 1, top - 1)
<1>11. Last(Acts) = Activation(m) /\ Last(Acts).slots = w /\ Last(Acts).fn = Top.fn
  BY <1>1, <1>3, <1>8 DEF Last
<1>12. w # <<>> /\ Last(w) = callee /\ Front(w) = rest
  <2>1. callee = mem[top]
    BY <1>1, <1>3, <1>6 DEF StackPeek
  <2>2. mem \in Seq(ProgramValues) /\ o < top
    BY <1>3, <1>6
  <2>3. w # <<>> /\ Last(w) = mem[top] /\ Front(w) = rest
    BY <1>4, <2>2, WindowTop
  <2> HIDE DEF w, rest
  <2> QED
    BY <2>1, <2>3
<1>13. /\ Len(rest) = top - 1 - o
       /\ SubSeq(rest, 1, kept) = SubSeq(mem, o + 1, top - 1 - k)
       /\ SubSeq(rest, kept + 1, Len(rest)) = SubSeq(mem, top - 1 - k + 1, top - 1)
  <2>1. PICK c, d : c = top - 1 /\ d = top - 1 - o
    OBVIOUS
  <2>2. /\ mem \in Seq(ProgramValues) /\ o \in Nat /\ c \in Nat /\ o <= c /\ c <= Len(mem)
        /\ d \in Nat /\ d = c - o /\ d <= c - o /\ kept \in Nat /\ kept <= d /\ kept <= c - o
        /\ 0 \in Nat /\ 0 <= kept /\ o + 0 + 1 = o + 1 /\ o + kept = top - 1 - k /\ o + d = c
    BY <1>3, <1>4, <1>6, <2>1
  <2>3. rest = SubSeq(mem, o + 1, c)
    BY <2>1
  <2> HIDE DEF rest
  <2>4. Len(rest) = d
    BY <2>2, <2>3, Window
  <2>5. SubSeq(rest, 0 + 1, kept) = SubSeq(mem, o + 0 + 1, o + kept)
    BY <2>2, <2>3, SubWindow
  <2>6. SubSeq(rest, kept + 1, d) = SubSeq(mem, o + kept + 1, o + d)
    BY <2>2, <2>3, SubWindow
  <2>7. SubSeq(rest, 1, kept) = SubSeq(mem, o + 1, top - 1 - k)
    BY <2>2, <2>5
  <2> QED
    BY <2>1, <2>2, <2>4, <2>6, <2>7
<1>14. Acts'[m] = [fn |-> Top.fn, slots |-> SubSeq(rest, 1, kept)]
  <2>1. m # m + 1 /\ m \in 1 .. m + 1 /\ frames'[m].fn = Top.fn /\ frames'[m].offset = o
    BY <1>1, <1>2, <1>3
  <2>2. Activation(m)' = [fn |-> Top.fn, slots |-> SubSeq(mem, o + 1, top - 1 - k)]
    BY <1>2, <2>1 DEF Activation, WindowEnd
  <2> QED
    BY <1>9, <1>13, <2>1, <2>2
<1>15. Acts'[m + 1] = [fn |-> callee.fn, slots |-> SubSeq(rest, kept + 1, Len(rest))]
  <2>1. m + 1 \in 1 .. m + 1
    BY <1>3
  <2>2. Activation(m + 1)'
          = [fn |-> callee.fn, slots |-> SubSeq(mem, top - 1 - k + 1, top - 1)]
    BY <1>2 DEF Activation, WindowEnd
  <2> QED
    BY <1>9, <1>13, <2>1, <2>2
<1>16. Arities[prog][callee.fn] = k
  BY <1>1, <1>2 DEF Arities, PInv, IInv, TypeOK
<1>17. Len(rest) - k = kept
  BY <1>4, <1>5, <1>13
<1> HIDE DEF rest
<1>18. /\ Last(w) = callee /\ Front(w) = rest
       /\ Acts' = Append(Front(Acts) \o
                    <<[fn |-> Last(Acts).fn, slots |-> SubSeq(rest, 1, kept)]>>,
                    [fn |-> callee.fn, slots |-> SubSeq(rest, kept + 1, Len(rest))])
  BY <1>10, <1>11, <1>12, <1>14, <1>15
<1> HIDE DEF w
<1> QED
  <2>1. kept = Len(rest) - Arities[prog][callee.fn] /\ kept >= 0
    BY <1>6, <1>16, <1>17
  <2>2. callee = Last(w) /\ rest = Front(w) /\ w = Last(Acts).slots /\ w # <<>>
    BY <1>11, <1>12
  <2> QED
    BY <1>2, <1>18, <2>1, <2>2, CallForm

\* A return appends its value to the slots that the caller kept.
LEMMA ReturnRefined ==
  ASSUME PInv, IInv', Return
  PROVE  Activations!Return
<1>1. PICK m, old, new, o, top, v :
        /\ m = Len(frames) /\ old = stack.mem /\ new = stack'.mem /\ o = Top.offset
        /\ top = stack.size /\ v = StackPeek(stack)
  OBVIOUS
<1>2. /\ status = "ok" /\ status' = "ok" /\ prog' = prog
      /\ m > 1 /\ Len(frames') = m - 1
      /\ \A i \in 1 .. m - 1 : frames'[i] = frames[i]
      /\ o < top /\ o <= Len(new) /\ \A j \in 1 .. o : new[j] = old[j]
      /\ stack'.size = o + 1
      /\ o + 1 <= Len(new) /\ new[o + 1] = v
  BY <1>1, ReturnFacts DEF PInv, KeepsBelow
<1>3. /\ m \in Nat \ {0} /\ Top = frames[m] /\ old \in Seq(ProgramValues)
      /\ Len(old) \in Nat /\ top \in Nat /\ top <= Len(old)
      /\ \A i \in 1 .. m : frames[i].offset \in Nat /\ frames[i].offset <= o
      /\ \A i \in 1 .. m - 1 :
           Activation(i).slots = SubSeq(old, frames[i].offset + 1, frames[i + 1].offset)
      /\ Activation(m).slots = SubSeq(old, o + 1, top)
      /\ \A i \in 1 .. m : Activation(i).fn = frames[i].fn
  <2>1. status = "ok"
    BY <1>2
  <2> QED
    BY <1>1, <2>1, Windows
<1>4. new \in Seq(ProgramValues)
  BY <1>1, <1>2 DEF IInv, Made, IsStack, ProgramValues
<1>5. PICK n : n = m - 1
  OBVIOUS
<1>6. /\ n \in Nat \ {0} /\ n \in 1 .. m - 1 /\ n \in 1 .. m /\ m \in 1 .. m /\ n + 1 = m
      /\ n \in 1 .. n /\ m - 2 = n - 1
  BY <1>2, <1>3, <1>5
<1>7. PICK a : a = frames[n].offset
  OBVIOUS
<1>8. a \in Nat /\ o \in Nat /\ a <= o /\ o <= Len(old) /\ o < top
  <2>1. a \in Nat /\ a <= o /\ o \in Nat /\ o < top
    BY <1>1, <1>2, <1>3, <1>6, <1>7
  <2>2. top <= Len(old) /\ top \in Nat /\ Len(old) \in Nat
    BY <1>3
  <2> QED
    BY <2>1, <2>2
<1>9. \A i \in 1 .. n - 1 : Activation(i)' = Activation(i)
  <2>1. /\ n \in 1 .. Len(frames) /\ Len(frames') \in Nat /\ Len(frames') >= n
        /\ stack'.mem \in Seq(ProgramValues) /\ frames[n].offset <= Len(stack'.mem)
    <3>1. Len(new) \in Nat
      BY <1>4
    <3>2. frames[n].offset <= Len(new)
      BY <1>2, <1>7, <1>8, <3>1
    <3> QED
      BY <1>1, <1>2, <1>4, <1>5, <1>6, <3>2
  <2>2. \A j \in 1 .. frames[n].offset : stack'.mem[j] = stack.mem[j]
    BY <1>1, <1>2, <1>7, <1>8
  <2>3. \A i \in 1 .. n : frames'[i].fn = frames[i].fn /\ frames'[i].offset = frames[i].offset
    BY <1>2, <1>5
  <2> QED
    BY <1>2, <2>1, <2>2, <2>3, SameActivations
<1>10. SubSeq(new, a + 1, o + 1) = Append(SubSeq(old, a + 1, o), v)
  <2>1. o + 1 <= Len(new) /\ new[o + 1] = v /\ \A j \in 1 .. o : new[j] = old[j]
    BY <1>2
  <2>2. old \in Seq(ProgramValues)
    BY <1>3
  <2>3. SubSeq(new, a + 1, o + 1) = Append(SubSeq(old, a + 1, o), new[o + 1])
    BY <1>4, <1>8, <2>1, <2>2, WindowAppend
  <2> QED
    BY <2>1, <2>3
<1> DEFINE V == {Activation(i) : i \in 1 .. m} \cup {Activation(i)' : i \in 1 .. m}
<1>11. /\ Acts \in Seq(V) /\ Len(Acts) = m
       /\ \A i \in 1 .. m : Acts[i] = Activation(i)
  <2>1. \A i \in 1 .. m : Activation(i) \in V
    OBVIOUS
  <2> QED
    BY <1>1, <1>3, <2>1, ActsListed
<1>12. /\ Acts' \in Seq(V) /\ Len(Acts') = n
       /\ \A i \in 1 .. n : Acts'[i] = Activation(i)'
  <2>1. \A i \in 1 .. n : Activation(i)' \in V
    BY <1>6
  <2>2. n \in Nat /\ Len(frames') = n
    BY <1>2, <1>5, <1>6
  <2> QED
    BY <2>1, <2>2, ActsListedNext
<1> HIDE DEF V
<1>13. Acts' = Append(SubSeq(Acts, 1, m - 2), Acts'[m - 1])
  <2>1. \A i \in 1 .. m - 2 : Acts'[i] = Acts[i]
    BY <1>6, <1>9, <1>11, <1>12
  <2> QED
    BY <1>2, <1>5, <1>11, <1>12, <2>1, ReturnShape
<1>14. PICK w : w = SubSeq(old, o + 1, top)
  OBVIOUS
<1>15. w = Last(Acts).slots
  BY <1>3, <1>6, <1>11, <1>14 DEF Last
<1>16. w # <<>> /\ Last(w) = v
  <2>1. old[top] = v
    BY <1>1, <1>3, <1>8 DEF StackPeek
  <2>2. old \in Seq(ProgramValues) /\ top \in Nat /\ top <= Len(old)
    BY <1>3
  <2>3. SubSeq(old, o + 1, top) # <<>> /\ Last(SubSeq(old, o + 1, top)) = old[top]
    BY <1>8, <2>2, WindowTop
  <2> QED
    BY <1>14, <2>1, <2>3
<1>17. PICK slots : slots = SubSeq(old, a + 1, o)
  OBVIOUS
<1>18. Acts[n] = [fn |-> frames[n].fn, slots |-> slots]
  <2>1. frames[n + 1].offset = o /\ n # Len(frames)
    BY <1>1, <1>3, <1>6
  <2> QED
    BY <1>1, <1>6, <1>7, <1>11, <1>17, <2>1 DEF Activation, WindowEnd
<1>19. Acts'[n] = [fn |-> frames[n].fn, slots |-> Append(slots, v)]
  <2>1. Len(frames') = n /\ frames'[n] = frames[n] /\ stack'.size = o + 1 /\ stack'.mem = new
    BY <1>1, <1>2, <1>5, <1>6
  <2>2. Activation(n)' = [fn |-> frames[n].fn, slots |-> SubSeq(new, a + 1, o + 1)]
    BY <1>7, <2>1 DEF Activation, WindowEnd
  <2> QED
    BY <1>6, <1>10, <1>12, <1>17, <2>2
<1>20. PICK caller : caller = Acts[n]
  OBVIOUS
<1>21. Acts'[n] = [caller EXCEPT !.slots = Append(@, v)]
  BY <1>18, <1>19, <1>20
<1>22. /\ Len(Acts) > 1 /\ caller = Acts[Len(Acts) - 1]
       /\ Acts' = Append(SubSeq(Acts, 1, Len(Acts) - 2),
                         [caller EXCEPT !.slots = Append(@, Last(w))])
  BY <1>2, <1>5, <1>11, <1>13, <1>16, <1>20, <1>21
<1> QED
  BY <1>2, <1>15, <1>16, <1>22, ReturnForm

-----------------------------------------------------------------------------
\* Windows are nested after every step.
LEMMA NestedNext ==
  ASSUME PInv, IInv', MatchedTick PROVE Nested'
<1>1. frames \in Seq(FrameType) /\ IInv /\ Nested
  BY DEF PInv, IInv, TypeOK, FrameType
<1>2. CASE FramesStay
  BY <1>1, <1>2 DEF FramesStay, Nested
<1>3. CASE Call /\ ~ Halt("error") /\ ~ Halt("wild")
  <2>1. PICK m, callee, k :
          /\ m = Len(frames) /\ callee = StackPeek(stack)
          /\ k = Programs[prog][callee.fn].arity
    OBVIOUS
  <2>2. /\ status = "ok" /\ Len(frames') = m + 1 /\ k \in Nat
        /\ Top.offset + k + 1 <= stack.size
        /\ \A i \in 1 .. m : frames'[i].offset = frames[i].offset
        /\ frames'[m + 1].offset = stack.size - 1 - k
    BY <1>1, <1>3, <2>1, CallFacts DEF MatchedTick
  <2>3. /\ m \in Nat /\ stack.size \in Nat
        /\ \A i \in 1 .. m : frames[i].offset \in Nat /\ frames[i].offset <= Top.offset
    BY <2>1, <2>2, Windows
  <2>4. Top.offset \in Nat
    BY <1>1, <2>2, Sizes
  <2>5. \A i \in 1 .. m : frames[i].offset <= frames'[m + 1].offset
    BY <2>2, <2>3, <2>4
  <2>6. frames'[m + 1].offset \in Int
    BY <2>2, <2>3
  <2>7. ASSUME NEW i \in 1 .. m + 1, NEW j \in 1 .. m + 1, i <= j
        PROVE  frames'[i].offset <= frames'[j].offset
    <3>1. CASE j = m + 1 /\ i = m + 1
      BY <2>6, <3>1
    <3>2. CASE j = m + 1 /\ i \in 1 .. m
      BY <2>2, <2>5, <3>2
    <3>3. CASE i \in 1 .. m /\ j \in 1 .. m
      BY <1>1, <2>1, <2>2, <2>7, <3>3 DEF Nested
    <3> QED
      BY <2>3, <2>7, <3>1, <3>2, <3>3
  <2> QED
    BY <2>2, <2>7 DEF Nested
<1>4. CASE Return
  <2>1. /\ Len(frames') = Len(frames) - 1
        /\ \A i \in 1 .. Len(frames) - 1 : frames'[i] = frames[i]
    BY <1>1, <1>4, ReturnFacts
  <2>2. \A i \in 1 .. Len(frames') : i \in 1 .. Len(frames) /\ frames'[i] = frames[i]
    BY <1>1, <2>1
  <2> QED
    BY <1>1, <2>2 DEF Nested
<1>5. CASE Halt("error") \/ Halt("wild")
  BY <1>2, <1>5 DEF Halt, FramesStay
<1> QED
  BY <1>1, <1>2, <1>3, <1>4, <1>5, WindowsStay DEF MatchedTick, IInv

\* Every step is a step of UucActivations.
LEMMA Refined ==
  ASSUME PInv, IInv', MatchedTick
  PROVE  Activations!Next
<1>1. status = "ok" /\ prog' = prog
  BY DEF MatchedTick, Tick, Constant, Constant16, NoSuchName, DefineGlobal, GetGlobal,
    SetGlobal, UndefinedGlobal, GetLocal, SetLocal, Unary, Binary, Literal, Pop, Jump,
    JumpIfFalse, Call, Return, UnknownOpcode, RunPastCode, NoFrame, Executes
<1>2. IInv /\ TypeOK
  BY DEF PInv, IInv
<1>3. CASE ~ Call /\ ~ Return
  <2>1. FramesStay /\ KeepsBelow(stack')
    BY <1>2, <1>3, WindowsStay, WritesAbove DEF MatchedTick
  <2> QED
    BY <1>1, <2>1, WorkRefined DEF Activations!Next
<1>4. CASE Call /\ ~ Halt("error") /\ ~ Halt("wild")
  BY <1>1, <1>4, CallRefined DEF MatchedTick, Activations!Next
<1>5. CASE Call /\ (Halt("error") \/ Halt("wild"))
  <2>1. FramesStay
    BY <1>5 DEF Halt, FramesStay
  <2>2. KeepsBelow(stack')
    <3>1. IsStack(stack, ProgramValues) /\ KeepsBelow(stack)
      BY <1>1, <1>2, StackIsKept
    <3>2. stack' = StackDrop(stack)
      BY <1>5 DEF Call
    <3> QED
      BY <3>1, <3>2, DropKeeps
  <2> QED
    BY <1>1, <2>1, <2>2, WorkRefined DEF Activations!Next
<1>6. CASE Return
  BY <1>1, <1>6, ReturnRefined DEF Activations!Next
<1> QED
  BY <1>3, <1>4, <1>5, <1>6

\* A run starts with main's activation, which has no slots.
LEMMA RefinedInit == Init => PInv /\ Activations!Init
<1> SUFFICES ASSUME Init PROVE PInv /\ Activations!Init
  OBVIOUS
<1>1. /\ prog \in DOMAIN Programs /\ frames = <<[fn |-> "main", ii |-> 0, offset |-> 0]>>
      /\ stack.size = 0 /\ stack.mem = <<>> /\ status = "ok"
  BY DEF Init, EmptyStack
<1>2. PInv
  BY <1>1, GoodInit DEF PInv, Nested
<1>3. Activation(1) = [fn |-> "main", slots |-> <<>>]
  <2>1. SubSeq(<<>>, 0 + 1, 0) = <<>>
    BY SubSeqEmpty
  <2> QED
    BY <1>1, <2>1 DEF Activation, WindowEnd
<1>4. Acts = <<[fn |-> "main", slots |-> <<>>]>>
  <2>1. Len(frames) = 1
    BY <1>1
  <2>2. Acts = [i \in 1 .. 1 |-> Activation(i)]
    BY <2>1 DEF Acts
  <2>3. \A i \in 1 .. 1 : Activation(i) = [fn |-> "main", slots |-> <<>>]
    BY <1>3
  <2>4. Acts = [i \in 1 .. 1 |-> [fn |-> "main", slots |-> <<>>]]
    BY <2>2, <2>3
  <2> QED
    BY <2>4
<1> QED
  BY <1>1, <1>2, <1>4 DEF Activations!Init, Acts, Arities

(***************************************************************************)
(* For every program that has a stack map, while every call passes the     *)
(* declared number of arguments: the machine implements UucActivations.    *)
(***************************************************************************)
THEOREM SlotsArePrivate == MatchedSpec => PrivateSlots
<1>1. PInv /\ [MatchedNext]_vars => PInv'
  <2> SUFFICES ASSUME PInv, [MatchedNext]_vars PROVE PInv'
    OBVIOUS
  <2>1. IInv'
    BY GoodNext DEF PInv
  <2>2. CASE MatchedTick
    BY <2>1, <2>2, NestedNext DEF PInv
  <2>3. CASE UNCHANGED vars
    BY <2>1, <2>3 DEF PInv, Nested, vars
  <2> QED
    BY <2>2, <2>3 DEF MatchedNext, Stopped
<1>2. PInv /\ PInv' /\ [MatchedNext]_vars => [Activations!Next]_(Activations!vars)
  <2> SUFFICES ASSUME PInv, PInv', [MatchedNext]_vars
               PROVE  [Activations!Next]_(Activations!vars)
    OBVIOUS
  <2>1. CASE MatchedTick
    BY <2>1, Refined DEF PInv
  <2>2. CASE UNCHANGED vars
    BY <2>2 DEF vars, Activations!vars, Activation, WindowEnd
  <2> QED
    BY <2>1, <2>2 DEF MatchedNext, Stopped
<1> QED
  BY <1>1, <1>2, RefinedInit, PTL DEF MatchedSpec, PrivateSlots, Activations!Spec
=============================================================================
