---------------------------- MODULE UucVMProofs -----------------------------
(***************************************************************************)
(* Theorems about the virtual machine, for every set of programs.          *)
(***************************************************************************)
EXTENDS UucVM, UucLemmas

FrameType == [fn: DOMAIN Programs[prog], ii: Int, offset: 0 .. WordMod - 1]
Statuses  == {"ok", "end", "error", "exit", "wild"}

\* The function that executes, and the constants it may push.
LEMMA Fetched ==
  ASSUME TypeOK, frames # <<>>
  PROVE  /\ Len(frames) \in Nat \ {0}
         /\ Top \in FrameType
         /\ Fn \in Functions
         /\ \A i \in 1 .. Len(Fn.constants) : Fn.constants[i] \in ProgramValues
         /\ \A i \in 1 .. Len(Fn.names) : Fn.names[i] \in Keys
<1>1. Len(frames) \in Nat \ {0} /\ Top \in FrameType
  <2>1. frames \in Seq(FrameType)
    BY DEF TypeOK, FrameType
  <2>2. Len(frames) \in Nat \ {0}
    BY <2>1, EmptySeq
  <2> QED
    BY <2>1, <2>2 DEF Top
<1>2. prog \in DOMAIN Programs /\ Top.fn \in DOMAIN Programs[prog]
  BY <1>1 DEF TypeOK, FrameType
<1>3. Fn \in Functions
  BY <1>2, ProgramsAssumption DEF Fn
<1>4. ASSUME NEW i \in 1 .. Len(Fn.constants)
      PROVE  Fn.constants[i] \in ProgramValues
  <2> DEFINE c == Fn.constants[i]
  <2>1. c \in Values
    BY <1>3 DEF Functions
  <2>2. c.type = "function" => c.fn \in DOMAIN Programs[prog] \ {"main"}
    <3>1. i \in DOMAIN Fn.constants
      BY <1>3 DEF Functions
    <3> QED
      BY <1>2, <3>1, ProgramsAssumption DEF Fn
  <2> HIDE DEF c
  <2>3. c \in ValuesOver(DOMAIN Programs[prog] \ {"main"})
    BY <2>1, <2>2 DEF Values, ValuesOver
  <2> QED
    BY <2>3 DEF ProgramValues, c
<1>5. \A i \in 1 .. Len(Fn.names) : Fn.names[i] \in Keys
  BY <1>3 DEF Functions
<1> QED
  BY <1>1, <1>3, <1>4, <1>5

\* What is left when the last element is dropped.
LEMMA FrontOf ==
  ASSUME NEW S, NEW s \in Seq(S), s # <<>>
  PROVE  /\ Front(s) \in Seq(S)
         /\ Len(Front(s)) = Len(s) - 1
         /\ \A i \in 1 .. Len(s) - 1 : Front(s)[i] = s[i]
<1>1. Len(s) \in Nat \ {0}
  BY EmptySeq
<1>2. \A i \in 1 .. Len(s) - 1 : s[i] \in S
  BY <1>1
<1>3. PICK n \in Nat : n = Len(s) - 1
  BY <1>1
<1>4. Front(s) = SubSeq(s, 1, n)
  BY <1>3 DEF Front
<1>5. SubSeq(s, 1, n) \in Seq(S)
  BY <1>1, <1>2, <1>3
<1>6. Len(SubSeq(s, 1, n)) = n
  BY <1>1, <1>2, <1>3
<1>7. \A i \in 1 .. n : SubSeq(s, 1, n)[i] = s[i]
  BY <1>1, <1>2, <1>3
<1> QED
  BY <1>3, <1>4, <1>5, <1>6, <1>7

\* The bytes of an instruction that lies within the code.
LEMMA Operands ==
  ASSUME TypeOK, frames # <<>>, InCode
  PROVE  /\ Top.ii \in Nat /\ Op \in Byte
         /\ Op \in OneByteOperand => Operand \in Byte
         /\ Op \in TwoByteOperand => Operand16 \in Nat
<1>1. Code \in Seq(Byte) /\ Top.ii \in Int
  BY Fetched DEF Code, Functions, FrameType
<1>2. Top.ii \in 0 .. Len(Code) - 1 /\ Top.ii + Width(Op) <= Len(Code)
  BY DEF InCode
<1>3. Op \in Byte
  BY <1>1, <1>2 DEF Op
<1>4. ASSUME Op \in OneByteOperand PROVE Operand \in Byte
  <2>1. Width(Op) = 2
    BY <1>4 DEF Width
  <2> QED
    BY <1>1, <1>2, <2>1 DEF Operand
<1>5. ASSUME Op \in TwoByteOperand PROVE Operand16 \in Nat
  <2>1. Width(Op) = 3
    BY <1>5 DEF Width, TwoByteOperand, OneByteOperand, Jumps, OP_CONSTANT,
      OP_DEFINE_GLOBAL, OP_GET_GLOBAL, OP_SET_GLOBAL, OP_GET_LOCAL, OP_SET_LOCAL,
      OP_CALL, OP_JUMP, OP_JUMP_BACK, OP_JUMP_IF_FALSE
  <2>2. Code[Top.ii + 2] \in Byte /\ Code[Top.ii + 3] \in Byte
    BY <1>1, <1>2, <2>1
  <2>3. \A m, n \in Byte : 256 * m + n \in Nat
    BY DEF Byte
  <2> QED
    BY <2>2, <2>3 DEF Operand16
<1> QED
  BY <1>2, <1>3, <1>4, <1>5

\* Advance moves the executing frame and no other.
LEMMA AdvanceTyped ==
  ASSUME TypeOK, frames # <<>>, NEW n \in Int, Advance(n)
  PROVE  /\ frames' \in Seq(FrameType)
         /\ Len(frames') = Len(frames)
         /\ \A i \in 1 .. Len(frames) - 1 : frames'[i] = frames[i]
         /\ frames'[Len(frames)] = [Top EXCEPT !.ii = @ + n]
         /\ status' \in {"ok", "end"}
<1> DEFINE top == [Top EXCEPT !.ii = @ + n]
<1>1. frames \in Seq(FrameType) /\ Len(frames) \in 1 .. Len(frames)
  BY Fetched DEF TypeOK, FrameType
<1>2. top \in FrameType
  BY Fetched DEF FrameType
<1>3. frames' = [frames EXCEPT ![Len(frames)] = top]
  BY DEF Advance, Top
<1>4. status' \in {"ok", "end"}
  BY DEF Advance
<1> HIDE DEF top
<1>5. /\ frames' \in Seq(FrameType)
      /\ Len(frames') = Len(frames)
      /\ \A i \in 1 .. Len(frames) : frames'[i] = IF i = Len(frames) THEN top ELSE frames[i]
  BY <1>1, <1>2, <1>3, ExceptSeq
<1> QED
  BY <1>1, <1>4, <1>5 DEF top

\* A state whose parts are typed is typed.
LEMMA Typed ==
  ASSUME TypeOK, prog' = prog,
         IsStack(stack', StackValues), IsTable(globals', StackValues),
         frames' \in Seq(FrameType), Len(frames') <= MaxCallFrames,
         status' \in Statuses
  PROVE  TypeOK'
  BY DEF TypeOK, StackValues, ProgramValues, FrameType, Statuses

\* The null, the booleans, ... are values of every program, and may be on the stack.
LEMMA StackHasValues ==
  /\ ProgramValues \subseteq StackValues /\ Anything \in StackValues
  /\ {NullVal, DoubleVal, StringVal} \subseteq ProgramValues
  /\ \A n \in Int : IntVal(n) \in ProgramValues
  /\ \A b \in BOOLEAN : BoolVal(b) \in ProgramValues
  BY MadeValues DEF ProgramValues, StackValues

-----------------------------------------------------------------------------
(***************************************************************************)
(* The steps that push, pop or write the stack and stay in the frame.      *)
(***************************************************************************)
\* A step that goes on in the same frame.
LEMMA AdvanceStep ==
  ASSUME TypeOK, frames # <<>>, prog' = prog,
         IsStack(stack', StackValues), IsTable(globals', StackValues),
         NEW n \in Int, Advance(n)
  PROVE  TypeOK'
<1>1. /\ frames' \in Seq(FrameType) /\ Len(frames') = Len(frames)
      /\ status' \in {"ok", "end"}
  BY AdvanceTyped
<1> QED
  BY <1>1, Typed DEF TypeOK, Statuses

\* A step that stops the machine.
LEMMA HaltStep ==
  ASSUME TypeOK, prog' = prog, IsStack(stack', StackValues), globals' = globals,
         NEW reason \in Statuses, Halt(reason)
  PROVE  TypeOK'
  BY Typed DEF Halt, TypeOK, FrameType

\* A constant of the executing function is a value of the program.
LEMMA ConstantStep ==
  ASSUME TypeOK, Constant \/ Constant16 PROVE TypeOK'
<1>1. frames # <<>> /\ prog' = prog /\ globals' = globals /\ IsStack(stack, StackValues)
      /\ IsTable(globals, StackValues) /\ InCode
  BY DEF Constant, Constant16, Executes, TypeOK
<1>2. ASSUME NEW v \in StackValues PROVE IsStack(StackPush(stack, v), StackValues)
  BY <1>1, PushTyped
<1>3. CASE Constant
  <2>1. Operand \in Byte
    BY <1>1, <1>3, Operands DEF Constant, Executes, OneByteOperand
  <2>2. CASE Operand < Len(Fn.constants)
    <3>1. Fn.constants[Operand + 1] \in StackValues
      BY <1>1, <2>1, <2>2, Fetched, StackHasValues DEF Byte, Functions
    <3>2. IsStack(stack', StackValues) /\ Advance(2)
      BY <1>2, <1>3, <2>2, <3>1 DEF Constant
    <3> QED
      BY <1>1, <3>2, AdvanceStep
  <2>3. CASE ~ (Operand < Len(Fn.constants))
    BY <1>1, <1>3, <2>3, HaltStep DEF Constant, Statuses
  <2> QED
    BY <2>2, <2>3
<1>4. CASE Constant16
  <2>1. CASE Fn.constants # <<>>
    <3>1. Fn.constants[1] \in StackValues
      BY <1>1, <2>1, Fetched, EmptySeq, StackHasValues DEF Functions
    <3>2. IsStack(stack', StackValues) /\ Advance(1)
      BY <1>2, <1>4, <2>1, <3>1 DEF Constant16
    <3> QED
      BY <1>1, <3>2, AdvanceStep
  <2>2. CASE Fn.constants = <<>>
    BY <1>1, <1>4, <2>2, HaltStep DEF Constant16, Statuses
  <2> QED
    BY <2>1, <2>2
<1> QED
  BY <1>3, <1>4

\* The table maps names to values of the program.
LEMMA GlobalStep ==
  ASSUME TypeOK, NoSuchName \/ DefineGlobal \/ GetGlobal \/ SetGlobal \/ UndefinedGlobal
  PROVE  TypeOK'
<1>1. frames # <<>> /\ prog' = prog /\ InCode /\ Op \in GlobalOps
      /\ IsStack(stack, StackValues) /\ IsTable(globals, StackValues)
  BY DEF NoSuchName, DefineGlobal, GetGlobal, SetGlobal, UndefinedGlobal, Executes,
    GlobalOps, TypeOK
<1>2. CASE NoSuchName \/ UndefinedGlobal
  BY <1>1, <1>2, HaltStep DEF NoSuchName, UndefinedGlobal, Statuses
<1>3. ASSUME HasName PROVE Name \in Keys
  <2>1. Operand \in Byte
    BY <1>1, Operands DEF GlobalOps, OneByteOperand
  <2> QED
    BY <1>1, <1>3, <2>1, Fetched DEF HasName, Name, Byte, Functions
<1>4. CASE DefineGlobal \/ SetGlobal
  <2>1. StackPeek(stack) \in StackValues /\ IsStack(StackDrop(stack), StackValues)
    BY <1>1, PopTyped, StackHasValues
  <2>2. IsTable(globals', StackValues)
    BY <1>1, <1>3, <1>4, <2>1, TablePutTyped DEF DefineGlobal, SetGlobal
  <2>3. stack' = StackDrop(stack) /\ Advance(2)
    BY <1>4 DEF DefineGlobal, SetGlobal
  <2> QED
    BY <1>1, <2>1, <2>2, <2>3, AdvanceStep
<1>5. CASE GetGlobal
  <2>1. TableFetch(globals, Name) \in StackValues
    BY <1>1, <1>3, <1>5, FetchTyped DEF GetGlobal
  <2>2. IsStack(stack', StackValues) /\ globals' = globals /\ Advance(2)
    BY <1>1, <1>5, <2>1, PushTyped DEF GetGlobal
  <2> QED
    BY <1>1, <2>2, AdvanceStep
<1> QED
  BY <1>2, <1>4, <1>5

\* What is read is on the stack, was, or is Anything.
LEMMA LocalStep ==
  ASSUME TypeOK, GetLocal \/ SetLocal PROVE TypeOK'
<1>1. frames # <<>> /\ prog' = prog /\ globals' = globals /\ InCode
      /\ Op \in {OP_GET_LOCAL, OP_SET_LOCAL}
      /\ IsStack(stack, StackValues) /\ IsTable(globals, StackValues)
  BY DEF GetLocal, SetLocal, Executes, TypeOK
<1>2. Operand \in Byte /\ Top.offset \in Nat
  BY <1>1, Operands, Fetched DEF OneByteOperand, FrameType
<1>3. LocalSlot \in Nat
  BY <1>2, WordModAssumption DEF LocalSlot, Wrap, Byte
<1>4. CASE GetLocal
  <2>1. CASE UNCHANGED stack /\ (Halt("exit") \/ Halt("wild"))
    BY <1>1, <2>1, HaltStep DEF Statuses
  <2>2. ASSUME NEW v \in StackValues, stack' = StackPush(stack, v), Advance(2)
        PROVE  TypeOK'
    <3>1. IsStack(stack', StackValues)
      BY <1>1, <2>2, PushTyped
    <3> QED
      BY <1>1, <2>2, <3>1, AdvanceStep
  <2>3. LocalSlot < Len(stack.mem) => stack.mem[LocalSlot + 1] \in StackValues
    BY <1>1, <1>3 DEF IsStack
  <2> QED
    BY <1>4, <2>1, <2>2, <2>3, StackHasValues DEF GetLocal
<1>5. CASE SetLocal
  <2>1. StackPeek(stack) \in StackValues /\ IsStack(StackDrop(stack), StackValues)
    BY <1>1, PopTyped, StackHasValues
  <2>2. CASE LocalSlot > StackDrop(stack).size
    BY <1>1, <1>5, <2>1, <2>2, HaltStep DEF SetLocal, Statuses
  <2>3. CASE ~ (LocalSlot > StackDrop(stack).size)
    <3>1. LocalSlot \in 0 .. StackDrop(stack).size
      BY <1>3, <2>1, <2>3 DEF IsStack
    <3>2. IsStack(stack', StackValues) /\ Advance(2)
      BY <1>5, <2>1, <2>3, <3>1, SetTyped DEF SetLocal
    <3> QED
      BY <1>1, <3>2, AdvanceStep
  <2> QED
    BY <2>2, <2>3
<1> QED
  BY <1>4, <1>5

\* Operands are taken off the stack one at a time, empty or not.
LEMMA OperatorStep ==
  ASSUME TypeOK, Unary \/ Binary \/ Literal \/ Pop PROVE TypeOK'
<1> DEFINE b  == StackPeek(stack)
           s1 == StackDrop(stack)
           a  == StackPeek(s1)
           s2 == StackDrop(s1)
<1>1. frames # <<>> /\ prog' = prog /\ globals' = globals
      /\ IsStack(stack, StackValues) /\ IsTable(globals, StackValues)
  BY DEF Unary, Binary, Literal, Pop, Executes, TypeOK
<1>2. b \in StackValues /\ IsStack(s1, StackValues)
  BY <1>1, PopTyped, StackHasValues
<1>3. a \in StackValues /\ IsStack(s2, StackValues)
  BY <1>2, PopTyped, StackHasValues
<1>4. CASE Unary
  <2>1. PICK r \in UnaryResults(Op, b) :
          IF r = Fail THEN stack' = s1 /\ Halt("error")
                      ELSE stack' = StackPush(s1, r) /\ Advance(1)
    BY <1>4 DEF Unary
  <2>2. r # Fail => r \in StackValues
    BY <1>2, UnaryTyped DEF StackValues, ProgramValues
  <2>3. CASE r = Fail
    BY <1>1, <1>2, <2>1, <2>3, HaltStep DEF Statuses
  <2>4. CASE r # Fail
    <3> HIDE DEF s1
    <3>1. IsStack(stack', StackValues)
      BY <1>2, <2>1, <2>2, <2>4, PushTyped
    <3> QED
      BY <1>1, <2>1, <2>4, <3>1, AdvanceStep
  <2> QED
    BY <2>3, <2>4
<1>5. CASE Binary
  <2>1. CASE stack' = s1 /\ Halt("error")
    BY <1>1, <1>2, <2>1, HaltStep DEF Statuses
  <2>2. CASE stack' = s2 /\ (Halt("error") \/ Halt("wild"))
    BY <1>1, <1>3, <2>2, HaltStep DEF Statuses
  <2>3. ASSUME NEW r \in BinaryResults(Op, a, b),
               \/ r = Fail /\ stack' = StackPush(s2, NullVal) /\ Halt("error")
               \/ r \notin {Fail, Wild} /\ stack' = StackPush(s2, r) /\ Advance(1)
        PROVE  TypeOK'
    <3> HIDE DEF a, b, s2
    <3>1. r \notin {Fail, Wild} => r \in StackValues
      BY <1>2, <1>3, <1>5, <2>3, BinaryTyped DEF StackValues, ProgramValues, Binary, Executes
    <3>2. CASE r = Fail
      <4>1. IsStack(stack', StackValues)
        BY <1>3, <2>3, <3>2, PushTyped, StackHasValues
      <4> QED
        BY <1>1, <2>3, <3>2, <4>1, HaltStep DEF Statuses
    <3>3. CASE r \notin {Fail, Wild}
      <4>1. IsStack(stack', StackValues) /\ Advance(1)
        BY <1>3, <2>3, <3>1, <3>3, PushTyped
      <4> QED
        BY <1>1, <4>1, AdvanceStep
    <3> QED
      BY <2>3, <3>2, <3>3
  <2> QED
    <3>1. \/ stack' = s1 /\ Halt("error")
          \/ stack' = s2 /\ (Halt("error") \/ Halt("wild"))
          \/ \E r \in BinaryResults(Op, a, b) :
               \/ r = Fail /\ stack' = StackPush(s2, NullVal) /\ Halt("error")
               \/ r \notin {Fail, Wild} /\ stack' = StackPush(s2, r) /\ Advance(1)
      BY <1>5 DEF Binary
    <3> QED
      BY <2>1, <2>2, <2>3, <3>1
<1>6. CASE Literal
  <2>1. LiteralValue(Op) \in StackValues
    BY StackHasValues DEF LiteralValue
  <2>2. IsStack(stack', StackValues) /\ Advance(1)
    BY <1>1, <1>6, <2>1, PushTyped DEF Literal
  <2> QED
    BY <1>1, <2>2, AdvanceStep
<1>7. CASE Pop
  <2>1. stack' = s1 /\ Advance(1)
    BY <1>7 DEF Pop
  <2> QED
    BY <1>1, <1>2, <2>1, AdvanceStep
<1> QED
  BY <1>4, <1>5, <1>6, <1>7

\* A jump moves ii anywhere, a conditional one pops first.
LEMMA JumpStep ==
  ASSUME TypeOK, Jump \/ JumpIfFalse PROVE TypeOK'
<1>1. frames # <<>> /\ prog' = prog /\ globals' = globals /\ InCode
      /\ Op \in TwoByteOperand
      /\ IsStack(stack, StackValues) /\ IsTable(globals, StackValues)
  BY DEF Jump, JumpIfFalse, Executes, TwoByteOperand, TypeOK
<1>2. Operand16 \in Nat
  BY <1>1, Operands
<1>3. CASE Jump
  <2>1. PICK n \in Int : Advance(n)
    BY <1>2, <1>3 DEF Jump
  <2>2. stack' = stack
    BY <1>3 DEF Jump
  <2> QED
    BY <1>1, <2>1, <2>2, AdvanceStep
<1>4. CASE JumpIfFalse
  <2>1. IsStack(stack', StackValues)
    BY <1>1, <1>4, PopTyped, StackHasValues DEF JumpIfFalse
  <2>2. CASE Halt("error") \/ Halt("wild")
    BY <1>1, <2>1, <2>2, HaltStep DEF Statuses
  <2>3. ASSUME NEW n \in Int, Advance(n) PROVE TypeOK'
    BY <1>1, <2>1, <2>3, AdvanceStep
  <2> QED
    BY <1>2, <1>4, <2>2, <2>3 DEF JumpIfFalse
<1> QED
  BY <1>3, <1>4

\* The frame a call pushes is a frame of a function of the program.
LEMMA CallStep == ASSUME TypeOK, Call PROVE TypeOK'
<1> DEFINE callee == StackPeek(stack)
           s == StackDrop(stack)
           caller == [Top EXCEPT !.ii = @ + 2]
           new == [fn |-> callee.fn, ii |-> 0,
                   offset |-> FrameOffset(s, Programs[prog][callee.fn])]
<1>1. frames # <<>> /\ prog' = prog /\ globals' = globals /\ stack' = s
      /\ IsStack(stack, StackValues) /\ IsTable(globals, StackValues)
  BY DEF Call, Executes, TypeOK
<1>2. callee \in StackValues /\ IsStack(s, StackValues)
  BY <1>1, PopTyped, StackHasValues
<1>3. CASE Halt("error") \/ Halt("wild")
  BY <1>1, <1>2, <1>3, HaltStep DEF Statuses
<1>4. CASE /\ callee.type = "function"
           /\ Len(frames) # MaxCallFrames
           /\ frames' = Append([frames EXCEPT ![Len(frames)].ii = @ + 2], new)
           /\ UNCHANGED status
  <2>1. callee.fn \in DOMAIN Programs[prog]
    BY <1>2, <1>4, ValueCases DEF StackValues, ProgramValues, Anything
  <2>2. Programs[prog][callee.fn].arity \in Byte
    BY <2>1, ProgramsAssumption DEF TypeOK, Functions
  <2>3. FrameOffset(s, Programs[prog][callee.fn]) \in 0 .. WordMod - 1
    <3>1. \A n \in Int : Wrap(n) \in 0 .. WordMod - 1
      BY WordModAssumption DEF Wrap
    <3>2. s.size \in Nat
      BY <1>2 DEF IsStack
    <3>3. \A n \in Byte : s.size - n \in Int
      BY <3>2 DEF Byte
    <3> QED
      BY <2>2, <3>1, <3>3 DEF FrameOffset
  <2>4. new \in FrameType
    BY <2>1, <2>3 DEF FrameType
  <2>5. frames \in Seq(FrameType) /\ Len(frames) \in 1 .. Len(frames)
    BY <1>1, Fetched DEF TypeOK, FrameType
  <2>6. caller \in FrameType
    <3>1. Top \in FrameType
      BY <1>1, Fetched
    <3> QED
      BY <3>1 DEF FrameType
  <2>7. frames' \in Seq(FrameType) /\ Len(frames') = Len(frames) + 1
    <3> DEFINE below == [frames EXCEPT ![Len(frames)] = caller]
    <3>1. frames' = Append(below, new)
      BY <1>4 DEF Top
    <3> HIDE DEF caller, new
    <3>2. below \in Seq(FrameType) /\ Len(below) = Len(frames)
      BY <2>5, <2>6, ExceptSeq
    <3> HIDE DEF below
    <3> QED
      BY <2>4, <3>1, <3>2
  <2>8. Len(frames') <= MaxCallFrames
    BY <1>4, <2>5, <2>7, ProgramsAssumption DEF TypeOK
  <2>9. status' \in Statuses
    BY <1>4 DEF TypeOK, Statuses
  <2> QED
    BY <1>1, <1>2, <2>7, <2>8, <2>9, Typed
<1> QED
  BY <1>3, <1>4 DEF Call

\* A return drops one frame, and as many slots as there are or fewer.
LEMMA ReturnStep == ASSUME TypeOK, Return PROVE TypeOK'
<1> DEFINE s      == StackDrop(stack)
           locals == Wrap(s.size - Top.offset)
           left   == IF locals > s.size THEN 0 ELSE s.size - locals
           t      == [s EXCEPT !.size = left]
<1>1. frames # <<>> /\ prog' = prog /\ globals' = globals
      /\ IsStack(stack, StackValues) /\ IsTable(globals, StackValues)
  BY DEF Return, Executes, TypeOK
<1>2. StackPeek(stack) \in StackValues /\ IsStack(s, StackValues)
  BY <1>1, PopTyped, StackHasValues
<1>3. left \in 0 .. s.size
  BY <1>1, <1>2, Fetched, WordModAssumption DEF IsStack, FrameType, Wrap
<1> HIDE DEF left, s
<1>4. IsStack(t, StackValues)
  BY <1>2, <1>3 DEF IsStack
<1>5. stack' = StackPush(t, StackPeek(stack))
  BY DEF Return, left, s
<1> HIDE DEF t
<1>6. IsStack(stack', StackValues)
  BY <1>2, <1>4, <1>5, PushTyped
<1>7. frames' \in Seq(FrameType) /\ Len(frames') <= Len(frames)
  <2>1. frames \in Seq(FrameType) /\ Len(frames) \in Nat \ {0}
    BY <1>1, Fetched DEF TypeOK, FrameType
  <2> QED
    BY <2>1 DEF Return, Front
<1>8. status' \in Statuses
  BY DEF Return, Statuses
<1>9. Len(frames') <= MaxCallFrames
  BY <1>1, <1>7, Fetched, ProgramsAssumption DEF TypeOK
<1> QED
  BY <1>1, <1>6, <1>7, <1>8, <1>9, Typed

\* What stops the machine without another change.
LEMMA LastStep ==
  ASSUME TypeOK, UnknownOpcode \/ RunPastCode \/ NoFrame PROVE TypeOK'
  BY HaltStep DEF UnknownOpcode, RunPastCode, NoFrame, TypeOK, Statuses

-----------------------------------------------------------------------------
(***************************************************************************)
(* TypeOK is inductive, whatever the code: a frame only ever runs a        *)
(* function of the program, what was never written gets on the stack by    *)
(* stack_get alone, and call_frames never holds more than MAX_CALL_FRAMES  *)
(* frames.                                                                 *)
(***************************************************************************)
LEMMA TypeInit == Init => TypeOK
<1> SUFFICES ASSUME Init PROVE TypeOK
  OBVIOUS
<1>1. IsStack(stack, StackValues)
  BY DEF Init, IsStack, EmptyStack
<1>2. frames \in Seq([fn: DOMAIN Programs[prog], ii: Int, offset: 0 .. WordMod - 1]) /\ Len(frames) = 1
  BY ProgramsAssumption, WordModAssumption DEF Init
<1>3. IsTable(globals, StackValues)
  BY EmptyTableTyped, ProgramsAssumption DEF Init
<1> QED
  BY <1>1, <1>2, <1>3, ProgramsAssumption DEF Init, TypeOK

\* Every step keeps TypeOK, one lemma per group of actions.
LEMMA TypeNext == TypeOK /\ [Next]_vars => TypeOK'
<1> SUFFICES ASSUME TypeOK, [Next]_vars PROVE TypeOK'
  OBVIOUS
<1>1. CASE Tick
  BY <1>1, ConstantStep, GlobalStep, LocalStep, OperatorStep, JumpStep, CallStep,
    ReturnStep, LastStep DEF Tick
<1>2. CASE UNCHANGED vars
  BY <1>2 DEF vars, TypeOK, StackValues, ProgramValues
<1> QED
  BY <1>1, <1>2 DEF Next, Stopped

\* A tick is one of a machine that runs, and what it runs stays the same.
LEMMA TickRuns == ASSUME Tick PROVE status = "ok" /\ prog' = prog
<1>1. CASE Constant \/ Constant16 \/ NoSuchName \/ DefineGlobal \/ GetGlobal \/ SetGlobal
           \/ UndefinedGlobal \/ GetLocal \/ SetLocal
  BY <1>1 DEF Constant, Constant16, NoSuchName, DefineGlobal, GetGlobal, SetGlobal,
     UndefinedGlobal, GetLocal, SetLocal, Executes
<1>2. CASE Unary \/ Binary \/ Literal \/ Pop \/ Jump \/ JumpIfFalse \/ Call \/ Return
  BY <1>2 DEF Unary, Binary, Literal, Pop, Jump, JumpIfFalse, Call, Return, Executes
<1>3. CASE UnknownOpcode \/ RunPastCode \/ NoFrame
  BY <1>3 DEF UnknownOpcode, RunPastCode, NoFrame
<1> QED
  BY <1>1, <1>2, <1>3 DEF Tick

(***************************************************************************)
(* Whatever code runs, as long as the machine keeps to its memory: what is *)
(* on the stack and in the table is a value the program made, or comes     *)
(* from a slot that was read before anything was stored in it; a function  *)
(* made is one of the program's, so that calling it finds code; and        *)
(* call_frames is not overrun.  What such a slot holds is left open, and   *)
(* calling it or adding to it may lead anywhere ("wild").                  *)
(***************************************************************************)
THEOREM TypeInvariant == Spec => []TypeOK
<1> QED
  BY TypeInit, TypeNext, PTL DEF Spec

-----------------------------------------------------------------------------
(***************************************************************************)
(* ReturnAddresses is inductive relative to TypeOK.  Only three actions    *)
(* touch a frame below the top one: none moves it; OP_CALL turns the top   *)
(* one into such a frame, two bytes on, and OP_RETURN makes one the top.   *)
(***************************************************************************)

\* A frame resumes after an OP_CALL of its function.
Resumes(frame) ==
  LET code == Programs[prog][frame.fn].code
  IN  frame.ii \in 2 .. Len(code) /\ code[frame.ii - 1] = OP_CALL

\* No frame below the top one is touched.
BelowKept ==
  Len(frames') = Len(frames) /\ \A i \in 1 .. Len(frames) - 1 : frames'[i] = frames[i]

\* Steps other than calls and returns leave the frames below the top alone.
LEMMA FramesBelow ==
  ASSUME TypeOK, Tick, ~ Call, ~ Return
  PROVE  BelowKept
<1>1. ASSUME frames # <<>>, NEW n \in Int, Advance(n)
      PROVE  BelowKept
  BY <1>1, AdvanceTyped DEF BelowKept
<1>2. ASSUME NEW reason, Halt(reason)
      PROVE  BelowKept
  BY <1>2 DEF Halt, BelowKept
<1>3. CASE Constant \/ Constant16
  BY <1>1, <1>2, <1>3 DEF Constant, Constant16, Executes
<1>4. CASE NoSuchName \/ DefineGlobal \/ GetGlobal \/ SetGlobal \/ UndefinedGlobal
  BY <1>1, <1>2, <1>4 DEF NoSuchName, DefineGlobal, GetGlobal, SetGlobal,
    UndefinedGlobal, Executes
<1>5. CASE GetLocal \/ SetLocal
  BY <1>1, <1>2, <1>5 DEF GetLocal, SetLocal, Executes
<1>6. CASE Unary \/ Literal \/ Pop
  BY <1>1, <1>2, <1>6 DEF Unary, Literal, Pop, Executes
<1>7. CASE Binary
  <2>1. frames # <<>> /\ (Advance(1) \/ Halt("error") \/ Halt("wild"))
    BY <1>7 DEF Binary, Executes
  <2> QED
    BY <1>1, <1>2, <2>1
<1>8. CASE Jump \/ JumpIfFalse
  <2>1. frames # <<>> /\ InCode /\ Op \in TwoByteOperand
    BY <1>8 DEF Jump, JumpIfFalse, Executes, TwoByteOperand
  <2>2. Operand16 \in Nat
    BY <2>1, Operands
  <2>3. Halt("error") \/ Halt("wild") \/ \E n \in Int : Advance(n)
    BY <1>8, <2>2 DEF Jump, JumpIfFalse
  <2> QED
    BY <1>1, <1>2, <2>1, <2>3
<1>9. CASE UnknownOpcode \/ RunPastCode \/ NoFrame
  BY <1>2, <1>9 DEF UnknownOpcode, RunPastCode, NoFrame
<1> QED
  BY <1>3, <1>4, <1>5, <1>6, <1>7, <1>8, <1>9 DEF Tick

\* A caller is left right after the OP_CALL that it executes.
LEMMA CallResumes ==
  ASSUME TypeOK, Call, ReturnAddresses PROVE ReturnAddresses'
<1> DEFINE callee == StackPeek(stack)
           s == StackDrop(stack)
           caller == [Top EXCEPT !.ii = @ + 2]
           below == [frames EXCEPT ![Len(frames)] = caller]
           new == [fn |-> callee.fn, ii |-> 0,
                   offset |-> FrameOffset(s, Programs[prog][callee.fn])]
<1>1. frames # <<>> /\ prog' = prog /\ InCode /\ Op = OP_CALL
  BY DEF Call, Executes
<1>2. frames \in Seq(FrameType) /\ Len(frames) \in 1 .. Len(frames) /\ Top \in FrameType
  BY <1>1, Fetched DEF TypeOK, FrameType
<1>3. CASE UNCHANGED frames
  BY <1>1, <1>3 DEF ReturnAddresses
<1>4. CASE frames' = Append([frames EXCEPT ![Len(frames)].ii = @ + 2], new)
  <2>1. frames' = Append(below, new)
    BY <1>4 DEF Top
  <2>2. caller \in FrameType
    <3>1. Top \in FrameType
      BY <1>2
    <3> QED
      BY <3>1 DEF FrameType
  <2>3. Resumes(caller)
    <3>1. /\ Top.ii \in 0 .. Len(Code) - 1 /\ Top.ii + 2 <= Len(Code)
          /\ Code[Top.ii + 1] = OP_CALL
      BY <1>1 DEF InCode, Op, Width, OneByteOperand
    <3>2. Len(Code) \in Nat
      BY <1>1, Fetched DEF Code, Functions
    <3>3. caller.fn = Top.fn /\ caller.ii = Top.ii + 2
      BY <1>2 DEF FrameType
    <3>4. caller.ii \in 2 .. Len(Code) /\ Code[caller.ii - 1] = OP_CALL
      BY <3>1, <3>2, <3>3
    <3> QED
      BY <3>3, <3>4 DEF Resumes, Code, Fn
  <2> HIDE DEF caller, new
  <2>4. /\ below \in Seq(FrameType) /\ Len(below) = Len(frames)
        /\ \A i \in 1 .. Len(frames) :
             below[i] = IF i = Len(frames) THEN caller ELSE frames[i]
    BY <1>2, <2>2, ExceptSeq
  <2> HIDE DEF below
  <2>5. Len(frames') - 1 = Len(frames) /\ \A i \in 1 .. Len(frames) : frames'[i] = below[i]
    BY <1>2, <2>1, <2>4
  <2>6. \A i \in 1 .. Len(frames) - 1 : Resumes(frames[i])
    BY DEF ReturnAddresses, Resumes
  <2>7. \A i \in 1 .. Len(frames) : Resumes(below[i])
    BY <1>2, <2>3, <2>4, <2>6
  <2> QED
    BY <1>1, <2>5, <2>7 DEF ReturnAddresses, Resumes
<1> QED
  BY <1>3, <1>4 DEF Call, Halt

\* Every step keeps ReturnAddresses.
LEMMA ReturnAddressesNext ==
  ASSUME TypeOK, [Next]_vars, ReturnAddresses PROVE ReturnAddresses'
<1>1. frames \in Seq(FrameType)
  BY DEF TypeOK, FrameType
<1>2. CASE UNCHANGED vars
  BY <1>2 DEF vars, ReturnAddresses
<1>3. CASE Call
  BY <1>3, CallResumes
<1>4. CASE Return
  <2>1. frames # <<>> /\ frames' = Front(frames) /\ prog' = prog
    BY <1>4 DEF Return, Executes
  <2>2. /\ Len(frames') = Len(frames) - 1
        /\ \A i \in 1 .. Len(frames) - 1 : frames'[i] = frames[i]
    BY <1>1, <2>1, FrontOf
  <2>3. Len(frames) \in Nat
    BY <1>1
  <2>4. \A i \in 1 .. Len(frames') - 1 :
          i \in 1 .. Len(frames) - 1 /\ frames'[i] = frames[i]
    BY <2>2, <2>3
  <2> QED
    BY <2>1, <2>4 DEF ReturnAddresses
<1>5. CASE Tick /\ ~ Call /\ ~ Return
  <2>1. BelowKept
    BY <1>5, FramesBelow
  <2>2. prog' = prog
    BY <1>5 DEF Tick, Constant, Constant16, NoSuchName, DefineGlobal, GetGlobal,
      SetGlobal, UndefinedGlobal, GetLocal, SetLocal, Unary, Binary, Literal, Pop,
      Jump, JumpIfFalse, UnknownOpcode, RunPastCode, NoFrame
  <2> QED
    BY <2>1, <2>2 DEF BelowKept, ReturnAddresses
<1> QED
  BY <1>2, <1>3, <1>4, <1>5 DEF Next, Stopped

(***************************************************************************)
(* Whatever code runs, a caller resumes right after its OP_CALL.           *)
(***************************************************************************)
THEOREM CallersResume == Spec => []ReturnAddresses
<1>1. Init => ReturnAddresses
  BY DEF Init, ReturnAddresses
<1> QED
  BY <1>1, TypeInvariant, ReturnAddressesNext, PTL DEF Spec

-----------------------------------------------------------------------------
(***************************************************************************)
(* An instruction disturbs no global but the one it names: for every hash  *)
(* function, however keys collide and whenever the table is rehashed.      *)
(***************************************************************************)
LEMMA GlobalsNext ==
  ASSUME TypeOK, Next, NEW k \in Keys, Binding(globals', k) # Binding(globals, k)
  PROVE  Names(k) /\ status' # "error"
<1>1. globals' # globals
  OBVIOUS
<1>2. DefineGlobal \/ SetGlobal
  BY <1>1 DEF Next, Stopped, vars, Tick, Constant, Constant16, NoSuchName, GetGlobal,
    UndefinedGlobal, GetLocal, SetLocal, Unary, Binary, Literal, Pop, Jump,
    JumpIfFalse, Call, Return, UnknownOpcode, RunPastCode, NoFrame
<1>3. /\ Executes({OP_DEFINE_GLOBAL, OP_SET_GLOBAL}) /\ HasName /\ Advance(2)
      /\ globals' = TablePut(globals, Name, StackPeek(stack))
  BY <1>2 DEF DefineGlobal, SetGlobal, Executes
<1>4. frames # <<>> /\ InCode /\ Op \in OneByteOperand
  BY <1>3 DEF Executes, OneByteOperand
<1>5. Name \in Keys
  <2>1. Operand \in Byte
    BY <1>4, Operands
  <2> QED
    BY <1>3, <1>4, <2>1, Fetched DEF HasName, Name, Byte, Functions
<1>6. k = Name
  <2>1. IsTable(globals, StackValues)
    BY DEF TypeOK
  <2> QED
    BY <1>3, <1>5, <2>1, TablePutKeeps DEF Binding
<1>7. status' # "error"
  BY <1>3 DEF Advance
<1> QED
  BY <1>3, <1>6, <1>7 DEF Names

\* Whatever the code, an instruction changes the binding of no global but its own.
THEOREM GlobalsIsolation == Spec => GlobalsIsolated
<1>1. TypeOK /\ [Next]_vars
        => [\A k \in Keys : Binding(globals', k) # Binding(globals, k)
                               => Names(k) /\ status' # "error"]_vars
  BY GlobalsNext
<1> QED
  BY <1>1, TypeInvariant, PTL DEF Spec, GlobalsIsolated
=============================================================================
