------------------------------- MODULE UucVM --------------------------------
(***************************************************************************)
(* The uuc virtual machine: uuc_vm_init, and one action per group of       *)
(* instructions of vm_tick, which uuc_vm_run calls until it reports other  *)
(* than UUC_OK.                                                            *)
(*                                                                         *)
(* A program is given by its functions, "main" among them.  A frame's ii   *)
(* stands for the pair ip, ii, which move together.  status is             *)
(*   "ok"     vm_tick is called again          (UUC_OK)                    *)
(*   "end"    the program ended                (UUC_OK_END)                *)
(*   "error"  a runtime error was reported     (UUC_RUNTIME_ERROR)         *)
(*   "exit"   an index check called exit(1)                                *)
(*   "wild"   the machine read or wrote outside its arrays, or where a     *)
(*            pointer never written led it, after which C says nothing;    *)
(*            the model follows it no further.                             *)
(***************************************************************************)
EXTENDS Sequences, SequencesExt, UucOpcodes, UucStack, UucValTable

CONSTANTS Programs,       \* the compiled programs: name -> function name -> code
          MaxCallFrames,  \* MAX_CALL_FRAMES, 225
          InitCapacity,   \* 16: the capacity uuc_vm_init gives the table
          StackCapacity   \* 32: the capacity it gives the stack (smaller in a run)

VARIABLES prog,     \* the program that runs
          stack,    \* value_stack
          frames,   \* call_frames[0 .. frames_size - 1]
          globals,  \* global_table
          status

vars == <<prog, stack, frames, globals, status>>

Byte   == 0 .. 255
Values == ValuesOver(UNION {DOMAIN Programs[p] : p \in DOMAIN Programs})

Functions == [arity: Byte, code: Seq(Byte), constants: Seq(Values), names: Seq(Keys)]

ASSUME ProgramsAssumption ==
  /\ \A p \in DOMAIN Programs :
       /\ "main" \in DOMAIN Programs[p]
       /\ Programs[p]["main"].arity = 0
       /\ \A f \in DOMAIN Programs[p] :
            /\ Programs[p][f] \in Functions
            /\ \A i \in DOMAIN Programs[p][f].constants :
                 LET c == Programs[p][f].constants[i]
                 IN  c.type = "function" => c.fn \in DOMAIN Programs[p] \ {"main"}
  /\ MaxCallFrames \in Nat \ {0}
  /\ InitCapacity \in Nat \ {0}
  /\ StackCapacity \in Nat \ {0}

-----------------------------------------------------------------------------
(***************************************************************************)
(* What a step of vm_tick reads first.                                     *)
(***************************************************************************)
Top  == frames[Len(frames)]
Fn   == Programs[prog][Top.fn]
Code == Fn.code
Op   == Code[Top.ii + 1]
Operand   == Code[Top.ii + 2]
Operand16 == 256 * Code[Top.ii + 2] + Code[Top.ii + 3]

\* The instruction at ii lies within the code, operands included.
InCode == /\ Top.ii \in 0 .. Len(Code) - 1
          /\ Top.ii + Width(Op) <= Len(Code)

Executes(ops) == status = "ok" /\ frames # <<>> /\ InCode /\ Op \in ops

\* Mutant of PastEnd: the last byte taken for the end.
AtLastByte(ii) == ii < 0 \/ ii >= Len(Code) - 1

\* ii >= bytecode.size, where ii is unsigned.
PastEnd(ii) == ii < 0 \/ ii >= Len(Code)

\* Mutant of Advance: main's frame is advanced, whichever executes.
AdvanceMain(n) ==
  /\ frames' = [frames EXCEPT ![1].ii = @ + n]
  /\ status' = IF Len(frames) = 1 /\ PastEnd(Top.ii + n) THEN "end" ELSE "ok"

\* Move the executing frame by n bytes; main ends past its last byte.
Advance(n) ==
  /\ frames' = [frames EXCEPT ![Len(frames)].ii = @ + n]
  /\ status' = IF Len(frames) = 1 /\ PastEnd(Top.ii + n) THEN "end" ELSE "ok"

\* Stop.  Where a stopped machine's ip points is never looked at.
Halt(reason) == status' = reason /\ UNCHANGED frames

-----------------------------------------------------------------------------
Constant ==
  /\ Executes({OP_CONSTANT})
  /\ IF Operand < Len(Fn.constants)
       THEN stack' = StackPush(stack, Fn.constants[Operand + 1]) /\ Advance(2)
       ELSE UNCHANGED stack /\ Halt("exit")
  /\ UNCHANGED <<prog, globals>>

\* The index is always 0 and the two index bytes are left to be executed.
Constant16 ==
  /\ Executes({OP_CONSTANT_16})
  /\ IF Fn.constants # <<>>
       THEN stack' = StackPush(stack, Fn.constants[1]) /\ Advance(1)
       ELSE UNCHANGED stack /\ Halt("exit")
  /\ UNCHANGED <<prog, globals>>

\* The name a global instruction is about, read with a checked list_get.
HasName == Operand < Len(Fn.names)
Name    == Fn.names[Operand + 1]

NoSuchName ==
  /\ Executes(GlobalOps)
  /\ ~ HasName
  /\ Halt("exit")
  /\ UNCHANGED <<prog, stack, globals>>

DefineGlobal ==
  /\ Executes({OP_DEFINE_GLOBAL})
  /\ HasName
  /\ globals' = TablePut(globals, Name, StackPeek(stack))
  /\ stack' = StackDrop(stack)
  /\ Advance(2)
  /\ UNCHANGED prog

GetGlobal ==
  /\ Executes({OP_GET_GLOBAL})
  /\ HasName
  /\ TableHas(globals, Name)
  /\ stack' = StackPush(stack, TableFetch(globals, Name))
  /\ Advance(2)
  /\ UNCHANGED <<prog, globals>>

SetGlobal ==
  /\ Executes({OP_SET_GLOBAL})
  /\ HasName
  /\ TableHas(globals, Name)
  /\ globals' = TablePut(globals, Name, StackPeek(stack))
  /\ stack' = StackDrop(stack)
  /\ Advance(2)
  /\ UNCHANGED prog

UndefinedGlobal ==
  /\ Executes({OP_GET_GLOBAL, OP_SET_GLOBAL})
  /\ HasName
  /\ ~ TableHas(globals, Name)
  /\ Halt("error")
  /\ UNCHANGED <<prog, stack, globals>>

-----------------------------------------------------------------------------
\* Mutant of LocalSlot: the slot counted from the bottom of the stack.
SlotFromBottom == Wrap(Operand)

\* stack_offset + index, in uint32_t
LocalSlot == Wrap(Top.offset + Operand)

\* head has no slot behind those that were written: its capacity was doubled until
\* they fitted, and they fill it.
Full == \E k \in 0 .. 26 : 2 ^ k <= Len(stack.mem) /\ Len(stack.mem) = StackCapacity * 2 ^ k

(***************************************************************************)
(* stack_get admits index = size, the slot past the top, which may never   *)
(* have been written and may not even be a slot of head.                   *)
(***************************************************************************)
GetLocal ==
  /\ Executes({OP_GET_LOCAL})
  /\ IF LocalSlot > stack.size THEN UNCHANGED stack /\ Halt("exit")
     ELSE IF LocalSlot < Len(stack.mem)
       THEN stack' = StackPush(stack, stack.mem[LocalSlot + 1]) /\ Advance(2)
     ELSE IF Full THEN UNCHANGED stack /\ Halt("wild")
     ELSE stack' = StackPush(stack, Anything) /\ Advance(2)
  /\ UNCHANGED <<prog, globals>>

\* stack_set checks the index after the value was popped.
SetLocal ==
  /\ Executes({OP_SET_LOCAL})
  /\ LET s == StackDrop(stack)
     IN  IF LocalSlot > s.size
           THEN stack' = s /\ Halt("exit")
           ELSE stack' = StackSet(s, LocalSlot, StackPeek(stack)) /\ Advance(2)
  /\ UNCHANGED <<prog, globals>>

-----------------------------------------------------------------------------
Unary ==
  /\ Executes({OP_NOT, OP_NEGATE})
  /\ LET v == StackPeek(stack)
         s == StackDrop(stack)
     IN  \E r \in UnaryResults(Op, v) :
           IF r = Fail THEN stack' = s /\ Halt("error")
                       ELSE stack' = StackPush(s, r) /\ Advance(1)
  /\ UNCHANGED <<prog, globals>>

\* Operands are popped one at a time; a failed operation still pushes null.
Binary ==
  /\ Executes(BinaryOps)
  /\ LET b  == StackPeek(stack)
         s1 == StackDrop(stack)
         a  == StackPeek(s1)
         s2 == StackDrop(s1)
     IN  \/ MayBeNull(b) /\ stack' = s1 /\ Halt("error")
         \/ ~ IsNull(b) /\ MayBeNull(a) /\ stack' = s2 /\ Halt("error")
         \/ /\ ~ IsNull(b) /\ ~ IsNull(a)
            /\ \E r \in BinaryResults(Op, a, b) :
                 IF r = Fail THEN stack' = StackPush(s2, NullVal) /\ Halt("error")
                 ELSE IF r = Wild THEN stack' = s2 /\ Halt("wild")
                 ELSE stack' = StackPush(s2, r) /\ Advance(1)
  /\ UNCHANGED <<prog, globals>>

LiteralValue(op) == IF op = OP_NULL THEN NullVal ELSE BoolVal(op = OP_TRUE)

Literal ==
  /\ Executes(Literals)
  /\ stack' = StackPush(stack, LiteralValue(Op))
  /\ Advance(1)
  /\ UNCHANGED <<prog, globals>>

Pop ==
  /\ Executes({OP_POP})
  /\ stack' = StackDrop(stack)
  /\ Advance(1)
  /\ UNCHANGED <<prog, globals>>

-----------------------------------------------------------------------------
Jump ==
  /\ Executes(Jumps)
  /\ Advance(IF Op = OP_JUMP THEN 3 + Operand16 ELSE 3 - Operand16)
  /\ UNCHANGED <<prog, stack, globals>>

JumpIfFalse ==
  /\ Executes({OP_JUMP_IF_FALSE})
  /\ stack' = StackDrop(stack)
  /\ LET v == StackPeek(stack)
     IN  \/ \E taken \in Truths(v) : Advance(IF taken THEN 3 ELSE 3 + Operand16)
         \/ MayNotCast(v) /\ Halt("error")
         \/ v = Anything /\ Halt("wild")   \* looking up the name of no type
  /\ UNCHANGED <<prog, globals>>

\* Mutant of FrameOffset: the parameters are not the frame's.
OffsetAtTop(s, fun) == Wrap(s.size)

\* uuc_create_call_frame: a frame starts as many slots below the top as the
\* function has parameters, in uint32_t.
FrameOffset(s, fun) == Wrap(s.size - fun.arity)

(***************************************************************************)
(* The argument count of the instruction is read and not used.  What was   *)
(* never written may pass for an object that is not there.                 *)
(***************************************************************************)
Call ==
  /\ Executes({OP_CALL})
  /\ LET callee == StackPeek(stack)
         s      == StackDrop(stack)
     IN  /\ stack' = s
         /\ IF callee = Anything THEN Halt("error") \/ Halt("wild")
            ELSE IF callee.type # "function" THEN Halt("error")
            ELSE IF Len(frames) = MaxCallFrames THEN Halt("wild")
            ELSE /\ frames' = Append([frames EXCEPT ![Len(frames)].ii = @ + 2],
                                [fn |-> callee.fn, ii |-> 0,
                                 offset |-> FrameOffset(s, Programs[prog][callee.fn])])
                 /\ UNCHANGED status
  /\ UNCHANGED <<prog, globals>>

(***************************************************************************)
(* Return pops the value, as many further values as the function has slots *)
(* (counted in uint32_t), and the frame, and pushes the value.  The test   *)
(* for the end of main that follows looks at the frame that returned.      *)
(***************************************************************************)
Return ==
  /\ Executes({OP_RETURN})
  /\ LET s      == StackDrop(stack)
         locals == Wrap(s.size - Top.offset)
         left   == IF locals > s.size THEN 0 ELSE s.size - locals
     IN  stack' = StackPush([s EXCEPT !.size = left], StackPeek(stack))
  /\ frames' = Front(frames)
  /\ status' = IF Len(frames) = 2 /\ PastEnd(Top.ii + 1) THEN "end" ELSE "ok"
  /\ UNCHANGED <<prog, globals>>

UnknownOpcode ==
  /\ status = "ok" /\ frames # <<>> /\ InCode
  /\ Op \notin OP_CONSTANT .. OP_POP
  /\ Halt("error")
  /\ UNCHANGED <<prog, stack, globals>>

\* The next instruction, or an operand of it, is not in the function's code.
RunPastCode ==
  /\ status = "ok" /\ frames # <<>> /\ ~ InCode
  /\ Halt("wild")
  /\ UNCHANGED <<prog, stack, globals>>

\* main itself returned: vm_tick reads call_frames[-1].
NoFrame ==
  /\ status = "ok" /\ frames = <<>>
  /\ Halt("wild")
  /\ UNCHANGED <<prog, stack, globals>>

-----------------------------------------------------------------------------
Init ==
  /\ prog \in DOMAIN Programs
  /\ stack = EmptyStack
  /\ frames = <<[fn |-> "main", ii |-> 0, offset |-> 0]>>
  /\ globals = EmptyTable(InitCapacity)
  /\ status = "ok"

Tick ==
  \/ Constant \/ Constant16
  \/ NoSuchName \/ DefineGlobal \/ GetGlobal \/ SetGlobal \/ UndefinedGlobal
  \/ GetLocal \/ SetLocal
  \/ Unary \/ Binary \/ Literal \/ Pop
  \/ Jump \/ JumpIfFalse \/ Call \/ Return
  \/ UnknownOpcode \/ RunPastCode \/ NoFrame

\* uuc_vm_run returned, or the process is gone.
Stopped == status # "ok" /\ UNCHANGED vars

Next == Tick \/ Stopped

\* vm_tick is called in a loop by one thread that does nothing else.
Spec == Init /\ [][Next]_vars /\ WF_vars(Tick)

-----------------------------------------------------------------------------
ProgramValues == ValuesOver(DOMAIN Programs[prog] \ {"main"})
StackValues   == ProgramValues \cup {Anything}

(***************************************************************************)
(* Type invariant.  It says more than the types of the C variables: what   *)
(* is on the stack and in the table is a value the program made, a         *)
(* function among them one of this program other than main, or else comes  *)
(* from a slot that stack_get read before anything was stored in it; every *)
(* slot below size was stored in; and there are never more frames than     *)
(* call_frames has room for.                                               *)
(***************************************************************************)
TypeOK ==
  /\ prog \in DOMAIN Programs
  /\ IsStack(stack, StackValues)
  /\ frames \in Seq([fn: DOMAIN Programs[prog], ii: Int, offset: 0 .. WordMod - 1])
  /\ Len(frames) <= MaxCallFrames
  /\ IsTable(globals, StackValues)
  /\ status \in {"ok", "end", "error", "exit", "wild"}

(***************************************************************************)
(* Whatever code runs, a frame that waits for a callee resumes right after *)
(* an OP_CALL of its own function: OP_CALL stores the caller's position    *)
(* before the callee's frame covers it, and no later instruction of the    *)
(* callee moves it.                                                        *)
(***************************************************************************)
ReturnAddresses ==
  \A i \in 1 .. Len(frames) - 1 :
    LET code == Programs[prog][frames[i].fn].code
    IN  /\ frames[i].ii \in 2 .. Len(code)
        /\ code[frames[i].ii - 1] = OP_CALL

(***************************************************************************)
(* An instruction changes the binding of at most one global, the one it    *)
(* names, and none when it reports an error; the rehash that a put may     *)
(* start moves the entries of every other global and loses none.           *)
(***************************************************************************)
Binding(t, k) == IF Stored(t, k) THEN <<StoredAt(t, k)>> ELSE <<>>

Names(k) == Executes({OP_DEFINE_GLOBAL, OP_SET_GLOBAL}) /\ HasName /\ k = Name

GlobalsIsolated ==
  [][\A k \in Keys : Binding(globals', k) # Binding(globals, k)
                        => Names(k) /\ status' # "error"]_vars
=============================================================================
