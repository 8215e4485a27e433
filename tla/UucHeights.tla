----------------------------- MODULE UucHeights -----------------------------
(***************************************************************************)
(* How high the operand stack is along the paths of a function's code.  A  *)
(* stack map gives every instruction a path can reach the number of slots  *)
(* its function has on the stack when it is about to run.  Neither the     *)
(* compiler nor the machine writes or checks one; a map that fits is what  *)
(* the code emitted for a function has to admit if the machine is to run   *)
(* it as the source reads.                                                 *)
(***************************************************************************)
EXTENDS Integers, Sequences, UucOpcodes

CONSTANT MaxHeight   \* no function has more slots than this

\* How many slots an instruction takes off the stack, and puts back on it.
Takes(op, operand) ==
  IF op \in BinaryOps THEN 2
  ELSE IF op = OP_CALL THEN operand + 1
  ELSE IF op \in {OP_DEFINE_GLOBAL, OP_SET_GLOBAL, OP_SET_LOCAL, OP_NOT, OP_NEGATE,
                  OP_JUMP_IF_FALSE, OP_RETURN, OP_POP} THEN 1
  ELSE 0

Puts(op) ==
  IF op \in BinaryOps \cup Literals \cup
            {OP_CONSTANT, OP_GET_GLOBAL, OP_GET_LOCAL, OP_NOT, OP_NEGATE, OP_CALL}
    THEN 1 ELSE 0

\* Where control may go next, the callee of an OP_CALL left aside.
Successors(code, ii) ==
  LET op    == code[ii + 1]
      width == Width(op)
      jump  == 256 * code[ii + 2] + code[ii + 3]
  IN  IF op = OP_RETURN THEN {}
      ELSE IF op = OP_JUMP THEN {ii + 3 + jump}
      ELSE IF op = OP_JUMP_BACK THEN {ii + 3 - jump}
      ELSE IF op = OP_JUMP_IF_FALSE THEN {ii + 3, ii + 3 + jump}
      ELSE {ii + width}

(***************************************************************************)
(* The instruction at ii of function f has its operands, refers to         *)
(* constants, names and slots that exist, and leaves every successor the   *)
(* height the map H gives it.  Only main may run off its end, at Len(code),*)
(* and not out of a call.  A reachable OP_RETURN is not the last byte of   *)
(* its function, and not in main: the machine tests for the end of main on *)
(* the frame that returned.                                                *)
(***************************************************************************)
InstructionFits(f, fun, H, ii) ==
  LET op      == fun.code[ii + 1]
      operand == IF op \in OneByteOperand THEN fun.code[ii + 2] ELSE 0
  IN  /\ op \in (OP_CONSTANT .. OP_POP) \ {OP_CONSTANT_16}
      /\ ii + Width(op) <= Len(fun.code)
      /\ Takes(op, operand) <= H[ii]
      /\ op = OP_CONSTANT => operand < Len(fun.constants)
      /\ op \in GlobalOps => operand < Len(fun.names)
      /\ op = OP_GET_LOCAL => operand < H[ii]
      /\ op = OP_SET_LOCAL => operand < H[ii] - 1
      /\ op = OP_CALL => ii + 2 < Len(fun.code)
      /\ op = OP_RETURN => f # "main" /\ ii + 1 < Len(fun.code)
      /\ \A next \in Successors(fun.code, ii) :
           /\ next \in DOMAIN H
           /\ H[next] = H[ii] - Takes(op, operand) + Puts(op)

FunctionFits(f, fun, H) ==
  /\ DOMAIN H \subseteq 0 .. (IF f = "main" THEN Len(fun.code) ELSE Len(fun.code) - 1)
  /\ H = [ii \in DOMAIN H |-> H[ii]]
  /\ \A ii \in DOMAIN H : H[ii] \in 0 .. MaxHeight
  /\ fun.code # <<>>
  /\ 0 \in DOMAIN H /\ H[0] = fun.arity
  /\ \A ii \in DOMAIN H \ {Len(fun.code)} : InstructionFits(f, fun, H, ii)

-----------------------------------------------------------------------------
(***************************************************************************)
(* The map of a function that has one: start with the first instruction    *)
(* and follow the successors of what is known so far.                      *)
(***************************************************************************)
Effect(fun, ii) ==
  LET op == fun.code[ii + 1]
  IN  Puts(op) - Takes(op, IF op = OP_CALL THEN fun.code[ii + 2] ELSE 0)

\* known is the map so far, and new the instructions it got last.
Follow(fun, known, new) ==
  LET more == UNION {Successors(fun.code, ii) : ii \in new} \ DOMAIN known
      Reached(ii) ==
        LET from == CHOOSE j \in new : ii \in Successors(fun.code, j)
        IN  known[from] + Effect(fun, from)
  IN  [known |-> [ii \in DOMAIN known \cup more |->
                    IF ii \in DOMAIN known THEN known[ii] ELSE Reached(ii)],
       new   |-> {ii \in more : ii < Len(fun.code)}]

StackMap(fun) ==
  LET first == [ii \in {0} |-> fun.arity]
      after[n \in Nat] ==
        IF n = 0 THEN [known |-> first, new |-> DOMAIN first \ {Len(fun.code)}]
        ELSE LET last == after[n - 1]
             IN  IF last.new = {} THEN last ELSE Follow(fun, last.known, last.new)
  IN  after[Len(fun.code)].known
=============================================================================
