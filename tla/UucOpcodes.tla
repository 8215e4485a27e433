----------------------------- MODULE UucOpcodes -----------------------------
(***************************************************************************)
(* The instruction set of the uuc virtual machine: the values of the enum  *)
(* OpCode, and how many bytes of a Slice each instruction occupies.        *)
(***************************************************************************)
EXTENDS Naturals

OP_CONSTANT      == 0
OP_CONSTANT_16   == 1
OP_DEFINE_GLOBAL == 2
OP_GET_GLOBAL    == 3
OP_SET_GLOBAL    == 4
OP_GET_LOCAL     == 5
OP_SET_LOCAL     == 6
OP_TRUE          == 7
OP_FALSE         == 8
OP_NULL          == 9
OP_NEGATE        == 10
OP_NOT           == 11
OP_ADD           == 12
OP_SUBSTRACT     == 13
OP_MULTIPLY      == 14
OP_DIVIDE        == 15
OP_EQ            == 16
OP_NE            == 17
OP_GT            == 18
OP_GTE           == 19
OP_LT            == 20
OP_LTE           == 21
OP_JUMP          == 22
OP_JUMP_BACK     == 23
OP_JUMP_IF_FALSE == 24
OP_CALL          == 25
OP_RETURN        == 26
OP_POP           == 27

Literals   == OP_TRUE .. OP_NULL
Arithmetic == OP_ADD .. OP_DIVIDE
Comparison == OP_EQ .. OP_LTE
BinaryOps  == Arithmetic \cup Comparison
Jumps      == {OP_JUMP, OP_JUMP_BACK}
GlobalOps  == {OP_DEFINE_GLOBAL, OP_GET_GLOBAL, OP_SET_GLOBAL}

(***************************************************************************)
(* Instructions the interpreter reads operand bytes of.  OP_CONSTANT_16 is *)
(* absent: the compiler emits two index bytes after it, and the            *)
(* interpreter reads neither.                                              *)
(***************************************************************************)
OneByteOperand == {OP_CONSTANT, OP_DEFINE_GLOBAL, OP_GET_GLOBAL, OP_SET_GLOBAL,
                   OP_GET_LOCAL, OP_SET_LOCAL, OP_CALL}
TwoByteOperand == Jumps \cup {OP_JUMP_IF_FALSE}

Width(op) == IF op \in OneByteOperand THEN 2
             ELSE IF op \in TwoByteOperand THEN 3 ELSE 1
=============================================================================
