---------------------------- MODULE UucValueOps -----------------------------
(***************************************************************************)
(* Values of the language and the operations the interpreter applies to    *)
(* them.  A double and a string carry no payload: the interpreter branches *)
(* on their type only, except that a zero double cannot divide, that       *)
(* doubles compare either way and that the truth of a double depends on    *)
(* half of its bits.  Those outcomes are left open, so an operation yields *)
(* the SET of its possible results.                                        *)
(***************************************************************************)
EXTENDS Integers, UucOpcodes

CONSTANTS WordMod,      \* 2^32: the width of int and of uint32_t (smaller in a run)
          ExactBound    \* 2^53: a double holds every integer up to it (smaller in a run)

ASSUME WordModAssumption == WordMod \in Nat /\ WordMod > 1
ASSUME ExactAssumption == ExactBound \in Nat

NullVal   == [type |-> "null"]
DoubleVal == [type |-> "double"]
StringVal == [type |-> "string"]
IntVal(n) == [type |-> "int", int |-> n]
BoolVal(b) == [type |-> "bool", bool |-> b]
FunVal(f) == [type |-> "function", fn |-> f]

(***************************************************************************)
(* What is in memory nobody wrote to: a value of any type, of none, or a   *)
(* pointer to no object.  It is not made out before it is used, and may be *)
(* made out differently each time.                                         *)
(***************************************************************************)
Anything == [type |-> "anything"]

\* Results that are no values: *r = UUC_RUNTIME_ERROR, and an access to memory that
\* is not the program's.
Fail == [type |-> "fail"]
Wild == [type |-> "wild"]

\* The values of a program whose callable functions are F.
ValuesOver(F) ==
  [type: {"null", "double", "string"}] \cup [type: {"int"}, int: Int]
    \cup [type: {"bool"}, bool: BOOLEAN] \cup [type: {"function"}, fn: F]

IsNull(v)    == v.type = "null"
MayBeNull(v) == v.type \in {"null", "anything"}
IsNumber(v) == v.type \in {"int", "double"}

\* A long stored into an int keeps its low 32 bits.
ToInt(n) == ((n + WordMod \div 2) % WordMod) - WordMod \div 2

\* uint32_t arithmetic on stack indices
Wrap(n) == n % WordMod

\* C division rounds towards zero.
Abs(n) == IF n < 0 THEN -n ELSE n
Quotient(m, n) == LET q == Abs(m) \div Abs(n)
                  IN  IF (m < 0) = (n < 0) THEN q ELSE -q

ArithmeticInt(op, m, n) ==
  IF op = OP_ADD THEN m + n
  ELSE IF op = OP_SUBSTRACT THEN m - n
  ELSE IF op = OP_MULTIPLY THEN m * n
  ELSE Quotient(m, n)

(***************************************************************************)
(* Two ints are added, subtracted and multiplied as doubles.  The result   *)
(* is their own as long as every number involved is one that a double      *)
(* holds, and may be any int if not.  Division is that of long.            *)
(***************************************************************************)
Exact(n) == n \in -ExactBound .. ExactBound

IntResults(op, m, n) ==
  LET r == ArithmeticInt(op, m, n)
  IN  IF op = OP_DIVIDE \/ (Exact(m) /\ Exact(n) /\ Exact(r)) THEN {IntVal(r)}
      ELSE [type: {"int"}, int: Int]

\* uuc_op_add, uuc_op_substract, uuc_op_multiply and uuc_op_divide
ArithmeticResults(op, a, b) ==
  IF op = OP_ADD /\ a.type = "string" /\ b.type = "string" THEN {StringVal}
  ELSE IF ~ (IsNumber(a) /\ IsNumber(b)) THEN {Fail}
  ELSE IF op = OP_DIVIDE /\ b.type = "double" THEN {Fail, DoubleVal}
  ELSE IF op = OP_DIVIDE /\ b.int = 0 THEN {Fail}
  ELSE IF a.type = "int" /\ b.type = "int" THEN IntResults(op, a.int, b.int)
  ELSE {DoubleVal}

CompareInt(op, m, n) ==
  \/ op = OP_EQ  /\ m = n
  \/ op = OP_NE  /\ m # n
  \/ op = OP_GT  /\ m > n
  \/ op = OP_GTE /\ m >= n
  \/ op = OP_LT  /\ m < n
  \/ op = OP_LTE /\ m <= n

AsInt(b) == IF b THEN 1 ELSE 0

\* uuc_compare_eq, ..., uuc_compare_lte
ComparisonResults(op, a, b) ==
  IF a.type = "int" /\ b.type = "int" THEN {BoolVal(CompareInt(op, a.int, b.int))}
  ELSE IF IsNumber(a) /\ IsNumber(b) THEN {BoolVal(TRUE), BoolVal(FALSE)}
  ELSE IF a.type = "bool" /\ b.type = "bool"
       THEN {BoolVal(CompareInt(op, AsInt(a.bool), AsInt(b.bool)))}
  ELSE {Fail}

(***************************************************************************)
(* With an operand that is Anything: OP_ADD looks into what it takes for   *)
(* an object, and the report of an error looks the name of the type up in  *)
(* an array of the five types there are.                                   *)
(***************************************************************************)
UnknownResults(op) ==
  {Fail, Wild} \cup (IF op \in Arithmetic THEN {Anything} ELSE {BoolVal(b) : b \in BOOLEAN})

BinaryResults(op, a, b) ==
  IF Anything \in {a, b} THEN UnknownResults(op)
  ELSE IF op \in Arithmetic THEN ArithmeticResults(op, a, b)
  ELSE ComparisonResults(op, a, b)

\* OP_NOT and OP_NEGATE; null is an error like any other type that does not fit.
UnaryResults(op, v) ==
  IF op = OP_NOT
    THEN IF v.type = "bool" THEN {BoolVal(~ v.bool)}
         ELSE IF v.type = "anything" THEN {Fail} \cup {BoolVal(b) : b \in BOOLEAN}
         ELSE {Fail}
    ELSE IF v.type = "int" THEN {IntVal(ToInt(-v.int))}
         ELSE IF v.type = "anything" THEN {Fail, Anything}
         ELSE {Fail}

\* What OP_JUMP_IF_FALSE may take v for, and whether v may be of a type that
\* cannot be cast to boolean.
Truths(v) ==
  IF v.type = "bool" THEN {v.bool}
  ELSE IF v.type = "int" THEN {ToInt(v.int) # 0}
  ELSE IF v.type \in {"double", "anything"} THEN BOOLEAN
  ELSE {}

MayNotCast(v) == v.type \notin {"bool", "int", "double"}
=============================================================================
