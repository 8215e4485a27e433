---------------------------- MODULE UucSNotation ----------------------------
(***************************************************************************)
(* slice_s_notation, by which the tests look at an expression's code: it   *)
(* turns postfix into prefix.  A text is the sequence of its words.  A     *)
(* note is where the loop over the bytes is and its stack of texts, where  *)
(* an entry at or above size keeps what was there.  It is astray once an   *)
(* entry below the first one, a byte behind the code or something that is  *)
(* not a string was read; C says nothing then.                             *)
(***************************************************************************)
EXTENDS Integers, Sequences, UucOpcodes

Garbage == <<"garbage">>    \* what malloc left in an entry that was not written

Blank == [at |-> 0, stack |-> <<>>, size |-> 0, astray |-> FALSE]
Astray(note) == [note EXCEPT !.astray = TRUE]

\* Entry i, from 0.
Entry(note, i) == IF i \in 0 .. Len(note.stack) - 1 THEN note.stack[i + 1] ELSE Garbage

\* Past the n bytes of an instruction, with words in place of the top k entries.
Put(note, n, k, words) ==
  LET to == note.size - k
  IN  IF to < 0 THEN Astray(note)
      ELSE [note EXCEPT !.at = @ + n, !.size = to + 1,
              !.stack = SubSeq(@, 1, to) \o <<words>> \o SubSeq(@, to + 2, Len(@))]

\* opcode_op_char
OpChar(op) ==
  CASE op = OP_SET_GLOBAL -> "=" [] op = OP_ADD -> "+" [] op \in {OP_SUBSTRACT, OP_NEGATE} -> "-"
    [] op = OP_MULTIPLY -> "*" [] op = OP_DIVIDE -> "/" [] op = OP_NOT -> "!"
    [] op = OP_EQ -> "==" [] op = OP_NE -> "!=" [] op = OP_GT -> ">" [] op = OP_GTE -> ">="
    [] op = OP_LT -> "<" [] op = OP_LTE -> "<=" [] OTHER -> "e"

Bracketed(words) == <<"(">> \o words \o <<")">>

\* A null constant leaves the entry as it is; a function is taken for a string.
ConstantNote(note, c) ==
  IF c.type = "null" THEN Put(note, 2, 0, Entry(note, note.size))
  ELSE IF c.type = "function" THEN Astray(note)
  ELSE Put(note, 2, 0, <<c.token>>)

\* Mutant of BinaryNote: the operands in the order they are popped.
BinaryNoteAsPopped(note, op) ==
  Put(note, 1, 2, Bracketed(<<OpChar(op)>> \o Entry(note, note.size - 1) \o Entry(note, note.size - 2)))

BinaryNote(note, op) ==
  Put(note, 1, 2, Bracketed(<<OpChar(op)>> \o Entry(note, note.size - 2) \o Entry(note, note.size - 1)))

\* OP_DEFINE_GLOBAL, OP_SET_GLOBAL and the unary operators
AroundTop(note, n, words) ==
  Put(note, n, 1, Bracketed(words \o Entry(note, note.size - 1)))

LiteralNote(note, op) ==
  Put(note, 1, 0, <<CASE op = OP_TRUE -> "true" [] op = OP_FALSE -> "false" [] OTHER -> "null">>)

WithIndex == {OP_CONSTANT, OP_DEFINE_GLOBAL, OP_SET_GLOBAL, OP_GET_GLOBAL}

\* One round of the loop.  Behind an instruction it does not know, an operand is next.
Round(note, fun) ==
  LET op    == fun.code[note.at + 1]
      index == fun.code[note.at + 2] + 1
      found == IF op = OP_CONSTANT THEN fun.constants ELSE fun.names
  IN  CASE op \in WithIndex /\ (note.at + 1 = Len(fun.code) \/ index > Len(found)) -> Astray(note)
        [] op = OP_CONSTANT          -> ConstantNote(note, fun.constants[index])
        [] op = OP_GET_GLOBAL        -> Put(note, 2, 0, <<fun.names[index]>>)
        [] op = OP_DEFINE_GLOBAL     -> AroundTop(note, 2, <<"var", fun.names[index]>>)
        [] op = OP_SET_GLOBAL        -> AroundTop(note, 2, <<"=", fun.names[index]>>)
        [] op \in Literals           -> LiteralNote(note, op)
        [] op \in BinaryOps          -> BinaryNote(note, op)
        [] op \in {OP_NEGATE, OP_NOT} -> AroundTop(note, 1, <<OpChar(op)>>)
        [] OTHER                     -> [note EXCEPT !.at = @ + 1]

\* What slice_s_notation puts into buf: a round takes a byte at least.
SNotation(fun) ==
  LET After[n \in 0 .. Len(fun.code)] ==
        IF n = 0 THEN Blank
        ELSE LET note == After[n - 1]
             IN  IF note.astray \/ note.at >= Len(fun.code) THEN note ELSE Round(note, fun)
      last == After[Len(fun.code)]
  IN  IF last.astray THEN Garbage ELSE Entry(last, 0)
=============================================================================
