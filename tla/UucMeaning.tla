----------------------------- MODULE UucMeaning -----------------------------
(***************************************************************************)
(* Programs as trees: the text of one, by the rules of EBNF.ebnf, and what *)
(* it means, by going through the tree.  There is no stack here, no slot,  *)
(* no jump and no precedence: a block has the variables declared in it, a  *)
(* loop is its body over and over, a function call is the function's body. *)
(***************************************************************************)
EXTENDS Sequences, SequencesExt, UucLiterals

-----------------------------------------------------------------------------
(***************************************************************************)
(* Expressions.                                                            *)
(***************************************************************************)
Integer(token)   == [is |-> "integer", token |-> token]
Variable(name)   == [is |-> "variable", name |-> name]
Null             == [is |-> "null"]
Op(left, op, right) == [is |-> "operation", left |-> left, op |-> op, right |-> right]
CallOf(name, args)  == [is |-> "call", name |-> name, args |-> args]

(***************************************************************************)
(* Statements and declarations.  otherwise and init are empty or of one    *)
(* element.  The parts of a for are statements.                            *)
(***************************************************************************)
Assign(name, e) == [is |-> "assign", name |-> name, value |-> e]
Var(name, init) == [is |-> "var", name |-> name, init |-> init]
Block(body)     == [is |-> "block", body |-> body]
If(test, then, otherwise) == [is |-> "if", test |-> test, then |-> then, otherwise |-> otherwise]
While(test, body) == [is |-> "while", test |-> test, body |-> body]
For(init, test, step, body) ==
  [is |-> "for", init |-> init, test |-> test, step |-> step, body |-> body]
Leave(how)      == [is |-> how]                       \* "break" or "continue"
Return(e)       == [is |-> "return", value |-> e]
Function(name, params, body) == [is |-> "fn", name |-> name, params |-> params, body |-> body]

-----------------------------------------------------------------------------
(***************************************************************************)
(* The text.                                                               *)
(***************************************************************************)
Separated(texts) ==
  FlattenSeq([i \in DOMAIN texts |-> IF i = 1 THEN texts[i] ELSE <<",">> \o texts[i]])

RECURSIVE ExpressionText(_)
ExpressionText(e) ==
  LET Operand(o) == IF o.is = "operation" THEN <<"(">> \o ExpressionText(o) \o <<")">>
                    ELSE ExpressionText(o)
  IN  CASE e.is = "integer"   -> <<e.token>>
        [] e.is = "variable"  -> <<e.name>>
        [] e.is = "null"      -> <<"null">>
        [] e.is = "operation" -> Operand(e.left) \o <<e.op>> \o Operand(e.right)
        [] e.is = "call"      -> <<e.name, "(">>
             \o Separated([i \in DOMAIN e.args |-> ExpressionText(e.args[i])]) \o <<")">>

RECURSIVE StatementText(_)
StatementText(s) ==
  LET Some(seq, F(_)) == IF seq = <<>> THEN <<>> ELSE F(seq[1])
  IN  CASE s.is = "assign" -> <<s.name, "=">> \o ExpressionText(s.value) \o <<";">>
        [] s.is = "var"    -> <<"var", s.name>>
             \o Some(s.init, LAMBDA e : <<"=">> \o ExpressionText(e)) \o <<";">>
        [] s.is = "block"  ->
             <<"{">> \o FlattenSeq([i \in DOMAIN s.body |-> StatementText(s.body[i])]) \o <<"}">>
        [] s.is = "if"     -> <<"if", "(">> \o ExpressionText(s.test) \o <<")">>
             \o StatementText(s.then) \o Some(s.otherwise, LAMBDA t : <<"else">> \o StatementText(t))
        [] s.is = "while"  ->
             <<"while", "(">> \o ExpressionText(s.test) \o <<")">> \o StatementText(s.body)
        [] s.is = "for"    -> <<"for", "(">> \o Some(s.init, StatementText)
             \o (IF s.init = <<>> THEN <<";">> ELSE <<>>)
             \o Some(s.test, ExpressionText) \o <<";">>
             \o Some(s.step, LAMBDA t : Front(StatementText(t))) \o <<")">> \o StatementText(s.body)
        [] s.is = "return" -> <<"return">> \o ExpressionText(s.value) \o <<";">>
        [] s.is = "fn"     -> <<"fn", s.name, "(">>
             \o Separated([i \in DOMAIN s.params |-> <<s.params[i]>>]) \o <<")">>
             \o StatementText(s.body)
        [] OTHER           -> <<s.is, ";">>

TextOf(tree) == FlattenSeq([i \in DOMAIN tree |-> StatementText(tree[i])])

-----------------------------------------------------------------------------
(***************************************************************************)
(* The meaning.  A world has the globals, the variables of the blocks we   *)
(* are in (the innermost last), what the last expression came to, and how  *)
(* things go on: "next", "break", "continue", "return" or "error".         *)
(***************************************************************************)
Nothing == [n \in {} |-> NullVal]

Fresh == [globals |-> Nothing, locals |-> <<>>, scoped |-> FALSE, value |-> NullVal, go |-> "next"]

Yield(v, w) == [w EXCEPT !.value = v]
Wrong(w)    == [w EXCEPT !.go = "error"]

Innermost(name, w) ==
  LET there == {i \in DOMAIN w.locals : w.locals[i].name = name}
  IN  IF there = {} THEN 0 ELSE CHOOSE i \in there : \A j \in there : j <= i

Look(name, w) ==
  LET i == Innermost(name, w)
  IN  IF i > 0 THEN Yield(w.locals[i].value, w)
      ELSE IF name \in DOMAIN w.globals THEN Yield(w.globals[name], w)
      ELSE Wrong(w)

SetGlobal(name, w) ==
  [w EXCEPT !.globals = [n \in DOMAIN @ \cup {name} |-> IF n = name THEN w.value ELSE @[n]]]

Store(name, w) ==
  LET i == Innermost(name, w)
  IN  IF i > 0 THEN [w EXCEPT !.locals[i].value = w.value]
      ELSE IF name \in DOMAIN w.globals THEN SetGlobal(name, w)
      ELSE Wrong(w)

Declare(name, w) ==
  IF w.scoped THEN [w EXCEPT !.locals = Append(@, [name |-> name, value |-> w.value])]
  ELSE SetGlobal(name, w)

\* What is declared from before to w is gone.
LeaveScope(before, w) ==
  [w EXCEPT !.locals = SubSeq(@, 1, Len(before.locals)), !.scoped = before.scoped]

OfIntegers(op, m, n) ==
  CASE op = "+" -> IntVal(m + n)
    [] op = "-" -> IntVal(m - n)
    [] op = "*" -> IntVal(m * n)
    [] op = "<" -> BoolVal(m < n)
    [] op = ">" -> BoolVal(m > n)
    [] op = "==" -> BoolVal(m = n)

Operate(op, a, b, w) ==
  IF a.type = "int" /\ b.type = "int" THEN Yield(OfIntegers(op, a.int, b.int), w)
  ELSE IF a.type = "bool" /\ b.type = "bool" /\ op \in {"<", ">", "=="}
    THEN Yield(OfIntegers(op, AsInt(a.bool), AsInt(b.bool)), w)
  ELSE Wrong(w)

IsTrue(v) == IF v.type = "bool" THEN v.bool ELSE v.int # 0
HasTruth(v) == v.type \in {"bool", "int"}

RECURSIVE Evaluate(_, _), EvaluateAll(_, _), Execute(_, _), ExecuteAll(_, _), Repeat(_, _)

\* The values of a list of expressions, as value.
EvaluateAll(es, w) ==
  IF es = <<>> THEN Yield(<<>>, w)
  ELSE LET first == Evaluate(Head(es), w)
           rest  == EvaluateAll(Tail(es), first)
       IN  IF first.go = "error" THEN first
           ELSE IF rest.go = "error" THEN rest
           ELSE Yield(<<first.value>> \o rest.value, rest)

\* A function sees the globals and its parameters.
Apply(callee, args, w) ==
  LET entered == [w EXCEPT !.scoped = TRUE,
                     !.locals = [i \in DOMAIN args |-> [name |-> callee.params[i], value |-> args[i]]]]
      left    == Execute(callee.body, entered)
  IN  IF left.go = "error" THEN left
      ELSE [left EXCEPT !.locals = w.locals, !.scoped = w.scoped, !.go = "next",
                        !.value = IF left.go = "return" THEN @ ELSE NullVal]

Evaluate(e, w) ==
  CASE e.is = "integer"  -> Yield(IntVal(IntegerValue[e.token]), w)
    [] e.is = "null"     -> Yield(NullVal, w)
    [] e.is = "variable" -> Look(e.name, w)
    [] e.is = "operation" ->
         LET both == EvaluateAll(<<e.left, e.right>>, w)
         IN  IF both.go = "error" THEN both ELSE Operate(e.op, both.value[1], both.value[2], both)
    [] e.is = "call" ->
         LET args   == EvaluateAll(e.args, w)
             callee == Look(e.name, args)
         IN  IF args.go = "error" THEN args
             ELSE IF callee.go = "error" \/ callee.value.type # "function" THEN Wrong(args)
             ELSE Apply(callee.value, args.value, args)

ExecuteAll(ss, w) ==
  IF ss = <<>> THEN w
  ELSE LET first == Execute(Head(ss), w)
       IN  IF first.go = "next" THEN ExecuteAll(Tail(ss), first) ELSE first

\* A loop from its test on; a while is a for without a step.
Repeat(s, w) ==
  LET tested == IF s.test = <<>> THEN Yield(BoolVal(TRUE), w) ELSE Evaluate(s.test[1], w)
      ran    == Execute(s.body, tested)
      again  == ExecuteAll(s.step, [ran EXCEPT !.go = "next"])
  IN  IF tested.go = "error" THEN tested
      ELSE IF ~ HasTruth(tested.value) THEN Wrong(tested)
      ELSE IF ~ IsTrue(tested.value) THEN tested
      ELSE IF ran.go = "break" THEN [ran EXCEPT !.go = "next"]
      ELSE IF ran.go \in {"return", "error"} THEN ran
      ELSE IF again.go = "error" THEN again
      ELSE Repeat(s, again)

\* With the value of e, if there is one, go on with F.
With(e, w, F(_)) ==
  LET v == Evaluate(e, w)
  IN  IF v.go = "error" THEN v ELSE F(v)

Execute(s, w) ==
  CASE s.is = "assign" -> With(s.value, w, LAMBDA v : Store(s.name, v))
    [] s.is = "var"    ->
         IF s.init = <<>> THEN Declare(s.name, Yield(NullVal, w))
         ELSE With(s.init[1], w, LAMBDA v : Declare(s.name, v))
    [] s.is = "block"  -> LeaveScope(w, ExecuteAll(s.body, [w EXCEPT !.scoped = TRUE]))
    [] s.is = "if"     ->
         With(s.test, w, LAMBDA v :
           IF ~ HasTruth(v.value) THEN Wrong(v)
           ELSE ExecuteAll(IF IsTrue(v.value) THEN <<s.then>> ELSE s.otherwise, v))
    [] s.is = "while"  -> Repeat([test |-> <<s.test>>, step |-> <<>>, body |-> s.body], w)
    [] s.is = "for"    ->
         LET begun == ExecuteAll(s.init, [w EXCEPT !.scoped = TRUE])
         IN  IF begun.go = "error" THEN begun ELSE LeaveScope(w, Repeat(s, begun))
    [] s.is = "return" -> With(s.value, w, LAMBDA v : [v EXCEPT !.go = "return"])
    [] s.is = "fn"     ->
         Declare(s.name, Yield([type |-> "function", params |-> s.params, body |-> s.body], w))
    [] OTHER           -> [w EXCEPT !.go = s.is]

Meaning(tree) == ExecuteAll(tree, Fresh)
=============================================================================
