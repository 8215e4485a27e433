---------------------------- MODULE MCUucProgram ----------------------------
(***************************************************************************)
(* Programs that end.  The global "o" is a trace of what was done: marking *)
(* a value doubles it and adds the value.  "n" counts the rounds of all    *)
(* the outer loops, "m" those of an inner loop, "i" is a loop's own        *)
(* variable.  They keep to the rules of the sources of MCUucCompiler.      *)
(***************************************************************************)
EXTENDS UucMeant, TLC

MCNames == {"o", "n", "m", "u", "x", "y", "i", "f", "g"}

\* "o" and "n" share a node of a table of 16; "u", which is not defined, has its own.
MCHash == [k \in MCNames |->
             CASE k = "o" -> 3 [] k = "n" -> 19 [] k = "m" -> 4 [] k = "u" -> 5
               [] k = "f" -> 6 [] k = "g" -> 38 [] OTHER -> 7]

Numerals == [k \in 0 .. 9 |-> ToString(k)]
MCIntegers == {Numerals[k] : k \in DOMAIN Numerals}
MCIntegerValue == [t \in MCIntegers |-> CHOOSE k \in DOMAIN Numerals : Numerals[k] = t]

-----------------------------------------------------------------------------
N(k) == Integer(Numerals[k])
V(name) == Variable(name)
Mark(e) == Assign("o", Op(Op(V("o"), "*", N(2)), "+", e))
Count(name) == Assign(name, Op(V(name), "+", N(1)))

Prelude == <<Var("o", <<N(1)>>), Var("n", <<N(0)>>), Var("m", <<>>)>>

\* The locals seen, whether the innermost loop may be left, whether in a function.
Place == [seen |-> {}, loops |-> FALSE, returns |-> FALSE]

Leaves(p) ==
  {Mark(N(1))} \cup {Mark(V(v)) : v \in p.seen}
    \cup {Assign(v, Op(V("n"), "+", V(v))) : v \in p.seen}
    \cup (IF p.loops THEN {Leave("break"), Leave("continue")} ELSE {})
    \cup (IF p.returns THEN {Return(V("n"))} ELSE {})

Local(p) == IF "x" \in p.seen THEN "y" ELSE "x"
See(v, p) == [p EXCEPT !.seen = @ \cup {v}]

Second == Op(V("n"), "==", N(2))

\* What may be in the body of a loop or function: behind first, one of S and a mark,
\* in two with a local.
Bodies(first, p, S(_)) ==
  {first \o <<s, Mark(N(3))>> : s \in S(p)}
    \cup {first \o <<Var(Local(p), <<V("n")>>), s, Mark(V(Local(p)))>> : s \in S(See(Local(p), p))}

Outer(p, S(_)) ==
  LET in == [p EXCEPT !.loops = TRUE]
      own == See("i", [p EXCEPT !.loops = FALSE])
  IN  {While(Op(V("n"), "<", N(3)), Block(b)) : b \in Bodies(<<Count("n")>>, in, S)}
        \cup {For(<<>>, <<Op(V("n"), "<", N(3))>>, <<Count("n")>>, Block(b)) : b \in Bodies(<<>>, in, S)}
        \cup {For(<<Var("i", <<N(0)>>)>>, <<Op(V("i"), "<", N(3))>>, <<Count("i")>>, Block(b)) :
                b \in Bodies(<<Assign("n", V("i"))>>, own, S)}

Inner(p) ==
  LET in == [p EXCEPT !.loops = TRUE]
      test == Op(N(2), ">", V("m"))
      Twice(q) == {If(Second, s, <<>>) : s \in Leaves(q)}
  IN  {Block(<<Assign("m", N(0)), While(test, Block(b))>>) : b \in Bodies(<<Count("m")>>, in, Twice)}
        \cup {For(<<Assign("m", N(0))>>, <<test>>, <<Count("m")>>, Block(b)) : b \in Bodies(<<>>, in, Twice)}

Branches(p) ==
  {If(Second, s, <<>>) : s \in Leaves(p)}
    \cup {If(Second, s, <<Mark(N(2))>>) : s \in Leaves(p)}
    \cup {If(Second, Block(<<Var(Local(p), <<>>), s>>), <<Block(<<Mark(N(2))>>)>>) : s \in Leaves(p)}
    \cup {If(Op(V("n"), "<", N(2)), Mark(N(1)), <<s>>) : s \in Leaves(p)}

Loops == {<<s>> : s \in Outer(Place, Branches) \cup Outer(Place, Inner)}

-----------------------------------------------------------------------------
\* A function that may return from inside its loop, called in two places, once with
\* a local and an operand on the stack.  What main calls returns in a return statement.
\* Its first mark has codes grow in time for what follows.
Functions ==
  LET p    == [Place EXCEPT !.returns = TRUE]
      body == Bodies(<<Mark(N(1))>>, p, Branches)
                \cup {<<s>> : s \in {w \in Outer(p, Branches) : w.is = "while"}}
  IN  {<<Function("f", <<>>, Block(Append(b, Return(N(9))))),
         Assign("m", CallOf("f", <<>>)), Assign("n", N(2)),
         Block(<<Var("x", <<N(1)>>), Mark(Op(V("x"), "+", CallOf("f", <<>>))), Mark(V("x"))>>)>> :
         b \in body}

Call(e) == CallOf("f", <<e>>)
Before(e) == Op(e, "-", N(1))

WithParameters ==
  { <<Function("f", <<"x", "y">>, Block(<<If(Op(V("x"), "<", V("y")), Return(V("y")), <<>>),
                                          Return(Op(V("x"), "*", N(3)))>>)),
      Mark(CallOf("f", <<CallOf("f", <<N(1), N(2)>>), Op(N(3), "+", CallOf("f", <<N(2), N(1)>>))>>))>>,
    <<Function("f", <<"x">>, Block(<<Var("y", <<Op(V("x"), "*", N(2))>>),
                                     If(Op(V("y"), "<", N(1)), Return(V("y")), <<>>),
                                     Return(Op(V("y"), "+", Call(Before(V("x")))))>>)),
      Mark(Op(N(1), "-", Call(N(4))))>>,
    <<Function("f", <<"x">>, Block(<<If(Op(V("x"), "<", N(2)), Return(V("x")), <<>>),
                                     Return(Op(Call(Before(V("x"))), "+", Call(Before(Before(V("x"))))))>>)),
      Mark(Call(N(4)))>>,
    <<Function("g", <<>>, Block(<<If(Op(N(2), ">", V("n")),
                                     Block(<<Var("x", <<N(5)>>), Count("n"), Return(Call(V("x")))>>), <<>>),
                                  Return(N(0))>>)),
      Function("f", <<"x">>, Block(<<Return(Op(V("x"), "+", CallOf("g", <<>>)))>>)),
      Mark(CallOf("g", <<>>))>>,
    <<Function("g", <<>>, Block(<<Assign("m", Call(N(2))), Return(N(4))>>)),
      Function("f", <<"x">>, Block(<<Mark(V("x"))>>)), Mark(CallOf("g", <<>>))>>,
    <<Function("f", <<>>, Block(<<Function("x", <<>>, Block(<<Return(N(9))>>)), Return(V("x"))>>)),
      Var("g", <<CallOf("f", <<>>)>>), Mark(CallOf("g", <<>>)), Mark(CallOf("g", <<>>))>> }

-----------------------------------------------------------------------------
\* What fails, at the top, in a loop's second round, and in a function.
Wrongs == { Mark(V("u")), Assign("u", N(1)), Mark(Null), If(Null, Mark(N(1)), <<>>),
            Mark(CallOf("n", <<>>)), Mark(Op(N(1), "<", N(2))),
            While(Op(N(1), "+", Null), Block(<<>>)) }

Failing ==
  {<<Mark(N(1)), s, Mark(N(2))>> : s \in Wrongs}
    \cup {<<While(Op(V("n"), "<", N(3)),
                  Block(<<Var("x", <<N(1)>>), Count("n"), If(Second, s, <<>>), Mark(V("x"))>>))>> :
            s \in Wrongs}
    \cup {<<Function("f", <<>>, Block(<<Mark(N(1)), s, Return(N(1))>>)),
            Mark(CallOf("f", <<>>))>> : s \in Wrongs}

MCTrees == {Prelude \o t : t \in UNION {Loops, Functions, WithParameters, Failing}}
MCTexts == {TextOf(t) : t \in MCTrees}

\* A program here has three functions at most, main included.
MCLabels == <<"main", "second", "third">>
=============================================================================
