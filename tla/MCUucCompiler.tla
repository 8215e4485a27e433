---------------------------- MODULE MCUucCompiler ---------------------------
(***************************************************************************)
(* Texts for the compiler.  "g" is a global, "x", "y" and "i" are locals,  *)
(* "f" is a function.                                                      *)
(***************************************************************************)
EXTENDS UucCompiled

MCNames == {"g", "x", "y", "i", "f"}

-----------------------------------------------------------------------------
(***************************************************************************)
(* Sources.  A place is the locals seen there, whether it is in a loop     *)
(* whose jumps may be used, and whether it is in a function.  They keep to *)
(* what the compiler compiles:                                             *)
(*   - a value is assigned, and no variable's own value is its first one;  *)
(*   - the body of a loop is a block;                                      *)
(*   - no break or continue is for a loop with a variable of its own;      *)
(*   - no loop follows a break or continue of a deeper scope;              *)
(*   - only functions return, and they are declared at the top;            *)
(*   - behind a function with parameters there is no scope.                *)
(***************************************************************************)
Place == [seen |-> {}, loops |-> FALSE, returns |-> FALSE]

Assigning(v, w) == <<v, "=", w, ";">>
OnG == <<"(", "g", ")">>

Leaves(p) ==
  {Assigning("g", v) : v \in p.seen \cup {"integer"}}
    \cup {Assigning(v, "g") : v \in p.seen}
    \cup (IF p.loops THEN {<<"break", ";">>, <<"continue", ";">>} ELSE {})
    \cup (IF p.returns THEN {<<"return", "g", ";">>} ELSE {})

See(v, p) == [p EXCEPT !.seen = @ \cup {v}]
InLoop(p) == [p EXCEPT !.loops = TRUE]
InFor(p)  == [See("i", p) EXCEPT !.loops = FALSE]

\* A block with a local or none, one of S and, where there is a local, a use of one.
BlocksOf(p, S(_)) ==
  LET v == IF "x" \in p.seen THEN "y" ELSE "x"
  IN  {<<"{">> \o s \o <<"}">> : s \in S(p)}
        \cup {<<"{", "var", v, "=", "g", ";">> \o s \o Assigning("g", v) \o <<"}">> :
                s \in S(See(v, p))}

ForHeaders == { <<"for", "(", ";", ";", ")">>,
                <<"for", "(", ";", "g", ";", "g", "=", "integer", ")">>,
                <<"for", "(">> \o Assigning("g", "integer") \o <<"g", ";", ")">> }

ForVar == <<"for", "(", "var", "i", ";", "g", ";", "i", "=", "g", ")">>

\* Statements made of those of S.
Nested(p, S(_)) ==
  {<<"if">> \o OnG \o s : s \in S(p)}
    \cup {<<"if">> \o OnG \o s \o <<"else">> \o t : s \in S(p), t \in Leaves(p)}
    \cup BlocksOf(p, S)
    \cup {<<"while">> \o OnG \o b : b \in BlocksOf(InLoop(p), S)}
    \cup {h \o b : h \in ForHeaders, b \in BlocksOf(InLoop(p), S)}
    \cup {ForVar \o b : b \in BlocksOf(InFor(p), S)}

Simple(p)     == Leaves(p)
Compound(p)   == Nested(p, Simple)
Statements(p) == Simple(p) \cup Compound(p)

Breaking == <<"while", "(", "g", ")", "{", "break", ";", "}">>
Locals2  == <<"{", "var", "x", "=", "g", ";", "var", "y", ";">> \o Assigning("g", "y")

Deep ==
  { Locals2 \o <<"}">> \o Locals2 \o <<"}">>,
    <<"while">> \o OnG \o Locals2 \o Breaking \o Breaking \o <<"continue", ";", "}">>,
    <<"while">> \o OnG \o <<"{", "if">> \o OnG \o <<"break", ";">> \o Breaking
      \o <<"if">> \o OnG \o <<"continue", ";">> \o Breaking \o <<"}">>,
    <<"while">> \o OnG \o <<"{", "var", "x", ";", "if">> \o OnG
      \o <<"{", "var", "y", ";", "if">> \o OnG \o <<"continue", ";", "break", ";", "}">>
      \o Assigning("g", "x") \o <<"}">>,
    ForVar \o <<"{", "while">> \o OnG \o <<"{", "var", "x", "=", "i", ";", "break", ";", "}">>
      \o Assigning("i", "g") \o <<"}">> \o Assigning("g", "integer") }

Functions ==
  LET body == BlocksOf([Place EXCEPT !.returns = TRUE], Statements)
  IN  {<<"fn", "f", "(", ")">> \o b \o <<"g", "=", "f", "(", ")", ";">> : b \in body}

WithParameter ==
  LET body == BlocksOf([Place EXCEPT !.returns = TRUE, !.seen = {"x"}], Simple)
  IN  {<<"fn", "f", "(", "x", ")">> \o b \o <<"g", "=", "f", "(", "integer", ")", ";">> : b \in body}

Kept ==
  UNION {Statements(Place), Nested(Place, Compound), Deep, Functions, WithParameter}

MCSources == Kept

-----------------------------------------------------------------------------
(***************************************************************************)
(* Expressions with up to three operators, unary ones and parentheses.     *)
(***************************************************************************)
Operands ==
  { <<"g">>, <<"-", "g">>, <<"!", "integer">>, <<"-", "-", "true">>,
    <<"(", "g", "-", "integer", ")">>, <<"f", "(", ")">>,
    <<"f", "(", "g", "*", "null", ",", "integer", ")">> }

BinaryTokens == {"==", "!=", "<", ">=", "+", "-", "*", "/"}

Expressions ==
  {a \o <<p>> \o b \o <<";">> : a \in Operands, b \in Operands, p \in BinaryTokens}
    \cup {<<"g", p, "integer", q, "false", r, "g", ";">> :
            p \in BinaryTokens, q \in BinaryTokens, r \in {"==", "<", "-", "*"}}
    \cup {<<"-", "(">> \o a \o <<p, "!">> \o b \o <<")", q, "g", ";">> :
            a \in Operands, b \in Operands, p \in {"==", "*"}, q \in {"!=", "/"}}
    \cup {l \o a \o <<p, "integer", "-">> \o b \o <<";">> : p \in {"<", "/"},
            l \in {<<"var", "g", "=">>, <<"x", "=">>}, a \in Operands, b \in Operands}

(***************************************************************************)
(* Any texts: short ones, sources in which a token is missing or wrong,    *)
(* and some with more locals, jumps or code without a constant than there  *)
(* is room for, or with the jumps of one loop taken for another's.         *)
(***************************************************************************)
Tokens == {"g", "integer", "(", ")", "{", "}", ";", ",", "=", "-", ".", "var", "fn", "class",
           "if", "else", "while", "for", "break", "continue", "return", "error"}

Short == UNION {[1 .. n -> Tokens] : n \in 0 .. 3}

Whole ==
  Deep \cup
  { <<"fn", "f", "(", "x", ",", "y", ")", "{", "if">> \o OnG \o <<"return", "x", ";", "else",
      "{", "g", "=", "f", "(", "y", ",", "g", ")", "(", ")", ";", "}", "}", "g", "(", ")", ";">>,
    <<"for", "(", "var", "i", "=", "integer", ";", "i", ";", "i", "=", "g", ")",
      "{", "if">> \o OnG \o <<"continue", ";", "break", ";", "}">>,
    <<"fn", "f", "(", ")", "{", "fn", "x", "(", "y", ")", "{", "return", "y", ";", "}",
      "fn", "y", "(", ")", "{", "}", "}", "fn", "g", "(", ")", "{", "}">> }

Broken ==
  UNION {UNION {{SubSeq(t, 1, k - 1) \o r \o SubSeq(t, k + 1, Len(t)) :
                   r \in {<<>>, <<";">>, <<"}">>, <<"integer">>, <<"=", "break">>}} :
                  k \in DOMAIN t} : t \in Whole}

Times(n, t) == FlattenSeq([k \in 1 .. n |-> t])

Crowded ==
  { <<"{">> \o Times(5, <<"var", "x", ";">>),
    <<"fn", "f", "(">> \o Times(5, <<"x", ",">>),
    <<"while">> \o OnG \o <<"{">> \o Times(5, <<"break", ";">>),
    <<"while">> \o OnG \o <<"{">> \o Times(5, <<"continue", ";">>),
    Times(20, Assigning("g", "g")),
    <<"fn", "f", "(", ")", "{">> \o Times(20, Assigning("g", "g")),
    <<"while">> \o OnG \o <<"{", "fn", "f", "(", ")", "{">>
      \o Times(8, Assigning("g", "g")) \o <<"break", ";", "}", "}">> }

Captured ==
  {<<"while">> \o OnG \o <<"{", "if">> \o OnG \o <<"{", leave, ";", "}">>
     \o Assigning("g", "integer") \o <<"while">> \o OnG \o <<"{", "}", "}">> : leave \in {"break", "continue"}}

\* The tests' assignments that are errors, to a name, and to a name in parentheses.
Assignments ==
  {l \o <<"=", "integer", ";">> :
     l \in { <<"g", "+", "x">>, <<"g", "+", "integer">>, <<"+", "g">>, <<"g">>, <<"(", "g", ")">> }}

MCAssignments == Assignments

MCTexts == UNION {Kept, Expressions, Short, Whole, Broken, Crowded, Captured, Assignments}
=============================================================================
