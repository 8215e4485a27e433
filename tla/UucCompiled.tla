---------------------------- MODULE UucCompiled -----------------------------
(***************************************************************************)
(* What the compiler promises those who run its code, though no part of    *)
(* the program checks it: that the operand stack is where the compiler     *)
(* believes it to be.  It believes that the locals of the function being   *)
(* compiled are the function's slots from the first one on, and nothing    *)
(* else is on them between two statements.                                 *)
(***************************************************************************)
EXTENDS UucCompiler, UucHeights, UucSNotation, FiniteSets

CONSTANT Sources    \* the texts for which the compiler keeps its promise

ASSUME SourcesAssumption == Sources \subseteq Texts

CodeByte == 0 .. 255

PendingJump == [index : Nat, pos : Nat, depth : Nat]

(***************************************************************************)
(* Types.  Whatever the text, and wherever its errors are, scope_depth,    *)
(* unsigned in the code, does not go below zero, the function being        *)
(* compiled is one of those made, and the program's end stays to be found. *)
(***************************************************************************)
TypeOK ==
  /\ status \in {"ok", "done", "overflow", "wild", "exit"}
  /\ context.scope_depth \in Nat
  /\ context.loop_depth \in Nat \cup {-1}
  /\ context.current \in DOMAIN context.functions
  /\ \A i \in DOMAIN context.functions :
       /\ context.functions[i].arity \in CodeByte
       /\ \A j \in DOMAIN context.functions[i].code : context.functions[i].code[j] \in CodeByte
  /\ \A j \in DOMAIN context.locals : context.locals[j].depth \in Nat
  /\ \A j \in DOMAIN context.break_jumps : context.break_jumps[j] \in PendingJump
  /\ \A j \in DOMAIN context.continue_jumps : context.continue_jumps[j] \in PendingJump
  /\ status = "ok" => work # <<>> /\ Last(work).do = "program"

Accepted == status = "done" /\ ~ context.error

-----------------------------------------------------------------------------
(***************************************************************************)
(* A function's code ends in its last return.  One more byte behind it is  *)
(* what the machine needs not to take that return for the end of main.     *)
(***************************************************************************)
Closed(fun) == [fun EXCEPT !.code = Append(@, OP_NULL)]

(***************************************************************************)
(* The code of a source has stack maps: every path through it, by way of   *)
(* branches, loops, breaks, continues and returns, has one height at each  *)
(* instruction, takes no more than is there, ends where code ends, and     *)
(* refers to constants, names and slots that exist.  Jumps are patched     *)
(* long after they are emitted, in one pass, from state in four arrays.    *)
(***************************************************************************)
Fits ==
  status = "done" /\ text \in Sources =>
    /\ ~ context.error
    /\ \A i \in DOMAIN context.functions :
         LET f   == IF i = 1 THEN "main" ELSE "function"
             fun == IF i = 1 THEN context.functions[i] ELSE Closed(context.functions[i])
         IN  FunctionFits(f, fun, StackMap(fun))

(***************************************************************************)
(* The code so far, where a break or continue that has not been resolved   *)
(* goes nowhere.                                                           *)
(***************************************************************************)
Pending == {context.break_jumps[j].index : j \in DOMAIN context.break_jumps} \cup
           {context.continue_jumps[j].index : j \in DOMAIN context.continue_jumps}

SoFar ==
  [Current(context) EXCEPT
     !.code = [k \in DOMAIN @ |-> IF k - 1 \in Pending THEN OP_RETURN ELSE @[k]]]

\* The parameters that an earlier function left behind are deeper than its scope was.
InScope == {j \in DOMAIN context.locals : context.locals[j].depth <= context.scope_depth}

(***************************************************************************)
(* Where a statement of a source begins, or a block goes on, if control    *)
(* gets there, the function has as many slots on the stack as the compiler *)
(* has locals in scope: the index the compiler finds for a name is the slot of its  *)
(* value.  The number of locals and the code that pushes and pops them are *)
(* kept apart, and breaks and continues pop locals that stay in scope.     *)
(***************************************************************************)
LocalsAreSlots ==
  status = "ok" /\ Head(work).do \in {"program", "statement", "block"} /\ text \in Sources =>
    LET H == StackMap(SoFar)
    IN  Size(context) \in DOMAIN H => H[Size(context)] = Cardinality(InScope)

(***************************************************************************)
(* When a loop of a source ends, the breaks and continues compiled since   *)
(* it began, and no others, stop being pending: the breaks lead behind the *)
(* loop, the continues to its condition or increment.  A jump does not say *)
(* which loop it belongs to, only how deep it was and where, and stack     *)
(* maps cannot tell one loop's end from another's.                         *)
(***************************************************************************)
Resolves(jumps, next) ==
  LET code == Current(context').code
      Own(j) == context[jumps][j].index >= Task.start
  IN  /\ \A j \in DOMAIN context[jumps] :
           Own(j) => Successors(code, context[jumps][j].index) = {next}
      /\ context'[jumps] = SelectSeq(context[jumps], LAMBDA jump : jump.index < Task.start)

LoopsKeepTheirJumps ==
  [][(EndWhile \/ EndFor) /\ ~ context.panic /\ text \in Sources =>
       /\ Resolves("break_jumps", Size(context'))
       /\ Resolves("continue_jumps",
                   IF Task.do = "end while" THEN Task.start ELSE Task.increment)]_vars

(***************************************************************************)
(* Between two declarations of the top level of any text without an error  *)
(* the compiler is back in main, in no scope and in no loop.               *)
(***************************************************************************)
BackAtTop ==
  status = "ok" /\ Head(work).do = "program" /\ ~ context.error =>
    /\ context.current = 1
    /\ context.scope_depth = 0
    /\ context.loop_depth = -1

(***************************************************************************)
(* The constants that are functions: which one, and where it is.           *)
(***************************************************************************)
FunctionsIn(fun) == {k \in DOMAIN fun.constants : fun.constants[k].type = "function"}

Made(functions) ==
  UNION {{[fn |-> functions[i].constants[k].fn, in |-> i, at |-> k] :
            k \in FunctionsIn(functions[i])} : i \in DOMAIN functions}

NamesOnly(fun) == \A k \in DOMAIN fun.names : TypeOf(fun.names[k]) = "identifier"

(***************************************************************************)
(* Between two declarations of the top level of any text, and at its end,  *)
(* the functions are a tree: each but main is a constant in one place, in  *)
(* a function begun before it, so that none is lost, has two owners, is    *)
(* main or reaches itself.  Main has no parameters, though where they are  *)
(* counted depends on the current function alone; and, unless there was an *)
(* error, what the code names are identifiers.  An error may be found      *)
(* anywhere in a function, which is left and made a constant all the same. *)
(***************************************************************************)
HandedOver ==
  status \in {"ok", "done"} /\ Head(work).do = "program" =>
    LET functions == context.functions
        made == Made(functions)
    IN  /\ \A i \in 2 .. Len(functions) :
             \E p \in made : p.fn = i /\ p.in < i /\ \A q \in made : q.fn = i => q = p
        /\ \A p \in made : p.fn \in 2 .. Len(functions)
        /\ functions[1].arity = 0
        /\ ~ context.error => \A i \in DOMAIN functions : NamesOnly(functions[i])

(***************************************************************************)
(* There, and whenever no loop of a source is being compiled, no break or  *)
(* continue of it is left to resolve: what a later loop finds pending are  *)
(* its own.                                                                *)
(***************************************************************************)
NonePending ==
  status = "ok" /\ context.loop_depth = -1 /\ text \in Sources => Pending = {}

(***************************************************************************)
(* The compiler comes to an end with every text but those with a class,    *)
(* which it never consumes: after an error it finds a place to go on from  *)
(* and does not find the same error there again.                           *)
(***************************************************************************)
Ends == <>(status # "ok" \/ "class" \in Range(text))

-----------------------------------------------------------------------------
(***************************************************************************)
(* The expressions of EBNF.ebnf, from equality down to call.  The code of  *)
(* an expression, and the words of its s-notation, are read off its        *)
(* derivation; the compiler has no tree, but numbers for precedence.       *)
(***************************************************************************)
OperatorsAt == << {"==", "!="}, {"<", "<=", ">", ">="}, {"+", "-"}, {"*", "/"} >>

Read(code, words) == [code |-> code, words |-> words]

None == Read(<<>>, <<>>)    \* what is derived has code

\* How many tokens of the types T are in text before i.
Before(i, T) == Cardinality({k \in 1 .. i - 1 : TypeOf(text[k]) \in T})

Primary(i) ==
  LET token == text[i]
  IN  IF TypeOf(token) \in Constants THEN Read(<<OP_CONSTANT, Before(i, Constants)>>, <<token>>)
      ELSE IF token \in Names THEN Read(<<OP_GET_GLOBAL, Before(i, {"identifier"})>>, <<token>>)
      ELSE IF token = "true" THEN Read(<<OP_TRUE>>, <<token>>)
      ELSE IF token = "false" THEN Read(<<OP_FALSE>>, <<token>>)
      ELSE IF token = "null" THEN Read(<<OP_NULL>>, <<token>>)
      ELSE None

\* The expression text[i..j] as derived from a level: 1 to 4 binary, 5 unary,
\* 6 call, 0 arguments, each followed by one "," counted at the end of the code.
Derived[level \in 0 .. 6, i \in 1 .. Len(text) + 1, j \in 0 .. Len(text)] ==
  CASE level \in 1 .. 4 ->
         LET splits == {k \in i + 1 .. j - 1 :
                          /\ text[k] \in OperatorsAt[level]
                          /\ Derived[level, i, k - 1] # None
                          /\ Derived[level + 1, k + 1, j] # None}
         IN  IF splits = {} THEN Derived[level + 1, i, j]
             ELSE LET k == CHOOSE k \in splits : TRUE
                      a == Derived[level, i, k - 1]
                      b == Derived[level + 1, k + 1, j]
                  IN  Read(a.code \o b.code \o BinaryCode(text[k]),
                           Bracketed(<<text[k]>> \o a.words \o b.words))
    [] level = 5 ->
         IF i <= j /\ text[i] \in {"-", "!"}
           THEN LET a == Derived[5, i + 1, j]
                IN  IF a = None THEN None
                    ELSE Read(a.code \o UnaryCode(text[i]), Bracketed(<<text[i]>> \o a.words))
           ELSE Derived[6, i, j]
    [] level = 6 ->
         IF i = j THEN Primary(i)
         ELSE IF i > j \/ text[j] # ")" THEN None
         ELSE IF text[i] = "(" THEN Derived[1, i + 1, j - 1]
         ELSE IF text[i] \in Names /\ text[i + 1] = "("
           THEN LET args == Derived[0, i + 2, j - 1].code
                IN  IF args = <<>> THEN None
                    ELSE Read(Front(args) \o <<OP_GET_GLOBAL, Before(i, {"identifier"}),
                                               OP_CALL, Last(args)>>, <<>>)
         ELSE None
    [] level = 0 ->
         IF i > j THEN Read(<<0>>, <<>>)
         ELSE IF Derived[1, i, j] # None THEN Read(Append(Derived[1, i, j].code, 1), <<>>)
         ELSE LET splits == {k \in i + 1 .. j - 1 : /\ text[k] = ","
                                                    /\ Derived[0, i, k - 1] # None
                                                    /\ Derived[1, k + 1, j] # None}
              IN  IF splits = {} THEN None
                  ELSE LET k == CHOOSE k \in splits : TRUE
                           first == Derived[0, i, k - 1].code
                       IN  Read(Front(first) \o Derived[1, k + 1, j].code \o <<Last(first) + 1>>, <<>>)

(***************************************************************************)
(* A text that is one expression of the grammar and a semicolon is         *)
(* accepted, and its code is that of the derivation: operators bind and    *)
(* associate as the grammar has it, operands come in order, and constants  *)
(* and names have their indexes.                                           *)
(***************************************************************************)
FollowsGrammar ==
  status = "done" /\ text # <<>> /\ Last(text) = ";" =>
    LET code == Derived[1, 1, Len(text) - 1].code
    IN  code # <<>> => ~ context.error /\ Current(context).code = code

(***************************************************************************)
(* slice_s_notation, through which the tests of the compiler look at it,   *)
(* shows an expression without calls, the first value of a variable or an  *)
(* assignment as it was derived: it takes the instructions apart as the    *)
(* compiler put them together, and each operand lands on its own side.     *)
(***************************************************************************)
Openings == {<<>>} \cup {<<"var", v, "=">> : v \in Names} \cup {<<v, "=">> : v \in Names}

NotationShows ==
  status = "done" /\ text # <<>> /\ Last(text) = ";" =>
    \A before \in Openings :
      IsPrefix(before, text) =>
        LET e == Derived[1, Len(before) + 1, Len(text) - 1]
        IN  e # None /\ OP_CALL \notin Range(e.code) =>
              SNotation(Current(context)) =
                (CASE Len(before) = 0 -> e.words
                   [] Len(before) = 2 -> Bracketed(<<"=", before[1]>> \o e.words)
                   [] OTHER           -> Bracketed(<<"var", before[2]>> \o e.words))

-----------------------------------------------------------------------------
(***************************************************************************)
(* "Cannot assign to expression": what is accepted assigns to names only.  *)
(***************************************************************************)
AssignsToNames ==
  Accepted => \A k \in 2 .. Len(text) : text[k] = "=" => text[k - 1] \in Names
=============================================================================
