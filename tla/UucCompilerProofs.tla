-------------------------- MODULE UucCompilerProofs -------------------------
(***************************************************************************)
(* For all texts, tokens and sizes of the arrays: the compiler stays in    *)
(* its types; between two declarations of the top level the functions it   *)
(* made are a tree with main as its root; and where no error was found it  *)
(* is back in main, in no scope and in no loop.                            *)
(*                                                                         *)
(* The depths and the current function are variables of a one-pass         *)
(* compiler, and a function is a constant of the outer one only when its   *)
(* body ends; what says that they come back to where they were is C's      *)
(* stack, which is work here.  The inductive invariant relates the two:    *)
(* it says what the tasks of work hold of the context, errors or not.      *)
(***************************************************************************)
EXTENDS UucCompiled, FiniteSetTheorems, SequenceTheorems, WellFoundedInduction, TLAPS

(***************************************************************************)
(* What contexts and tasks are made of.                                    *)
(***************************************************************************)
Written == UNION {Range(t) : t \in Texts}

AllTokens == Written \cup {"none", "eof"}

Depths == Nat \cup {-1}

LiteralValues == {v \in [type : Constants, token : AllTokens] : TypeOf(v.token) = v.type}

ConstantValues == [type : {"null"}] \cup [type : {"function"}, fn : Nat] \cup LiteralValues

CompiledFunctions ==
  [arity : CodeByte, code : Seq(CodeByte), constants : Seq(ConstantValues), names : Seq(AllTokens),
   capacity : Nat, allocated : Nat, overrun : BOOLEAN]

CompilerLocals == [name : AllTokens, depth : Nat]

Contexts ==
  [input : Seq(AllTokens), token : AllTokens, functions : Seq(CompiledFunctions), current : Nat,
   locals : Seq(CompilerLocals), scope_depth : Nat, loop_depth : Depths,
   break_jumps : Seq(PendingJump), continue_jumps : Seq(PendingJump),
   panic : BOOLEAN, error : BOOLEAN]

MainTakesNone(functions) == functions[1].arity = 0

AllNamed(functions) == \A i \in DOMAIN functions : NamesOnly(functions[i])

Good(c) ==
  /\ c \in Contexts
  /\ c.current \in 1 .. Len(c.functions)
  /\ c.panic => c.error
  /\ MainTakesNone(c.functions)
  /\ ~ c.error => AllNamed(c.functions)

Ids == [scope : {"local", "global"}, index : CodeByte]

PlainTasks ==
  [do : {"declaration", "synchronize", "var", "fn", "{", "statement", "if", "while", "for",
         "break", "continue", "return", "expression statement", "end return", "then"}]
    \cup [do : {"precedence", "infix", "operators"}, can_assign : BOOLEAN, min : Nat]
    \cup [do : {"end var", "assign"}, id : Ids]
    \cup [do : {"consume"}, type : {";", ")"}]
    \cup [do : {"else", "end if"}, jump : Nat]
    \cup [do : {"binary", "unary"}, op : AllTokens]
    \cup [do : {"arguments", "argument"}, id : Ids, args : Nat]

LoopTasks ==
  [do : {"while body"}, start : Nat, outer : Depths]
    \cup [do : {"end while"}, start : Nat, test : Nat, outer : Depths]

ForTasks ==
  [do : {"for condition"}, outer : Depths]
    \cup [do : {"for test"}, start : Nat, outer : Depths]
    \cup [do : {"for increment"}, start : Nat, tests : BOOLEAN, outer : Depths]
    \cup [do : {"for body"}, start : Nat, tests : BOOLEAN, outer : Depths, increment : Nat]
    \cup [do : {"end for"}, start : Nat, tests : BOOLEAN, outer : Depths, increment : Nat,
          body : Nat]

FunctionTasks == [do : {"end fn"}, id : Ids, prev : Nat]

ParameterTasks == [do : {"parameters"}, arity : Nat]

Tasks == PlainTasks \cup LoopTasks \cup ForTasks \cup FunctionTasks \cup ParameterTasks
           \cup [do : {"program", "block"}]

-----------------------------------------------------------------------------
(***************************************************************************)
(* What the tasks of work hold of a context.  A loop's tasks keep the loop *)
(* depth around it, a function's the function around it, and these tasks,  *)
(* but those of while, and a block have a scope of their own.              *)
(***************************************************************************)
Scoped(t)  == t \in ForTasks \cup FunctionTasks \/ t.do = "block"
Looping(t) == t \in LoopTasks \cup ForTasks
Making(t)  == t \in FunctionTasks

Scopes(w) == Cardinality({i \in DOMAIN w : Scoped(w[i])})

\* Where w leads back to once all its loops, or functions, have ended.
OutOfLoops(w, depth) ==
  /\ (\A i \in DOMAIN w : ~ Looping(w[i])) => depth = -1
  /\ \A i \in DOMAIN w :
       Looping(w[i]) /\ (\A j \in i + 1 .. Len(w) : ~ Looping(w[j])) => w[i].outer = -1

BackInMain(w, current) ==
  /\ (\A i \in DOMAIN w : ~ Making(w[i])) => current = 1
  /\ \A i \in DOMAIN w :
       Making(w[i]) /\ (\A j \in i + 1 .. Len(w) : ~ Making(w[j])) => w[i].prev = 1

Holds(w, functions, current, scope_depth, loop_depth, error) ==
  /\ w \in Seq(Tasks) /\ w # <<>>
  /\ \A i \in DOMAIN w : w[i].do = "program" <=> i = Len(w)
  /\ \A i \in DOMAIN w : Making(w[i]) => w[i].prev \in 1 .. functions
  /\ BackInMain(w, current)
  /\ Scopes(w) <= scope_depth
  /\ ~ error => Scopes(w) = scope_depth /\ OutOfLoops(w, loop_depth)

\* A function goes back to one that was begun before it.
Nested(w, current) ==
  \A i \in DOMAIN w : Making(w[i]) =>
    /\ w[i].prev < current
    /\ \A j \in i + 1 .. Len(w) : Making(w[j]) => w[j].prev < w[i].prev

\* Parameters are those of a function that will end.
OfFunctions(w) ==
  \A i \in DOMAIN w : w[i].do = "parameters" => \E j \in i + 1 .. Len(w) : Making(w[j])

\* The functions that have not ended: the current one and those it leads back to.
Open(w, current) == {current} \cup {w[i].prev : i \in {i \in DOMAIN w : Making(w[i])}}

\* The functions that have ended are constants, each in one place; the others are not.
OneEach(made, open, n) ==
  /\ \A p \in made : p.fn \in 2 .. n /\ p.in \in 1 .. p.fn - 1
  /\ \A g \in 2 .. n : g \in open <=> \A p \in made : p.fn # g
  /\ \A p, q \in made : p.fn = q.fn => p = q

Handed(w, made, n, current) ==
  /\ Nested(w, current)
  /\ OfFunctions(w)
  /\ OneEach(made, Open(w, current), n)

Kept(c, w) ==
  /\ Holds(w, Len(c.functions), c.current, c.scope_depth, c.loop_depth, c.error)
  /\ Handed(w, Made(c.functions), Len(c.functions), c.current)

CInv ==
  /\ text \in Texts
  /\ status \in {"ok", "done", "overflow", "wild", "exit"}
  /\ Good(context)
  /\ Kept(context, work)

-----------------------------------------------------------------------------
(***************************************************************************)
(* The helpers keep a context good, and what tasks hold of it as it is.    *)
(***************************************************************************)
Keeps(c, d) ==
  /\ Good(d)
  /\ d.current = c.current /\ Len(d.functions) = Len(c.functions)
  /\ Made(d.functions) = Made(c.functions)
  /\ d.scope_depth = c.scope_depth /\ d.loop_depth = c.loop_depth
  /\ c.error => d.error

LEMMA KeepsItself == ASSUME NEW c, Good(c) PROVE Keeps(c, c)
  BY DEF Keeps

LEMMA KeepsOn == ASSUME NEW c, NEW d, NEW e, Keeps(c, d), Keeps(d, e) PROVE Keeps(c, e)
  BY DEF Keeps

LEMMA SomeTokens ==
  /\ "none" \in AllTokens /\ "eof" \in AllTokens
  /\ \A t \in Texts : t \in Seq(AllTokens)
<1>1. AllTokens = Written \cup {"none", "eof"}
  BY DEF AllTokens
<1>2. ASSUME NEW t \in Texts PROVE t \in Seq(AllTokens)
  <2>1. t \in Seq(Range(t))
    BY TextsAssumption
  <2>2. \A x \in Range(t) : x \in Written
    BY Zenon DEF Written
  <2>3. \A x \in Range(t) : x \in AllTokens
    BY <1>1, <2>2
  <2> QED
    BY <2>1, <2>3
<1> QED
  BY <1>1, <1>2

LEMMA InputKeeps ==
  ASSUME NEW c, Good(c), NEW token \in AllTokens, NEW input \in Seq(AllTokens)
  PROVE  Keeps(c, [c EXCEPT !.token = token, !.input = input])
  BY DEF Keeps, Good, Contexts

LEMMA AdvanceKeeps == ASSUME NEW c, Good(c) PROVE Keeps(c, Advance(c))
<1>1. CASE c.input = <<>>
  <2>1. Advance(c) = [c EXCEPT !.token = "eof"]
    BY <1>1 DEF Advance
  <2> QED
    BY <2>1, SomeTokens DEF Keeps, Good, Contexts
<1>2. CASE c.input # <<>>
  <2>1. Advance(c) = [c EXCEPT !.token = Head(c.input), !.input = Tail(c.input)]
    BY <1>2 DEF Advance
  <2>2. Head(c.input) \in AllTokens /\ Tail(c.input) \in Seq(AllTokens)
    BY <1>2 DEF Good, Contexts
  <2> QED
    BY <2>1, <2>2 DEF Keeps, Good, Contexts
<1> QED
  BY <1>1, <1>2

LEMMA PanicKeeps == ASSUME NEW c, Good(c) PROVE Keeps(c, Panic(c))
  BY DEF Panic, Keeps, Good, Contexts

LEMMA ConsumeKeeps == ASSUME NEW c, Good(c), NEW type PROVE Keeps(c, Consume(type, c))
  BY AdvanceKeeps, PanicKeeps DEF Consume

\* Without an error the token was of the type that was asked for.
LEMMA TokenConsumed ==
  ASSUME NEW c, Good(c), NEW type, ~ Consume(type, c).error
  PROVE  Is(type, c)
  BY DEF Consume, Panic, Good, Contexts

LEMMA CurrentIs ==
  ASSUME NEW c, Good(c)
  PROVE  Current(c) \in CompiledFunctions /\ Size(c) \in Nat
<1>1. c.functions \in Seq(CompiledFunctions) /\ c.current \in 1 .. Len(c.functions)
  BY DEF Good, Contexts
<1>2. Current(c) \in CompiledFunctions
  BY <1>1 DEF Current
<1>3. Current(c).code \in Seq(CodeByte)
  BY <1>2 DEF CompiledFunctions
<1> QED
  BY <1>2, <1>3 DEF Size

-----------------------------------------------------------------------------
(***************************************************************************)
(* The function being compiled is the only one a helper changes.           *)
(***************************************************************************)
Owns(fun, k, g) == k \in FunctionsIn(fun) /\ fun.constants[k].fn = g

LEMMA MadeIs ==
  ASSUME NEW functions, NEW p
  PROVE  p \in Made(functions) <=>
           \E i \in DOMAIN functions : \E k, g :
             Owns(functions[i], k, g) /\ p = [fn |-> g, in |-> i, at |-> k]
<1> DEFINE Of(i) == {[fn |-> functions[i].constants[k].fn, in |-> i, at |-> k] :
                       k \in FunctionsIn(functions[i])}
<1>1. p \in Made(functions) <=> \E i \in DOMAIN functions : p \in Of(i)
  BY Zenon DEF Made
<1>2. ASSUME NEW i
      PROVE  p \in Of(i) <=> \E k, g : Owns(functions[i], k, g) /\ p = [fn |-> g, in |-> i, at |-> k]
  BY DEF Owns
<1> HIDE DEF Of
<1> QED
  BY <1>1, <1>2

LEMMA ConstantsOwn ==
  ASSUME NEW fun, NEW other, other.constants = fun.constants
  PROVE  \A k, g : Owns(other, k, g) <=> Owns(fun, k, g)
  BY DEF Owns, FunctionsIn

\* With another function in place of the current one, Made changes with what that owns.
LEMMA MadeWith ==
  ASSUME NEW c, Good(c), NEW fun
  PROVE  \A i \in DOMAIN c.functions :
           LET d == [c EXCEPT !.functions[c.current] = fun]
           IN  /\ DOMAIN d.functions = DOMAIN c.functions
               /\ d.functions[i] = IF i = c.current THEN fun ELSE c.functions[i]
  BY DEF Good, Contexts

\* What becomes of a context; what the function owns is left open.
LEMMA FunctionIs ==
  ASSUME NEW c, Good(c), NEW fun \in CompiledFunctions,
         fun.arity = Current(c).arity \/ c.current # 1,
         ~ c.error => NamesOnly(fun)
  PROVE  LET d == [c EXCEPT !.functions[c.current] = fun]
         IN  /\ Good(d)
             /\ d.current = c.current /\ Len(d.functions) = Len(c.functions)
             /\ d.scope_depth = c.scope_depth /\ d.loop_depth = c.loop_depth
             /\ d.error = c.error
<1> DEFINE functions == [c.functions EXCEPT ![c.current] = fun]
<1>1. functions \in Seq(CompiledFunctions) /\ Len(functions) = Len(c.functions)
  BY DEF Good, Contexts
<1>2. [c EXCEPT !.functions[c.current] = fun] = [c EXCEPT !.functions = functions]
  BY DEF Good, Contexts
<1>3. /\ c.functions \in Seq(CompiledFunctions) /\ c.current \in 1 .. Len(c.functions)
      /\ \A i \in DOMAIN c.functions :
           functions[i] = IF i = c.current THEN fun ELSE c.functions[i]
      /\ DOMAIN functions = DOMAIN c.functions
  BY DEF Good, Contexts
<1> HIDE DEF functions
<1>4. MainTakesNone(functions)
  <2>1. 1 \in DOMAIN c.functions /\ c.functions[1].arity = 0
    BY <1>3 DEF Good, MainTakesNone
  <2>2. c.current = 1 => fun.arity = 0
    BY <2>1 DEF Current
  <2> QED
    BY <1>3, <2>1, <2>2 DEF MainTakesNone
<1>5. ~ c.error => AllNamed(functions)
  BY <1>3 DEF Good, AllNamed
<1> QED
  BY <1>1, <1>2, <1>4, <1>5 DEF Good, Contexts

LEMMA FunctionKeeps ==
  ASSUME NEW c, Good(c), NEW fun \in CompiledFunctions,
         fun.arity = Current(c).arity \/ c.current # 1,
         ~ c.error => NamesOnly(fun),
         \A k, g : Owns(fun, k, g) <=> Owns(Current(c), k, g)
  PROVE  Keeps(c, [c EXCEPT !.functions[c.current] = fun])
<1> DEFINE d == [c EXCEPT !.functions[c.current] = fun]
<1>1. /\ Good(d)
      /\ d.current = c.current /\ Len(d.functions) = Len(c.functions)
      /\ d.scope_depth = c.scope_depth /\ d.loop_depth = c.loop_depth
      /\ d.error = c.error
  BY FunctionIs
<1>2. DOMAIN d.functions = DOMAIN c.functions
      /\ \A i \in DOMAIN c.functions : \A k, g :
           Owns(d.functions[i], k, g) <=> Owns(c.functions[i], k, g)
  BY MadeWith DEF Current, Good, Contexts
<1> HIDE DEF d
<1>3. \A p : p \in Made(d.functions) <=> p \in Made(c.functions)
  BY <1>2, MadeIs
<1>4. Made(d.functions) = Made(c.functions)
  BY <1>3
<1> QED
  BY <1>1, <1>4 DEF Keeps, d

\* The case of a function that only has other code.
LEMMA CodeKeeps ==
  ASSUME NEW c, Good(c), NEW fun \in CompiledFunctions, fun.arity = Current(c).arity,
         fun.names = Current(c).names, fun.constants = Current(c).constants
  PROVE  Keeps(c, [c EXCEPT !.functions[c.current] = fun])
<1>1. Current(c) \in CompiledFunctions
  BY CurrentIs
<1>2. ~ c.error => NamesOnly(Current(c))
  BY DEF Good, Contexts, AllNamed, Current
<1>3. ~ c.error => NamesOnly(fun)
  BY <1>2 DEF NamesOnly
<1> QED
  BY <1>3, ConstantsOwn, FunctionKeeps

LEMMA ExtendedIs ==
  ASSUME NEW fun \in CompiledFunctions, NEW bytes \in Seq(CodeByte),
         NEW capacity \in Nat, NEW allocated \in Nat
  PROVE  LET more == Extended(bytes, capacity, allocated, fun)
         IN  /\ more \in CompiledFunctions /\ more.arity = fun.arity
             /\ more.names = fun.names /\ more.constants = fun.constants
<1>1. fun.code \o bytes \in Seq(CodeByte)
  BY DEF CompiledFunctions
<1>2. (fun.overrun \/ Len(fun.code) + Len(bytes) > allocated) \in BOOLEAN
  OBVIOUS
<1> DEFINE code    == fun.code \o bytes
           overrun == fun.overrun \/ Len(fun.code) + Len(bytes) > allocated
<1>3. Extended(bytes, capacity, allocated, fun)
        = [fun EXCEPT !.code = code, !.capacity = capacity, !.allocated = allocated,
                      !.overrun = overrun]
  BY DEF Extended
<1>4. code \in Seq(CodeByte) /\ overrun \in BOOLEAN
  BY <1>1, <1>2
<1> HIDE DEF code, overrun
<1> QED
  BY <1>3, <1>4 DEF CompiledFunctions

LEMMA EmitKeeps ==
  ASSUME NEW c, Good(c), NEW bytes \in Seq(CodeByte)
  PROVE  Keeps(c, Emit(bytes, c))
<1> DEFINE old == Current(c)
           fun == Extended(bytes, old.capacity, Grown(bytes, old), old)
<1>1. old \in CompiledFunctions
  BY CurrentIs
<1>2. Emit(bytes, c) = [c EXCEPT !.functions[c.current] = fun]
  BY DEF Emit, Current, Good, Contexts
<1> HIDE DEF old
<1>3. old.capacity \in Nat /\ Grown(bytes, old) \in Nat
  BY <1>1 DEF Grown, CompiledFunctions
<1>4. /\ fun \in CompiledFunctions /\ fun.arity = old.arity
      /\ fun.names = old.names /\ fun.constants = old.constants
  BY <1>1, <1>3, ExtendedIs
<1> HIDE DEF fun
<1> QED
  BY <1>2, <1>4, CodeKeeps DEF old

LEMMA Bytes ==
  /\ <<>> \in Seq(CodeByte)
  /\ \A a \in CodeByte : <<a>> \in Seq(CodeByte)
  /\ \A a, b \in CodeByte : <<a, b>> \in Seq(CodeByte)
  /\ \A a, b, d \in CodeByte : <<a, b, d>> \in Seq(CodeByte)
  OBVIOUS

LEMMA Opcodes ==
  /\ {OP_CONSTANT, OP_CONSTANT_16, OP_DEFINE_GLOBAL, OP_GET_GLOBAL, OP_SET_GLOBAL, OP_GET_LOCAL,
      OP_SET_LOCAL, OP_TRUE, OP_FALSE, OP_NULL} \subseteq CodeByte
  /\ {OP_NEGATE, OP_NOT, OP_ADD, OP_SUBSTRACT, OP_MULTIPLY, OP_DIVIDE, OP_EQ, OP_NE, OP_GT, OP_GTE,
      OP_LT, OP_LTE} \subseteq CodeByte
  /\ {OP_JUMP, OP_JUMP_BACK, OP_JUMP_IF_FALSE, OP_CALL, OP_RETURN, OP_POP} \subseteq CodeByte
  /\ 0 \in CodeByte
<1>1. {OP_CONSTANT, OP_CONSTANT_16, OP_DEFINE_GLOBAL, OP_GET_GLOBAL, OP_SET_GLOBAL, OP_GET_LOCAL,
       OP_SET_LOCAL, OP_TRUE, OP_FALSE, OP_NULL} \subseteq CodeByte
  BY DEF CodeByte, OP_CONSTANT, OP_CONSTANT_16, OP_DEFINE_GLOBAL, OP_GET_GLOBAL, OP_SET_GLOBAL,
         OP_GET_LOCAL, OP_SET_LOCAL, OP_TRUE, OP_FALSE, OP_NULL
<1>2. {OP_NEGATE, OP_NOT, OP_ADD, OP_SUBSTRACT, OP_MULTIPLY, OP_DIVIDE, OP_EQ, OP_NE, OP_GT,
       OP_GTE, OP_LT, OP_LTE} \subseteq CodeByte
  BY DEF CodeByte, OP_NEGATE, OP_NOT, OP_ADD, OP_SUBSTRACT, OP_MULTIPLY, OP_DIVIDE, OP_EQ, OP_NE,
         OP_GT, OP_GTE, OP_LT, OP_LTE
<1>3. {OP_JUMP, OP_JUMP_BACK, OP_JUMP_IF_FALSE, OP_CALL, OP_RETURN, OP_POP} \subseteq CodeByte
  BY DEF CodeByte, OP_JUMP, OP_JUMP_BACK, OP_JUMP_IF_FALSE, OP_CALL, OP_RETURN, OP_POP
<1> QED
  BY <1>1, <1>2, <1>3 DEF CodeByte

\* Whatever the bytes, what the function with one more constant is.
LEMMA WithConstantIs ==
  ASSUME NEW fun \in CompiledFunctions, NEW value \in ConstantValues, NEW bytes \in Seq(CodeByte)
  PROVE  LET more == WithConstant(value, bytes, fun)
         IN  /\ more \in CompiledFunctions /\ more.arity = fun.arity
             /\ more.names = fun.names /\ more.constants = Append(fun.constants, value)
<1> DEFINE grown == [fun EXCEPT !.constants = Append(@, value)]
<1>1. Append(fun.constants, value) \in Seq(ConstantValues)
  BY DEF CompiledFunctions
<1>2. /\ grown \in CompiledFunctions /\ grown.arity = fun.arity
      /\ grown.names = fun.names /\ grown.constants = Append(fun.constants, value)
  BY <1>1 DEF CompiledFunctions
<1>3. fun.capacity \in Nat /\ fun.allocated \in Nat /\ 2 * fun.capacity \in Nat
  BY DEF CompiledFunctions
<1> DEFINE more == WithConstant(value, bytes, fun)
           Typed(f) == /\ f \in CompiledFunctions /\ f.arity = grown.arity
                       /\ f.names = grown.names /\ f.constants = grown.constants
<1>4. \/ more = Extended(bytes, 2 * fun.capacity, 2 * fun.capacity, grown)
      \/ more = Extended(bytes, fun.capacity, fun.allocated, grown)
  BY DEF WithConstant
<1> HIDE DEF grown, more
<1>5. /\ Typed(Extended(bytes, 2 * fun.capacity, 2 * fun.capacity, grown))
      /\ Typed(Extended(bytes, fun.capacity, fun.allocated, grown))
  BY <1>2, <1>3, ExtendedIs
<1> HIDE DEF Typed
<1>6. Typed(more)
  BY <1>4, <1>5, Zenon
<1> QED
  BY <1>2, <1>6 DEF Typed, more

\* A constant that is no function, and one that is.
LEMMA EmitConstantIs ==
  ASSUME NEW c, Good(c), NEW value \in ConstantValues
  PROVE  \E fun \in CompiledFunctions :
           /\ EmitConstant(value, c) = [c EXCEPT !.functions[c.current] = fun]
           /\ fun.arity = Current(c).arity
           /\ ~ c.error => NamesOnly(fun)
           /\ fun.constants = Append(Current(c).constants, value)
<1> DEFINE old   == Current(c)
           index == Len(old.constants)
           bytes == IF index <= 255 THEN <<OP_CONSTANT, index>>
                    ELSE IF index <= 65535 THEN <<OP_CONSTANT_16, index \div 256, index % 256>>
                    ELSE <<>>
           fun   == WithConstant(value, bytes, old)
<1>1. old \in CompiledFunctions /\ old.constants \in Seq(ConstantValues)
  BY CurrentIs DEF CompiledFunctions
<1>2. index \in Nat
  BY <1>1
<1>3. EmitConstant(value, c) = [c EXCEPT !.functions[c.current] = fun]
  BY DEF EmitConstant, Current, Good, Contexts
<1>4. ~ c.error => NamesOnly(old)
  BY DEF Good, Contexts, AllNamed, Current
<1> HIDE DEF old, index
<1>5. bytes \in Seq(CodeByte)
  <2>1. CASE index <= 255
    <3>1. index \in CodeByte
      BY <1>2, <2>1 DEF CodeByte
    <3> QED
      BY <2>1, <3>1, Bytes, Opcodes
  <2>2. CASE index > 255 /\ index <= 65535
    <3>1. index \div 256 \in CodeByte /\ index % 256 \in CodeByte
      BY <1>2, <2>2 DEF CodeByte
    <3>2. bytes = <<OP_CONSTANT_16, index \div 256, index % 256>>
      BY <1>2, <2>2
    <3> QED
      BY <3>1, <3>2, Bytes, Opcodes
  <2>3. CASE index > 65535
    <3>1. bytes = <<>>
      BY <1>2, <2>3
    <3> QED
      BY <3>1, Bytes
  <2> QED
    BY <1>2, <2>1, <2>2, <2>3
<1> HIDE DEF bytes
<1>6. /\ fun \in CompiledFunctions /\ fun.arity = old.arity
      /\ fun.names = old.names /\ fun.constants = Append(old.constants, value)
  BY <1>1, <1>5, WithConstantIs
<1> HIDE DEF fun
<1>7. ~ c.error => NamesOnly(fun)
  BY <1>4, <1>6 DEF NamesOnly
<1> QED
  BY <1>3, <1>6, <1>7 DEF old

LEMMA AppendOwns ==
  ASSUME NEW fun \in CompiledFunctions, NEW value \in ConstantValues, NEW other,
         other.constants = Append(fun.constants, value)
  PROVE  \A k, g : Owns(other, k, g) <=>
           \/ Owns(fun, k, g)
           \/ k = Len(fun.constants) + 1 /\ value.type = "function" /\ g = value.fn
<1>1. fun.constants \in Seq(ConstantValues) /\ Len(fun.constants) \in Nat
  BY DEF CompiledFunctions
<1>2. DOMAIN Append(fun.constants, value) = 1 .. Len(fun.constants) + 1
      /\ DOMAIN fun.constants = 1 .. Len(fun.constants)
      /\ \A k \in 1 .. Len(fun.constants) : Append(fun.constants, value)[k] = fun.constants[k]
      /\ Append(fun.constants, value)[Len(fun.constants) + 1] = value
  BY <1>1, AppendProperties
<1> DEFINE n == Len(fun.constants)
           more == Append(fun.constants, value)
<1> HIDE DEF n, more
<1>3. \A k : k \in 1 .. n + 1 <=> k \in 1 .. n \/ k = n + 1
  BY <1>1 DEF n
<1>4. n + 1 \notin 1 .. n
  BY <1>1 DEF n
<1> QED
  BY <1>2, <1>3, <1>4 DEF n, more, Owns, FunctionsIn

LEMMA EmitConstantKeeps ==
  ASSUME NEW c, Good(c), NEW value \in ConstantValues, value.type # "function"
  PROVE  Keeps(c, EmitConstant(value, c))
<1>1. PICK fun \in CompiledFunctions :
        /\ EmitConstant(value, c) = [c EXCEPT !.functions[c.current] = fun]
        /\ fun.arity = Current(c).arity
        /\ ~ c.error => NamesOnly(fun)
        /\ fun.constants = Append(Current(c).constants, value)
  BY EmitConstantIs
<1>2. Current(c) \in CompiledFunctions
  BY CurrentIs
<1>3. \A k, g : Owns(fun, k, g) <=> Owns(Current(c), k, g)
  BY <1>1, <1>2, AppendOwns
<1> QED
  BY <1>1, <1>3, FunctionKeeps

GainsFunction(c, e, g) ==
  /\ Good(e)
  /\ e.current = c.current /\ Len(e.functions) = Len(c.functions)
  /\ e.scope_depth = c.scope_depth /\ e.loop_depth = c.loop_depth
  /\ c.error => e.error
  /\ \E k : Made(e.functions) = Made(c.functions) \cup {[fn |-> g, in |-> c.current, at |-> k]}

LEMMA EmitFunctionIs ==
  ASSUME NEW c, Good(c), NEW g \in Nat
  PROVE  GainsFunction(c, EmitConstant([type |-> "function", fn |-> g], c), g)
<1> DEFINE value == [type |-> "function", fn |-> g]
           k == Len(Current(c).constants) + 1
           p == [fn |-> g, in |-> c.current, at |-> k]
<1>1. value \in ConstantValues /\ value.type = "function" /\ value.fn = g
  BY DEF ConstantValues
<1> HIDE DEF value
<1>2. PICK fun \in CompiledFunctions :
        /\ EmitConstant(value, c) = [c EXCEPT !.functions[c.current] = fun]
        /\ fun.arity = Current(c).arity
        /\ ~ c.error => NamesOnly(fun)
        /\ fun.constants = Append(Current(c).constants, value)
  BY <1>1, EmitConstantIs
<1> DEFINE d == [c EXCEPT !.functions[c.current] = fun]
<1>3. Current(c) \in CompiledFunctions
  BY CurrentIs
<1>4. \A j, h : Owns(fun, j, h) <=> Owns(Current(c), j, h) \/ (j = k /\ h = g)
  BY <1>1, <1>2, <1>3, AppendOwns
<1>5. /\ Good(d)
      /\ d.current = c.current /\ Len(d.functions) = Len(c.functions)
      /\ d.scope_depth = c.scope_depth /\ d.loop_depth = c.loop_depth
      /\ d.error = c.error
  BY <1>2, FunctionIs
<1>6. /\ DOMAIN d.functions = DOMAIN c.functions
      /\ \A i \in DOMAIN c.functions : d.functions[i] = IF i = c.current THEN fun ELSE c.functions[i]
      /\ c.current \in DOMAIN c.functions
  BY MadeWith DEF Good, Contexts
<1> HIDE DEF d, k
<1>7. \A i \in DOMAIN c.functions : \A j, h :
        Owns(d.functions[i], j, h) <=>
          Owns(c.functions[i], j, h) \/ (i = c.current /\ j = k /\ h = g)
  BY <1>4, <1>6 DEF Current
<1>8. Made(d.functions) = Made(c.functions) \cup {p}
  <2>1. ASSUME NEW q PROVE q \in Made(d.functions) <=> q \in Made(c.functions) \/ q = p
    <3>1. q \in Made(d.functions) <=>
            \E i \in DOMAIN c.functions : \E j, h :
              Owns(d.functions[i], j, h) /\ q = [fn |-> h, in |-> i, at |-> j]
      BY <1>6, MadeIs
    <3>2. q \in Made(c.functions) <=>
            \E i \in DOMAIN c.functions : \E j, h :
              Owns(c.functions[i], j, h) /\ q = [fn |-> h, in |-> i, at |-> j]
      BY MadeIs
    <3>3. ASSUME q \in Made(d.functions), q \notin Made(c.functions) PROVE q = p
      <4>1. PICK i, j, h :
              /\ i \in DOMAIN c.functions
              /\ Owns(d.functions[i], j, h) /\ q = [fn |-> h, in |-> i, at |-> j]
        BY <3>1, <3>3, Zenon
      <4>2. ~ Owns(c.functions[i], j, h)
        BY <3>2, <3>3, <4>1, Zenon
      <4>3. i = c.current /\ j = k /\ h = g
        BY <1>7, <4>1, <4>2, Zenon
      <4> QED
        BY <4>1, <4>3
    <3>4. ASSUME q = p PROVE q \in Made(d.functions)
      <4>1. Owns(d.functions[c.current], k, g)
        BY <1>6, <1>7, Zenon
      <4> QED
        BY <1>6, <3>1, <3>4, <4>1, Zenon
    <3>5. ASSUME q \in Made(c.functions) PROVE q \in Made(d.functions)
      BY <1>7, <3>1, <3>2, <3>5, Zenon
    <3> QED
      BY <3>3, <3>4, <3>5, Zenon
  <2> HIDE DEF p
  <2> QED
    BY <2>1
<1> DEFINE e == EmitConstant(value, c)
<1>9. e = d
  BY <1>2 DEF d
<1> HIDE DEF e
<1>10. /\ Good(e)
       /\ e.current = c.current /\ Len(e.functions) = Len(c.functions)
       /\ e.scope_depth = c.scope_depth /\ e.loop_depth = c.loop_depth
       /\ c.error => e.error
       /\ Made(e.functions) = Made(c.functions) \cup {p}
  BY <1>5, <1>8, <1>9
<1>11. GainsFunction(c, e, g)
  BY <1>10 DEF GainsFunction, p
<1> QED
  BY <1>11 DEF e, value

LEMMA EmitJumpKeeps ==
  ASSUME NEW c, Good(c), NEW op \in CodeByte
  PROVE  Keeps(c, EmitJump(op, c))
<1>1. <<op, 0, 0>> \in Seq(CodeByte)
  BY Bytes, Opcodes
<1> QED
  BY <1>1, EmitKeeps DEF EmitJump

LEMMA LengthBytes ==
  ASSUME NEW length \in Int PROVE HighByte(length) \in CodeByte /\ LowByte(length) \in CodeByte
  BY DEF HighByte, LowByte, CodeByte

LEMMA ByteWritten ==
  ASSUME NEW code \in Seq(CodeByte), NEW k \in Int, NEW byte \in CodeByte
  PROVE  [code EXCEPT ![k] = byte] \in Seq(CodeByte)
<1> DEFINE n == Len(code)
           written == [i \in 1 .. n |-> IF i = k THEN byte ELSE code[i]]
<1>1. n \in Nat /\ code \in [1 .. n -> CodeByte]
  OBVIOUS
<1> HIDE DEF n
<1>2. [code EXCEPT ![k] = byte] = written
  BY <1>1
<1>3. written \in [1 .. n -> CodeByte]
  BY <1>1
<1> HIDE DEF written
<1>4. written \in Seq(CodeByte)
  BY <1>1, <1>3
<1> QED
  BY <1>2, <1>4

LEMMA UpdateJumpKeeps ==
  ASSUME NEW c, Good(c), NEW index \in Int, NEW length \in Int
  PROVE  Keeps(c, UpdateJump(index, length, c))
<1> DEFINE old     == Current(c)
           code    == [old.code EXCEPT ![index + 2] = HighByte(length), ![index + 3] = LowByte(length)]
           overrun == old.overrun \/ Reaches(index, old)
           fun     == [old EXCEPT !.code = code, !.overrun = overrun]
<1>1. old \in CompiledFunctions /\ old.code \in Seq(CodeByte)
  BY CurrentIs DEF CompiledFunctions
<1>2. UpdateJump(index, length, c) = [c EXCEPT !.functions[c.current] = fun]
  BY DEF UpdateJump, Updated, Current, Good, Contexts
<1> HIDE DEF old
<1>3. code \in Seq(CodeByte)
  <2>1. HighByte(length) \in CodeByte /\ LowByte(length) \in CodeByte
    BY LengthBytes
  <2>2. [old.code EXCEPT ![index + 2] = HighByte(length)] \in Seq(CodeByte)
    BY <1>1, <2>1, ByteWritten
  <2> QED
    BY <2>1, <2>2, ByteWritten
<1>4. overrun \in BOOLEAN
  OBVIOUS
<1> HIDE DEF code, overrun
<1>5. /\ fun \in CompiledFunctions /\ fun.arity = old.arity
      /\ fun.names = old.names /\ fun.constants = old.constants
  BY <1>1, <1>3, <1>4 DEF CompiledFunctions
<1> HIDE DEF fun
<1> QED
  BY <1>2, <1>5, CodeKeeps DEF old

-----------------------------------------------------------------------------
\* A bounded set of numbers has a greatest one.
LEMMA GreatestNumber ==
  ASSUME NEW n \in Nat, NEW S \in SUBSET (1 .. n), S # {}
  PROVE  \E m \in S : \A k \in S : k <= m
<1> DEFINE T == {m .. n : m \in S}
           R == StrictSubsetOrdering(Nat)
<1>1. T \subseteq FiniteSubsetsOf(Nat)
  <2> SUFFICES ASSUME NEW m \in S PROVE m .. n \in FiniteSubsetsOf(Nat)
    OBVIOUS
  <2>1. IsFiniteSet(m .. n)
    BY FS_Interval
  <2> QED
    BY <2>1 DEF FiniteSubsetsOf
<1>2. T # {}
  OBVIOUS
<1>3. PICK I \in T : \A J \in T : ~ (<<J, I>> \in R)
  <2>1. IsWellFoundedOn(R, FiniteSubsetsOf(Nat))
    BY FS_StrictSubsetOrderingWellFounded
  <2> HIDE DEF T, R
  <2> QED
    BY <1>1, <1>2, <2>1, WFMin, Zenon
<1>4. PICK m \in S : I = m .. n
  OBVIOUS
<1>5. ASSUME NEW k \in S, k > m PROVE FALSE
  <2>1. (k .. n) \in T /\ (k .. n) \subseteq I /\ (k .. n) # I
    BY <1>4, <1>5
  <2>2. <<k .. n, I>> \in R
    BY <1>1, <2>1 DEF StrictSubsetOrdering
  <2> QED
    BY <1>3, <2>1, <2>2
<1> QED
  BY <1>5

\* A set of numbers from one on has a least one.
LEMMA LeastPlace ==
  ASSUME NEW n \in Nat, NEW S, S \subseteq 1 .. n, S # {}
  PROVE  \E m \in S : \A k \in S : m <= k
<1> DEFINE T == {n + 1 - i : i \in S}
<1>1. T \in SUBSET (1 .. n) /\ T # {}
  <2>1. \A i \in S : n + 1 - i \in 1 .. n
    OBVIOUS
  <2> QED
    BY <2>1
<1>2. PICK m \in T : \A k \in T : k <= m
  <2> HIDE DEF T
  <2> QED
    BY <1>1, GreatestNumber
<1>3. \A i \in S : i \in Int /\ n + 1 - i <= m
  BY <1>2
<1> QED
  BY <1>2, <1>3

LEMMA RemainingIs ==
  ASSUME NEW S, NEW entries \in Seq(S), NEW to
  PROVE  Remaining(entries, to) \in 0 .. Len(entries)
<1> DEFINE stops == {i \in DOMAIN entries : entries[i].depth <= to}
<1>1. CASE stops = {}
  BY <1>1 DEF Remaining
<1>2. CASE stops # {}
  <2>1. stops \in SUBSET (1 .. Len(entries)) /\ Len(entries) \in Nat
    OBVIOUS
  <2> DEFINE last == CHOOSE i \in stops : \A j \in stops : j <= i
  <2>2. Remaining(entries, to) = last
    BY <1>2 DEF Remaining
  <2> HIDE DEF stops
  <2>3. \E i \in stops : \A j \in stops : j <= i
    BY <1>2, <2>1, GreatestNumber
  <2>4. last \in stops
    BY <2>3, Zenon
  <2> HIDE DEF last
  <2> QED
    BY <2>1, <2>2, <2>4
<1> QED
  BY <1>1, <1>2

LEMMA PopScopesKeeps ==
  ASSUME NEW c, Good(c), NEW to
  PROVE  Keeps(c, PopScopes(to, c)) /\ PopScopes(to, c).locals = c.locals
<1> DEFINE n == Len(c.locals) - Remaining(c.locals, to)
           pops == [i \in 1 .. n |-> OP_POP]
<1>1. n \in Nat
  <2>1. c.locals \in Seq(CompilerLocals)
    BY DEF Good, Contexts
  <2>2. Remaining(c.locals, to) \in 0 .. Len(c.locals)
    BY <2>1, RemainingIs
  <2> QED
    BY <2>1, <2>2
<1> HIDE DEF n
<1>2. pops \in Seq(CodeByte)
  BY <1>1, Opcodes
<1>3. PopScopes(to, c) = Emit(pops, c)
  BY DEF PopScopes, n
<1> HIDE DEF pops
<1>4. Emit(pops, c).locals = c.locals
  BY DEF Emit, Good, Contexts
<1> QED
  BY <1>2, <1>3, <1>4, EmitKeeps

LEMMA LocalsKeep ==
  ASSUME NEW c, Good(c), NEW locals \in Seq(CompilerLocals)
  PROVE  Keeps(c, [c EXCEPT !.locals = locals])
  BY DEF Keeps, Good, Contexts

\* What a context is with other depths.
LEMMA ScopeDepthIs ==
  ASSUME NEW c, Good(c), NEW depth \in Nat
  PROVE  /\ Good([c EXCEPT !.scope_depth = depth])
         /\ [c EXCEPT !.scope_depth = depth].scope_depth = depth
  BY DEF Good, Contexts

LEMMA LoopDepthIs ==
  ASSUME NEW c, Good(c), NEW loop \in Depths
  PROVE  LET d == [c EXCEPT !.loop_depth = loop]
         IN  /\ Good(d) /\ d.loop_depth = loop
             /\ d.scope_depth = c.scope_depth /\ d.current = c.current
             /\ d.functions = c.functions /\ d.error = c.error
  BY DEF Good, Contexts

LEMMA ScopeBeginIs ==
  ASSUME NEW c, Good(c)
  PROVE  /\ Good(ScopeBegin(c))
         /\ ScopeBegin(c).scope_depth = c.scope_depth + 1
         /\ ScopeBegin(c).loop_depth = c.loop_depth /\ ScopeBegin(c).current = c.current
         /\ ScopeBegin(c).functions = c.functions /\ ScopeBegin(c).error = c.error
<1>1. c.scope_depth + 1 \in Nat
  BY DEF Good, Contexts
<1> QED
  BY <1>1 DEF ScopeBegin, Good, Contexts

LEMMA ScopeEndIs ==
  ASSUME NEW c, Good(c), c.scope_depth > 0
  PROVE  /\ Good(ScopeEnd(c))
         /\ ScopeEnd(c).scope_depth = c.scope_depth - 1
         /\ ScopeEnd(c).loop_depth = c.loop_depth /\ ScopeEnd(c).current = c.current
         /\ Len(ScopeEnd(c).functions) = Len(c.functions)
         /\ Made(ScopeEnd(c).functions) = Made(c.functions)
         /\ c.error => ScopeEnd(c).error
<1> DEFINE to == c.scope_depth - 1
           d == PopScopes(to, c)
           locals == SubSeq(d.locals, 1, Remaining(d.locals, to))
<1>1. to \in Nat
  BY DEF Good, Contexts
<1>2. Keeps(c, d)
  BY PopScopesKeeps
<1>3. ScopeEnd(c) = [d EXCEPT !.scope_depth = to, !.locals = locals]
  BY DEF ScopeEnd
<1> HIDE DEF d
<1>4. locals \in Seq(CompilerLocals)
  <2>1. d.locals \in Seq(CompilerLocals)
    BY <1>2 DEF Keeps, Good, Contexts
  <2>2. Remaining(d.locals, to) \in 0 .. Len(d.locals)
    BY <2>1, RemainingIs
  <2> QED
    BY <2>1, <2>2
<1> HIDE DEF locals, to
<1> DEFINE e == [d EXCEPT !.scope_depth = to]
<1>5. Good(e) /\ e.scope_depth = to
  BY <1>1, <1>2, ScopeDepthIs DEF Keeps
<1>6. [d EXCEPT !.scope_depth = to, !.locals = locals] = [e EXCEPT !.locals = locals]
  BY <1>2 DEF Keeps, Good, Contexts
<1>7. /\ e.loop_depth = d.loop_depth /\ e.current = d.current /\ e.functions = d.functions
      /\ e.error = d.error
  BY <1>2 DEF Keeps, Good, Contexts
<1>8. Keeps(e, [e EXCEPT !.locals = locals])
  <2> HIDE DEF e
  <2> QED
    BY <1>4, <1>5, LocalsKeep
<1> HIDE DEF e
<1> QED
  BY <1>2, <1>3, <1>5, <1>6, <1>7, <1>8 DEF Keeps, to

LEMMA IdentifierIs ==
  ASSUME NEW c, Good(c), NEW declaration \in BOOLEAN
  PROVE  /\ Keeps(c, Identifier(declaration, c).to)
         /\ Id(Identifier(declaration, c)) \in Ids
<1> DEFINE i == Identifier(declaration, c)
           d == Consume("identifier", c)
           known == Locals(c.token, c)
           last == CHOOSE k \in known : \A j \in known : j <= k
<1>1. Keeps(c, d)
  BY ConsumeKeeps
<1>2. /\ c.token \in AllTokens /\ c.scope_depth \in Nat
      /\ c.locals \in Seq(CompilerLocals) /\ c.functions \in Seq(CompiledFunctions)
  BY DEF Good, Contexts
<1>3. ASSUME i.index \in Nat, i.scope \in {"local", "global"} PROVE Id(i) \in Ids
  <2>1. i.index % 256 \in CodeByte
    BY <1>3 DEF CodeByte
  <2> QED
    BY <1>3, <2>1 DEF Id, Ids
<1>4. CASE c.scope_depth > 0 /\ declaration
  <2> DEFINE local == [name |-> c.token, depth |-> c.scope_depth]
             locals == Append(d.locals, local)
  <2>1. i = [to |-> [d EXCEPT !.locals = locals], scope |-> "local", index |-> Len(c.locals)]
    BY <1>4 DEF Identifier
  <2>2. locals \in Seq(CompilerLocals)
    <3>1. d.locals \in Seq(CompilerLocals)
      BY <1>1 DEF Keeps, Good, Contexts
    <3>2. local \in CompilerLocals
      BY <1>2 DEF CompilerLocals
    <3> QED
      BY <3>1, <3>2
  <2> HIDE DEF locals, d, i
  <2>3. Keeps(d, [d EXCEPT !.locals = locals])
    BY <1>1, <2>2, LocalsKeep DEF Keeps
  <2>4. Keeps(c, [d EXCEPT !.locals = locals])
    BY <1>1, <2>3, KeepsOn
  <2>5. i.to = [d EXCEPT !.locals = locals] /\ i.scope = "local" /\ i.index \in Nat
    BY <1>2, <2>1
  <2> QED
    BY <1>3, <2>4, <2>5 DEF i
<1>5. CASE c.scope_depth > 0 /\ ~ declaration /\ known # {}
  <2>1. i = [to |-> d, scope |-> "local", index |-> last - 1]
    BY <1>5 DEF Identifier
  <2>2. known \in SUBSET (1 .. Len(c.locals)) /\ Len(c.locals) \in Nat
    BY <1>2 DEF Locals
  <2> HIDE DEF known, d, i
  <2>3. last \in known
    <3>1. \E k \in known : \A j \in known : j <= k
      BY <1>5, <2>2, GreatestNumber
    <3> QED
      BY <3>1, Zenon
  <2> HIDE DEF last
  <2>4. last - 1 \in Nat
    BY <2>2, <2>3
  <2>5. i.to = d /\ i.scope = "local" /\ i.index \in Nat
    BY <2>1, <2>4
  <2> QED
    BY <1>1, <1>3, <2>5 DEF i
<1>6. CASE ~ (c.scope_depth > 0 /\ declaration) /\ ~ (c.scope_depth > 0 /\ known # {})
  <2> DEFINE fun == [Current(d) EXCEPT !.names = Append(@, c.token)]
             e == [d EXCEPT !.functions[d.current] = fun]
  <2>1. i = [to |-> [d EXCEPT !.functions[d.current].names = Append(@, c.token)],
             scope |-> "global", index |-> Len(Current(c).names)]
    BY <1>6 DEF Identifier
  <2> HIDE DEF d, i
  <2>2. [d EXCEPT !.functions[d.current].names = Append(@, c.token)] = e
    BY <1>1 DEF Keeps, Good, Contexts, Current
  <2>3. /\ fun \in CompiledFunctions /\ fun.arity = Current(d).arity
        /\ fun.names = Append(Current(d).names, c.token) /\ fun.constants = Current(d).constants
        /\ Current(d).names \in Seq(AllTokens)
    <3>1. Current(d) \in CompiledFunctions
      BY <1>1, CurrentIs DEF Keeps
    <3>2. Append(Current(d).names, c.token) \in Seq(AllTokens)
      BY <1>2, <3>1 DEF CompiledFunctions
    <3> QED
      BY <3>1, <3>2 DEF CompiledFunctions
  <2> HIDE DEF fun
  <2>8. ~ d.error => NamesOnly(fun)
    <3> SUFFICES ASSUME ~ d.error PROVE NamesOnly(fun)
      OBVIOUS
    <3>1. TypeOf(c.token) = "identifier"
      BY <1>1, TokenConsumed DEF d, Is
    <3>2. NamesOnly(Current(d))
      BY <1>1 DEF Keeps, Good, Contexts, AllNamed, Current
    <3>3. \A k \in DOMAIN fun.names :
            \/ k \in DOMAIN Current(d).names /\ fun.names[k] = Current(d).names[k]
            \/ fun.names[k] = c.token
      BY <1>2, <2>3
    <3> QED
      BY <3>1, <3>2, <3>3 DEF NamesOnly
  <2>4. Keeps(d, e)
    BY <1>1, <2>3, <2>8, ConstantsOwn, FunctionKeeps DEF Keeps
  <2>5. Keeps(c, e)
    BY <1>1, <2>4, KeepsOn
  <2>6. Len(Current(c).names) \in Nat
    <3>1. Current(c).names \in Seq(AllTokens)
      BY CurrentIs DEF CompiledFunctions
    <3> QED
      BY <3>1
  <2> HIDE DEF e
  <2>7. i.to = e /\ i.scope = "global" /\ i.index \in Nat
    BY <2>1, <2>2, <2>6
  <2> QED
    BY <1>3, <2>5, <2>7 DEF i
<1> QED
  BY <1>4, <1>5, <1>6

LEMMA IdBytes ==
  ASSUME NEW id \in Ids
  PROVE  /\ GetOf(id) \in Seq(CodeByte) /\ SetOf(id) \in Seq(CodeByte)
         /\ <<OP_DEFINE_GLOBAL, id.index>> \in Seq(CodeByte)
<1>1. id.index \in CodeByte
  BY DEF Ids
<1> QED
  BY <1>1, Bytes, Opcodes DEF GetOf, SetOf

LEMMA DefineKeeps ==
  ASSUME NEW c, Good(c), NEW id \in Ids
  PROVE  Keeps(c, Define(id, c))
  BY IdBytes, EmitKeeps, KeepsItself DEF Define

LEMMA SynchronizedKeeps ==
  ASSUME NEW c, Good(c)
  PROVE  Keeps(c, Synchronized(c))
<1> DEFINE rest  == <<c.token>> \o c.input
           stops == {i \in DOMAIN rest : rest[i] \in SyncTokens \cup {";", "eof"}}
           stop  == CHOOSE i \in stops : \A j \in stops : i <= j
           calm  == [c EXCEPT !.panic = FALSE]
           there == [calm EXCEPT !.token = rest[stop],
                                 !.input = SubSeq(rest, stop + 1, Len(rest))]
<1>1. rest \in Seq(AllTokens)
  BY DEF Good, Contexts
<1>2. Keeps(c, calm)
  BY DEF Keeps, Good, Contexts
<1>3. CASE stops = {}
  <2>1. Synchronized(c) = [calm EXCEPT !.token = "eof", !.input = <<>>]
    BY <1>3 DEF Synchronized
  <2> HIDE DEF calm
  <2>2. Keeps(calm, [calm EXCEPT !.token = "eof", !.input = <<>>])
    <3>1. <<>> \in Seq(AllTokens)
      OBVIOUS
    <3> QED
      BY <1>2, <3>1, SomeTokens, InputKeeps DEF Keeps
  <2> QED
    BY <1>2, <2>1, <2>2, KeepsOn
<1>4. CASE stops # {}
  <2>1. Synchronized(c) = IF rest[stop] = ";" THEN Advance(there) ELSE there
    BY <1>4 DEF Synchronized
  <2> HIDE DEF rest, calm
  <2>2. stops \subseteq 1 .. Len(rest) /\ Len(rest) \in Nat
    <3>1. stops \subseteq DOMAIN rest
      OBVIOUS
    <3> HIDE DEF stops
    <3> QED
      BY <1>1, <3>1
  <2>3. stop \in stops
    <3> HIDE DEF stops
    <3>1. \E i \in stops : \A j \in stops : i <= j
      BY <1>4, <2>2, LeastPlace
    <3> QED
      BY <3>1, Zenon
  <2> HIDE DEF stop, stops
  <2>4. rest[stop] \in AllTokens /\ SubSeq(rest, stop + 1, Len(rest)) \in Seq(AllTokens)
    BY <1>1, <2>2, <2>3
  <2>5. Keeps(calm, there)
    BY <1>2, <2>4, InputKeeps DEF Keeps
  <2> HIDE DEF there
  <2>6. Keeps(c, there)
    BY <1>2, <2>5, KeepsOn
  <2>7. Keeps(c, Advance(there))
    BY <2>6, AdvanceKeeps, KeepsOn DEF Keeps
  <2> QED
    BY <2>1, <2>6, <2>7
<1> QED
  BY <1>3, <1>4

JumpUpdates == [index : Nat, length : Int]

LEMMA PatchedIs ==
  ASSUME NEW fun \in CompiledFunctions, NEW updates \in Seq(JumpUpdates)
  PROVE  LET more == Patched(fun, updates)
         IN  /\ more \in CompiledFunctions /\ more.arity = fun.arity
             /\ more.names = fun.names /\ more.constants = fun.constants
<1> DEFINE code == fun.code
           n == Len(code)
           Writers(k) == {j \in DOMAIN updates : updates[j].index + 2 \in {k - 1, k}}
           Update(k) == updates[CHOOSE j \in Writers(k) : \A i \in Writers(k) : j <= i]
<1>1. ASSUME NEW k \in 1 .. n, Writers(k) # {}
      PROVE  HighByte(Update(k).length) \in CodeByte /\ LowByte(Update(k).length) \in CodeByte
  <2> DEFINE W == Writers(k)
             j == CHOOSE j \in W : \A i \in W : j <= i
  <2>1. W \subseteq 1 .. Len(updates) /\ Len(updates) \in Nat
    OBVIOUS
  <2>2. W # {}
    BY <1>1
  <2>3. Update(k) = updates[j]
    OBVIOUS
  <2> HIDE DEF W, Update
  <2>4. j \in W
    <3>1. \E m \in W : \A i \in W : m <= i
      BY <2>1, <2>2, LeastPlace
    <3> QED
      BY <3>1, Zenon
  <2> HIDE DEF j
  <2>5. updates[j] \in JumpUpdates
    BY <2>1, <2>4
  <2>6. Update(k).length \in Int
    BY <2>3, <2>5 DEF JumpUpdates
  <2> QED
    BY <2>6, LengthBytes
<1> DEFINE patched == [k \in 1 .. n |-> IF Writers(k) = {} THEN code[k]
                                       ELSE IF Update(k).index + 2 = k THEN HighByte(Update(k).length)
                                            ELSE LowByte(Update(k).length)]
           overrun == fun.overrun \/ \E j \in DOMAIN updates : Reaches(updates[j].index, fun)
<1>2. /\ code \in Seq(CodeByte) /\ DOMAIN code = 1 .. n
      /\ n \in Nat /\ \A k \in 1 .. n : code[k] \in CodeByte
  BY DEF CompiledFunctions
<1>3. Patched(fun, updates) = [fun EXCEPT !.code = patched, !.overrun = overrun]
  BY <1>2 DEF Patched
<1>4. overrun \in BOOLEAN
  OBVIOUS
<1> HIDE DEF Writers, Update, n, code, overrun
<1>5. patched \in [1 .. n -> CodeByte]
  BY <1>1, <1>2
<1> HIDE DEF patched
<1>6. patched \in Seq(CodeByte)
  BY <1>2, <1>5
<1> QED
  BY <1>3, <1>4, <1>6 DEF CompiledFunctions

LEMMA ResolveKeeps ==
  ASSUME NEW c, Good(c), NEW start \in Int, NEW end \in Int
  PROVE  Keeps(c, ResolveLoopJumps(start, end, c))
<1> DEFINE continues == Remaining(c.continue_jumps, c.scope_depth)
           breaks    == Remaining(c.break_jumps, c.scope_depth)
           out   == [j \in 1 .. Len(c.break_jumps) - breaks |->
                       [index |-> c.break_jumps[breaks + j].index,
                        length |-> end - c.break_jumps[breaks + j].pos]]
           again == [j \in 1 .. Len(c.continue_jumps) - continues |->
                       [index |-> c.continue_jumps[continues + j].index,
                        length |-> c.continue_jumps[continues + j].pos - start]]
           fun == Patched(Current(c), out \o again)
           kept_continues == SubSeq(c.continue_jumps, 1, continues)
           kept_breaks    == SubSeq(c.break_jumps, 1, breaks)
           d == [c EXCEPT !.functions[c.current] = fun]
<1>1. c.break_jumps \in Seq(PendingJump) /\ c.continue_jumps \in Seq(PendingJump)
  BY DEF Good, Contexts
<1>2. continues \in 0 .. Len(c.continue_jumps) /\ breaks \in 0 .. Len(c.break_jumps)
  BY <1>1, RemainingIs
<1>3. ResolveLoopJumps(start, end, c) =
        [d EXCEPT !.continue_jumps = kept_continues, !.break_jumps = kept_breaks]
  BY DEF ResolveLoopJumps, Current, Good, Contexts
<1> HIDE DEF continues, breaks
<1>4. kept_continues \in Seq(PendingJump) /\ kept_breaks \in Seq(PendingJump)
  BY <1>1, <1>2
<1>5. out \in Seq(JumpUpdates)
  <2> DEFINE n == Len(c.break_jumps) - breaks
  <2>1. n \in Nat /\ \A j \in 1 .. n : breaks + j \in 1 .. Len(c.break_jumps)
    BY <1>1, <1>2
  <2>2. \A j \in 1 .. n : c.break_jumps[breaks + j] \in PendingJump
    BY <1>1, <2>1
  <2> HIDE DEF n
  <2>3. \A j \in 1 .. n :
          [index |-> c.break_jumps[breaks + j].index,
           length |-> end - c.break_jumps[breaks + j].pos] \in JumpUpdates
    BY <2>2 DEF PendingJump, JumpUpdates
  <2> QED
    BY <2>1, <2>3 DEF n
<1>6. again \in Seq(JumpUpdates)
  <2> DEFINE n == Len(c.continue_jumps) - continues
  <2>1. n \in Nat /\ \A j \in 1 .. n : continues + j \in 1 .. Len(c.continue_jumps)
    BY <1>1, <1>2
  <2>2. \A j \in 1 .. n : c.continue_jumps[continues + j] \in PendingJump
    BY <1>1, <2>1
  <2> HIDE DEF n
  <2>3. \A j \in 1 .. n :
          [index |-> c.continue_jumps[continues + j].index,
           length |-> c.continue_jumps[continues + j].pos - start] \in JumpUpdates
    BY <2>2 DEF PendingJump, JumpUpdates
  <2> QED
    BY <2>1, <2>3 DEF n
<1> HIDE DEF out, again, kept_continues, kept_breaks
<1>7. /\ fun \in CompiledFunctions /\ fun.arity = Current(c).arity
      /\ fun.names = Current(c).names /\ fun.constants = Current(c).constants
  <2>1. Current(c) \in CompiledFunctions
    BY CurrentIs
  <2>2. out \o again \in Seq(JumpUpdates)
    BY <1>5, <1>6
  <2> QED
    BY <2>1, <2>2, PatchedIs
<1> HIDE DEF fun
<1>8. Keeps(c, d)
  BY <1>7, CodeKeeps
<1> HIDE DEF d
<1>9. Keeps(d, [d EXCEPT !.continue_jumps = kept_continues, !.break_jumps = kept_breaks])
  BY <1>4, <1>8 DEF Keeps, Good, Contexts
<1> QED
  BY <1>3, <1>8, <1>9, KeepsOn

-----------------------------------------------------------------------------
(***************************************************************************)
(* A task in front of others: what they hold without it, and with it.      *)
(***************************************************************************)
PlainDo == {"declaration", "synchronize", "var", "fn", "{", "statement", "if", "while", "for",
            "break", "continue", "return", "expression statement", "end return", "then",
            "precedence", "infix", "operators", "end var", "assign", "consume",
            "else", "end if", "binary", "unary", "arguments", "argument"}
LoopDo  == {"while body", "end while"}
ForDo   == {"for condition", "for test", "for increment", "for body", "end for"}

LEMMA PlainDoes == ASSUME NEW x \in PlainTasks PROVE x.do \in PlainDo
  BY DEF PlainTasks, PlainDo

LEMMA LoopDoes == ASSUME NEW x \in LoopTasks PROVE x.do \in LoopDo /\ x.outer \in Depths
  BY DEF LoopTasks, LoopDo

LEMMA ForDoes == ASSUME NEW x \in ForTasks PROVE x.do \in ForDo /\ x.outer \in Depths
  BY DEF ForTasks, ForDo

LEMMA FunctionDoes ==
  ASSUME NEW x \in FunctionTasks PROVE x.do = "end fn" /\ x.id \in Ids /\ x.prev \in Nat
  BY DEF FunctionTasks

LEMMA ParametersDo ==
  ASSUME NEW x \in ParameterTasks PROVE x.do = "parameters" /\ x.arity \in Nat
  BY DEF ParameterTasks

\* A task is of the kind its do tells.
LEMMA TaskKinds ==
  ASSUME NEW x \in Tasks
  PROVE  /\ x \in PlainTasks <=> x.do \in PlainDo
         /\ x \in LoopTasks <=> x.do \in LoopDo
         /\ x \in ForTasks <=> x.do \in ForDo
         /\ x \in FunctionTasks <=> x.do = "end fn"
         /\ x \in ParameterTasks <=> x.do = "parameters"
         /\ x.do \in PlainDo \cup LoopDo \cup ForDo \cup {"end fn", "parameters", "program", "block"}
<1>1. \/ x \in PlainTasks /\ x.do \in PlainDo
      \/ x \in LoopTasks /\ x.do \in LoopDo
      \/ x \in ForTasks /\ x.do \in ForDo
      \/ x \in FunctionTasks /\ x.do = "end fn"
      \/ x \in ParameterTasks /\ x.do = "parameters"
      \/ x \in [do : {"program", "block"}]
  BY PlainDoes, LoopDoes, ForDoes, FunctionDoes, ParametersDo DEF Tasks
<1>2. x \in [do : {"program", "block"}] => x.do \in {"program", "block"}
  OBVIOUS
<1>3. /\ PlainDo \cap (LoopDo \cup ForDo \cup {"end fn", "parameters", "program", "block"}) = {}
      /\ LoopDo \cap (ForDo \cup {"end fn", "parameters", "program", "block"}) = {}
      /\ ForDo \cap {"end fn", "parameters", "program", "block"} = {}
  BY DEF PlainDo, LoopDo, ForDo
<1> QED
  BY <1>1, <1>2, <1>3, PlainDoes, LoopDoes, ForDoes, FunctionDoes, ParametersDo

LEMMA PlainHoldsNothing ==
  ASSUME NEW x \in PlainTasks
  PROVE  /\ x \in Tasks /\ x.do # "program" /\ x.do # "parameters"
         /\ ~ Scoped(x) /\ ~ Looping(x) /\ ~ Making(x)
<1>1. x \in Tasks
  BY DEF Tasks
<1>2. x.do \in PlainDo
  BY PlainDoes
<1>3. PlainDo \cap (LoopDo \cup ForDo \cup {"end fn", "parameters", "program", "block"}) = {}
  BY DEF PlainDo, LoopDo, ForDo
<1> QED
  BY <1>1, <1>2, <1>3, TaskKinds DEF Scoped, Looping, Making

LEMMA TaskInFront ==
  ASSUME NEW x \in Tasks, NEW w \in Seq(Tasks)
  PROVE  /\ <<x>> \o w \in Seq(Tasks) /\ <<x>> \o w # <<>>
         /\ Len(<<x>> \o w) = Len(w) + 1
         /\ (<<x>> \o w)[1] = x
         /\ \A i \in 1 .. Len(w) : (<<x>> \o w)[i + 1] = w[i]
         /\ \A i \in 2 .. Len(w) + 1 : (<<x>> \o w)[i] = w[i - 1]
         /\ Head(<<x>> \o w) = x /\ Tail(<<x>> \o w) = w
  OBVIOUS

LEMMA ScopesOf ==
  ASSUME NEW w \in Seq(Tasks)
  PROVE  /\ Scopes(w) \in Nat
         /\ IsFiniteSet({i \in DOMAIN w : Scoped(w[i])})
<1>1. {i \in DOMAIN w : Scoped(w[i])} \subseteq 1 .. Len(w)
  OBVIOUS
<1>2. IsFiniteSet(1 .. Len(w))
  BY FS_Interval
<1> QED
  BY <1>1, <1>2, FS_Subset, FS_CardinalityType DEF Scopes

LEMMA ScopesInFront ==
  ASSUME NEW x \in Tasks, NEW w \in Seq(Tasks)
  PROVE  Scopes(<<x>> \o w) = Scopes(w) + (IF Scoped(x) THEN 1 ELSE 0)
<1> DEFINE u == <<x>> \o w
           S == {i \in DOMAIN w : Scoped(w[i])}
           U == {i \in DOMAIN u : Scoped(u[i])}
           V == {i + 1 : i \in S}
           f == [i \in S |-> i + 1]
<1>1. /\ u \in Seq(Tasks) /\ Len(u) = Len(w) + 1 /\ u[1] = x /\ Len(w) \in Nat
      /\ \A i \in 1 .. Len(w) : u[i + 1] = w[i]
  BY TaskInFront
<1> HIDE DEF u
<1>2. S \subseteq 1 .. Len(w) /\ S \subseteq Int
  OBVIOUS
<1>3. IsFiniteSet(S) /\ Cardinality(S) \in Nat /\ Cardinality(S) = Scopes(w)
  BY ScopesOf DEF Scopes
<1>4. U = V \cup (IF Scoped(x) THEN {1} ELSE {}) /\ 1 \notin V
  <2>1. \A i \in 1 .. Len(w) : i + 1 \in U <=> i \in S
    BY <1>1
  <2>2. 1 \in U <=> Scoped(x)
    BY <1>1
  <2>3. U \subseteq 1 .. Len(w) + 1
    BY <1>1
  <2> HIDE DEF U, S
  <2>4. \A j \in U : j = 1 \/ (j - 1 \in S /\ j = (j - 1) + 1)
    BY <1>1, <2>1, <2>3
  <2>5. \A j \in V : j \in U /\ j # 1
    BY <1>1, <1>2, <2>1
  <2> QED
    BY <1>1, <2>2, <2>4, <2>5
<1> HIDE DEF U, S
<1>5. IsFiniteSet(V) /\ Cardinality(V) = Cardinality(S)
  <2>1. f \in Bijection(S, V)
    <3>0. f \in [S -> V]
      OBVIOUS
    <3>1. f \in Surjection(S, V)
      BY <3>0 DEF Surjection
    <3>2. f \in Injection(S, V)
      <4>1. \A i, j \in S : i + 1 = j + 1 => i = j
        BY <1>2
      <4> QED
        BY <3>0, <4>1 DEF Injection, IsInjective
    <3> QED
      BY <3>1, <3>2 DEF Bijection
  <2>2. ExistsBijection(S, V)
    BY <2>1 DEF ExistsBijection
  <2> HIDE DEF V
  <2> QED
    BY <1>3, <2>2, FS_Bijection
<1> HIDE DEF V
<1>6. Cardinality(U) = Cardinality(V) + (IF Scoped(x) THEN 1 ELSE 0)
  <2>1. Scoped(x) => Cardinality(V \cup {1}) = Cardinality(V) + 1
    BY <1>4, <1>5, FS_AddElement
  <2>2. Cardinality(V) \in Nat
    BY <1>3, <1>5
  <2>3. CASE Scoped(x)
    <3>1. U = V \cup {1}
      BY <1>4, <2>3
    <3> QED
      BY <2>1, <2>2, <2>3, <3>1
  <2>4. CASE ~ Scoped(x)
    <3>1. U = V
      BY <1>4, <2>4
    <3> QED
      BY <2>2, <2>4, <3>1
  <2> QED
    BY <2>3, <2>4
<1> QED
  BY <1>3, <1>5, <1>6 DEF Scopes, U, u

LEMMA MainInFront ==
  ASSUME NEW x \in Tasks, NEW w \in Seq(Tasks), NEW current
  PROVE  BackInMain(<<x>> \o w, current) <=>
           BackInMain(w, IF Making(x) THEN x.prev ELSE current)
<1> DEFINE u == <<x>> \o w
           next == IF Making(x) THEN x.prev ELSE current
<1>1. /\ u \in Seq(Tasks) /\ Len(u) = Len(w) + 1 /\ u[1] = x /\ Len(w) \in Nat
      /\ \A i \in 1 .. Len(w) : u[i + 1] = w[i]
      /\ \A i \in 2 .. Len(w) + 1 : u[i] = w[i - 1]
  BY TaskInFront
<1> HIDE DEF u
<1>2. DOMAIN w = 1 .. Len(w) /\ DOMAIN u = 1 .. Len(w) + 1
  BY <1>1
<1>3. (\A i \in DOMAIN u : ~ Making(u[i])) <=> ~ Making(x) /\ \A i \in DOMAIN w : ~ Making(w[i])
  <2>1. ASSUME \A i \in DOMAIN u : ~ Making(u[i])
        PROVE  ~ Making(x) /\ \A i \in DOMAIN w : ~ Making(w[i])
    <3>1. 1 \in DOMAIN u /\ u[1] = x
      BY <1>1, <1>2
    <3>2. \A i \in DOMAIN w : i + 1 \in DOMAIN u /\ u[i + 1] = w[i]
      BY <1>1, <1>2
    <3> QED
      BY <2>1, <3>1, <3>2
  <2>2. ASSUME ~ Making(x), \A i \in DOMAIN w : ~ Making(w[i]), NEW i \in DOMAIN u
        PROVE  ~ Making(u[i])
    <3>1. i = 1 \/ (i \in 2 .. Len(w) + 1 /\ i - 1 \in 1 .. Len(w))
      BY <1>1, <1>2
    <3> QED
      BY <1>1, <1>2, <2>2, <3>1
  <2> QED
    BY <2>1, <2>2
<1>4. \A i \in 1 .. Len(w) :
        (\A j \in i + 1 .. Len(w) : ~ Making(w[j])) <=>
        (\A j \in i + 2 .. Len(u) : ~ Making(u[j]))
  <2> SUFFICES ASSUME NEW i \in 1 .. Len(w)
               PROVE  (\A j \in i + 1 .. Len(w) : ~ Making(w[j])) <=>
                      (\A j \in i + 2 .. Len(u) : ~ Making(u[j]))
    OBVIOUS
  <2>1. \A j \in i + 1 .. Len(w) : j + 1 \in i + 2 .. Len(u) /\ u[j + 1] = w[j]
    BY <1>1
  <2>2. \A j \in i + 2 .. Len(u) : j - 1 \in i + 1 .. Len(w) /\ u[j] = w[j - 1]
    BY <1>1
  <2> QED
    BY <2>1, <2>2
<1>5. (\A j \in 2 .. Len(u) : ~ Making(u[j])) <=> \A i \in DOMAIN w : ~ Making(w[i])
  <2>1. \A j \in 1 .. Len(w) : j + 1 \in 2 .. Len(u) /\ u[j + 1] = w[j]
    BY <1>1
  <2>2. \A j \in 2 .. Len(u) : j - 1 \in 1 .. Len(w) /\ u[j] = w[j - 1]
    BY <1>1
  <2> QED
    BY <1>2, <2>1, <2>2
<1>6. BackInMain(u, current) =>  BackInMain(w, next)
  <2> SUFFICES ASSUME BackInMain(u, current) PROVE BackInMain(w, next)
    OBVIOUS
  <2>1. ASSUME \A i \in DOMAIN w : ~ Making(w[i]) PROVE next = 1
    <3>1. 1 \in DOMAIN u
      BY <1>1, <1>2
    <3> QED
      BY <1>1, <1>3, <1>5, <2>1, <3>1 DEF BackInMain
  <2>2. ASSUME NEW i \in DOMAIN w, Making(w[i]), \A j \in i + 1 .. Len(w) : ~ Making(w[j])
        PROVE  w[i].prev = 1
    <3>1. i + 1 \in DOMAIN u /\ u[i + 1] = w[i] /\ (i + 1) + 1 = i + 2
      BY <1>1, <1>2
    <3>2. \A j \in (i + 1) + 1 .. Len(u) : ~ Making(u[j])
      BY <1>2, <1>4, <2>2, <3>1
    <3> QED
      BY <2>2, <3>1, <3>2 DEF BackInMain
  <2> QED
    BY <2>1, <2>2 DEF BackInMain
<1>7. BackInMain(w, next) =>  BackInMain(u, current)
  <2> SUFFICES ASSUME BackInMain(w, next) PROVE BackInMain(u, current)
    OBVIOUS
  <2>1. ASSUME \A i \in DOMAIN u : ~ Making(u[i]) PROVE current = 1
    BY <1>3, <2>1 DEF BackInMain
  <2>2. ASSUME NEW i \in DOMAIN u, Making(u[i]), \A j \in i + 1 .. Len(u) : ~ Making(u[j])
        PROVE  u[i].prev = 1
    <3>1. CASE i = 1
      BY <1>1, <1>5, <2>2, <3>1 DEF BackInMain
    <3>2. CASE i # 1
      <4>1. i - 1 \in 1 .. Len(w) /\ u[i] = w[i - 1] /\ (i - 1) + 2 = i + 1
        BY <1>1, <1>2, <3>2
      <4>2. \A j \in (i - 1) + 1 .. Len(w) : ~ Making(w[j])
        BY <1>4, <2>2, <4>1
      <4> QED
        BY <1>2, <2>2, <4>1, <4>2 DEF BackInMain
    <3> QED
      BY <3>1, <3>2
  <2> QED
    BY <2>1, <2>2 DEF BackInMain
<1> QED
  BY <1>6, <1>7 DEF u

LEMMA LoopsInFront ==
  ASSUME NEW x \in Tasks, NEW w \in Seq(Tasks), NEW depth
  PROVE  OutOfLoops(<<x>> \o w, depth) <=>
           OutOfLoops(w, IF Looping(x) THEN x.outer ELSE depth)
<1> DEFINE u == <<x>> \o w
           next == IF Looping(x) THEN x.outer ELSE depth
<1>1. /\ u \in Seq(Tasks) /\ Len(u) = Len(w) + 1 /\ u[1] = x /\ Len(w) \in Nat
      /\ \A i \in 1 .. Len(w) : u[i + 1] = w[i]
      /\ \A i \in 2 .. Len(w) + 1 : u[i] = w[i - 1]
  BY TaskInFront
<1> HIDE DEF u
<1>2. DOMAIN w = 1 .. Len(w) /\ DOMAIN u = 1 .. Len(w) + 1
  BY <1>1
<1>3. (\A i \in DOMAIN u : ~ Looping(u[i])) <=> ~ Looping(x) /\ \A i \in DOMAIN w : ~ Looping(w[i])
  <2>1. ASSUME \A i \in DOMAIN u : ~ Looping(u[i])
        PROVE  ~ Looping(x) /\ \A i \in DOMAIN w : ~ Looping(w[i])
    <3>1. 1 \in DOMAIN u /\ u[1] = x
      BY <1>1, <1>2
    <3>2. \A i \in DOMAIN w : i + 1 \in DOMAIN u /\ u[i + 1] = w[i]
      BY <1>1, <1>2
    <3> QED
      BY <2>1, <3>1, <3>2
  <2>2. ASSUME ~ Looping(x), \A i \in DOMAIN w : ~ Looping(w[i]), NEW i \in DOMAIN u
        PROVE  ~ Looping(u[i])
    <3>1. i = 1 \/ (i \in 2 .. Len(w) + 1 /\ i - 1 \in 1 .. Len(w))
      BY <1>1, <1>2
    <3> QED
      BY <1>1, <1>2, <2>2, <3>1
  <2> QED
    BY <2>1, <2>2
<1>4. \A i \in 1 .. Len(w) :
        (\A j \in i + 1 .. Len(w) : ~ Looping(w[j])) <=>
        (\A j \in i + 2 .. Len(u) : ~ Looping(u[j]))
  <2> SUFFICES ASSUME NEW i \in 1 .. Len(w)
               PROVE  (\A j \in i + 1 .. Len(w) : ~ Looping(w[j])) <=>
                      (\A j \in i + 2 .. Len(u) : ~ Looping(u[j]))
    OBVIOUS
  <2>1. \A j \in i + 1 .. Len(w) : j + 1 \in i + 2 .. Len(u) /\ u[j + 1] = w[j]
    BY <1>1
  <2>2. \A j \in i + 2 .. Len(u) : j - 1 \in i + 1 .. Len(w) /\ u[j] = w[j - 1]
    BY <1>1
  <2> QED
    BY <2>1, <2>2
<1>5. (\A j \in 2 .. Len(u) : ~ Looping(u[j])) <=> \A i \in DOMAIN w : ~ Looping(w[i])
  <2>1. \A j \in 1 .. Len(w) : j + 1 \in 2 .. Len(u) /\ u[j + 1] = w[j]
    BY <1>1
  <2>2. \A j \in 2 .. Len(u) : j - 1 \in 1 .. Len(w) /\ u[j] = w[j - 1]
    BY <1>1
  <2> QED
    BY <1>2, <2>1, <2>2
<1>6. OutOfLoops(u, depth) =>  OutOfLoops(w, next)
  <2> SUFFICES ASSUME OutOfLoops(u, depth) PROVE OutOfLoops(w, next)
    OBVIOUS
  <2>1. ASSUME \A i \in DOMAIN w : ~ Looping(w[i]) PROVE next = -1
    <3>1. 1 \in DOMAIN u
      BY <1>1, <1>2
    <3> QED
      BY <1>1, <1>3, <1>5, <2>1, <3>1 DEF OutOfLoops
  <2>2. ASSUME NEW i \in DOMAIN w, Looping(w[i]), \A j \in i + 1 .. Len(w) : ~ Looping(w[j])
        PROVE  w[i].outer = -1
    <3>1. i + 1 \in DOMAIN u /\ u[i + 1] = w[i] /\ (i + 1) + 1 = i + 2
      BY <1>1, <1>2
    <3>2. \A j \in (i + 1) + 1 .. Len(u) : ~ Looping(u[j])
      BY <1>2, <1>4, <2>2, <3>1
    <3> QED
      BY <2>2, <3>1, <3>2 DEF OutOfLoops
  <2> QED
    BY <2>1, <2>2 DEF OutOfLoops
<1>7. OutOfLoops(w, next) =>  OutOfLoops(u, depth)
  <2> SUFFICES ASSUME OutOfLoops(w, next) PROVE OutOfLoops(u, depth)
    OBVIOUS
  <2>1. ASSUME \A i \in DOMAIN u : ~ Looping(u[i]) PROVE depth = -1
    BY <1>3, <2>1 DEF OutOfLoops
  <2>2. ASSUME NEW i \in DOMAIN u, Looping(u[i]), \A j \in i + 1 .. Len(u) : ~ Looping(u[j])
        PROVE  u[i].outer = -1
    <3>1. CASE i = 1
      BY <1>1, <1>5, <2>2, <3>1 DEF OutOfLoops
    <3>2. CASE i # 1
      <4>1. i - 1 \in 1 .. Len(w) /\ u[i] = w[i - 1] /\ (i - 1) + 2 = i + 1
        BY <1>1, <1>2, <3>2
      <4>2. \A j \in (i - 1) + 1 .. Len(w) : ~ Looping(w[j])
        BY <1>4, <2>2, <4>1
      <4> QED
        BY <1>2, <2>2, <4>1, <4>2 DEF OutOfLoops
    <3> QED
      BY <3>1, <3>2
  <2> QED
    BY <2>1, <2>2 DEF OutOfLoops
<1> QED
  BY <1>6, <1>7 DEF u

\* All at once, for a task that is not the program.
LEMMA HoldsInFront ==
  ASSUME NEW x \in Tasks, x.do # "program", NEW w \in Seq(Tasks), w # <<>>,
         NEW n \in Nat, NEW current, NEW scope \in Nat, NEW loop, NEW error \in BOOLEAN
  PROVE  Holds(<<x>> \o w, n, current, scope, loop, error) <=>
           /\ Making(x) => x.prev \in 1 .. n
           /\ Scoped(x) => scope >= 1
           /\ Holds(w, n, IF Making(x) THEN x.prev ELSE current,
                    IF Scoped(x) THEN scope - 1 ELSE scope,
                    IF Looping(x) THEN x.outer ELSE loop, error)
<1> DEFINE u == <<x>> \o w
           k == IF Making(x) THEN x.prev ELSE current
           s == IF Scoped(x) THEN scope - 1 ELSE scope
           l == IF Looping(x) THEN x.outer ELSE loop
<1>1. /\ u \in Seq(Tasks) /\ u # <<>> /\ Len(u) = Len(w) + 1 /\ u[1] = x /\ Len(w) \in Nat
      /\ \A i \in 1 .. Len(w) : u[i + 1] = w[i]
      /\ \A i \in 2 .. Len(w) + 1 : u[i] = w[i - 1]
  BY TaskInFront
<1>2. BackInMain(u, current) <=> BackInMain(w, k)
  BY MainInFront
<1>3. OutOfLoops(u, loop) <=> OutOfLoops(w, l)
  BY LoopsInFront
<1>4. /\ Scopes(u) = Scopes(w) + (IF Scoped(x) THEN 1 ELSE 0)
      /\ Scopes(w) \in Nat /\ Scopes(u) \in Nat
  BY <1>1, ScopesInFront, ScopesOf
<1> HIDE DEF u
<1>5. DOMAIN w = 1 .. Len(w) /\ DOMAIN u = 1 .. Len(w) + 1 /\ Len(w) >= 1
  BY <1>1
<1>6. (\A i \in DOMAIN u : u[i].do = "program" <=> i = Len(u)) <=>
      (\A i \in DOMAIN w : w[i].do = "program" <=> i = Len(w))
  <2>1. ASSUME \A i \in DOMAIN u : u[i].do = "program" <=> i = Len(u), NEW i \in DOMAIN w
        PROVE  w[i].do = "program" <=> i = Len(w)
    <3>1. i + 1 \in DOMAIN u /\ u[i + 1] = w[i] /\ (i + 1 = Len(u) <=> i = Len(w))
      BY <1>1, <1>5
    <3> QED
      BY <2>1, <3>1
  <2>2. ASSUME \A i \in DOMAIN w : w[i].do = "program" <=> i = Len(w), NEW i \in DOMAIN u
        PROVE  u[i].do = "program" <=> i = Len(u)
    <3>1. CASE i = 1
      BY <1>1, <1>5, <3>1
    <3>2. CASE i # 1
      <4>1. i - 1 \in DOMAIN w /\ u[i] = w[i - 1] /\ (i = Len(u) <=> i - 1 = Len(w))
        BY <1>1, <1>5, <3>2
      <4> QED
        BY <2>2, <4>1
    <3> QED
      BY <3>1, <3>2
  <2> QED
    BY <2>1, <2>2
<1>7. (\A i \in DOMAIN u : Making(u[i]) => u[i].prev \in 1 .. n) <=>
      (Making(x) => x.prev \in 1 .. n) /\ \A i \in DOMAIN w : Making(w[i]) => w[i].prev \in 1 .. n
  <2>1. ASSUME \A i \in DOMAIN u : Making(u[i]) => u[i].prev \in 1 .. n
        PROVE  (Making(x) => x.prev \in 1 .. n)
               /\ \A i \in DOMAIN w : Making(w[i]) => w[i].prev \in 1 .. n
    <3>1. 1 \in DOMAIN u /\ \A i \in DOMAIN w : i + 1 \in DOMAIN u /\ u[i + 1] = w[i]
      BY <1>1, <1>5
    <3> QED
      BY <1>1, <2>1, <3>1
  <2>2. ASSUME Making(x) => x.prev \in 1 .. n,
               \A i \in DOMAIN w : Making(w[i]) => w[i].prev \in 1 .. n, NEW i \in DOMAIN u
        PROVE  Making(u[i]) => u[i].prev \in 1 .. n
    <3>1. (i = 1 /\ u[i] = x) \/ (i - 1 \in DOMAIN w /\ u[i] = w[i - 1])
      BY <1>1, <1>5
    <3> QED
      BY <2>2, <3>1
  <2> QED
    BY <2>1, <2>2
<1>8. (Scopes(u) <= scope <=> (Scoped(x) => scope >= 1) /\ Scopes(w) <= s)
      /\ (Scopes(u) = scope <=> (Scoped(x) => scope >= 1) /\ Scopes(w) = s)
  BY <1>4
<1> HIDE DEF k, s, l
<1> QED
  BY <1>1, <1>2, <1>3, <1>6, <1>7, <1>8 DEF Holds, u, k, s, l

-----------------------------------------------------------------------------
(***************************************************************************)
(* The functions that have not ended, with a task in front.                *)
(***************************************************************************)
LEMMA NestedInFront ==
  ASSUME NEW x \in Tasks, NEW w \in Seq(Tasks), NEW current \in Nat
  PROVE  Nested(<<x>> \o w, current) <=>
           IF Making(x) THEN x.prev < current /\ Nested(w, x.prev) ELSE Nested(w, current)
<1> DEFINE u == <<x>> \o w
           Behind(v, i) == \A j \in i + 1 .. Len(v) : Making(v[j]) => v[j].prev < v[i].prev
<1>1. /\ u \in Seq(Tasks) /\ Len(u) = Len(w) + 1 /\ u[1] = x /\ Len(w) \in Nat
      /\ \A i \in 1 .. Len(w) : u[i + 1] = w[i]
      /\ \A i \in 2 .. Len(w) + 1 : u[i] = w[i - 1]
  BY TaskInFront
<1> HIDE DEF u
<1>2. DOMAIN w = 1 .. Len(w) /\ DOMAIN u = 1 .. Len(w) + 1
  BY <1>1
<1>3. \A i \in 1 .. Len(w) : Behind(u, i + 1) <=> Behind(w, i)
  <2> SUFFICES ASSUME NEW i \in 1 .. Len(w) PROVE Behind(u, i + 1) <=> Behind(w, i)
    OBVIOUS
  <2>1. \A j \in i + 1 .. Len(w) : j + 1 \in (i + 1) + 1 .. Len(u) /\ u[j + 1] = w[j]
    BY <1>1
  <2>2. \A j \in (i + 1) + 1 .. Len(u) : j - 1 \in i + 1 .. Len(w) /\ u[j] = w[j - 1]
    BY <1>1
  <2>3. u[i + 1] = w[i]
    BY <1>1
  <2> QED
    BY <2>1, <2>2, <2>3
<1>4. Behind(u, 1) <=> \A i \in DOMAIN w : Making(w[i]) => w[i].prev < x.prev
  <2>1. \A j \in 1 .. Len(w) : j + 1 \in 1 + 1 .. Len(u) /\ u[j + 1] = w[j]
    BY <1>1
  <2>2. \A j \in 1 + 1 .. Len(u) : j - 1 \in 1 .. Len(w) /\ u[j] = w[j - 1]
    BY <1>1
  <2> QED
    BY <1>1, <1>2, <2>1, <2>2
<1>5. \A v, m : Nested(v, m) <=>
                 \A i \in DOMAIN v : Making(v[i]) => v[i].prev < m /\ Behind(v, i)
  BY DEF Nested
<1> HIDE DEF Behind
<1>6. Nested(u, current) <=>
        /\ Making(x) => x.prev < current /\ Behind(u, 1)
        /\ \A i \in DOMAIN w : Making(w[i]) => w[i].prev < current /\ Behind(w, i)
  <2>1. 1 \in DOMAIN u /\ \A i \in DOMAIN w : i + 1 \in DOMAIN u /\ u[i + 1] = w[i]
    BY <1>1, <1>2
  <2>2. \A i \in DOMAIN u : i = 1 \/ (i - 1 \in DOMAIN w /\ u[i] = w[i - 1] /\ i = (i - 1) + 1)
    BY <1>1, <1>2
  <2> QED
    BY <1>1, <1>2, <1>3, <1>5, <2>1, <2>2
<1>7. \A y : Making(y) => y.prev \in Nat
  BY FunctionDoes DEF Making
<1>8. CASE Making(x)
  <2>1. x.prev \in Nat
    BY <1>7, <1>8
  <2>2. \A i \in DOMAIN w : Making(w[i]) /\ w[i].prev < x.prev /\ x.prev < current
          => w[i].prev < current
    BY <1>7, <2>1
  <2> QED
    BY <1>4, <1>5, <1>6, <1>8, <2>2 DEF u
<1>9. CASE ~ Making(x)
  BY <1>5, <1>6, <1>9 DEF u
<1> QED
  BY <1>8, <1>9

LEMMA OfFunctionsInFront ==
  ASSUME NEW x \in Tasks, NEW w \in Seq(Tasks)
  PROVE  OfFunctions(<<x>> \o w) <=>
           /\ x.do = "parameters" => \E i \in DOMAIN w : Making(w[i])
           /\ OfFunctions(w)
<1> DEFINE u == <<x>> \o w
           Behind(v, i) == \E j \in i + 1 .. Len(v) : Making(v[j])
<1>1. /\ u \in Seq(Tasks) /\ Len(u) = Len(w) + 1 /\ u[1] = x /\ Len(w) \in Nat
      /\ \A i \in 1 .. Len(w) : u[i + 1] = w[i]
      /\ \A i \in 2 .. Len(w) + 1 : u[i] = w[i - 1]
  BY TaskInFront
<1> HIDE DEF u
<1>2. DOMAIN w = 1 .. Len(w) /\ DOMAIN u = 1 .. Len(w) + 1
  BY <1>1
<1>3. \A i \in 1 .. Len(w) : Behind(u, i + 1) <=> Behind(w, i)
  <2> SUFFICES ASSUME NEW i \in 1 .. Len(w) PROVE Behind(u, i + 1) <=> Behind(w, i)
    OBVIOUS
  <2>1. \A j \in i + 1 .. Len(w) : j + 1 \in (i + 1) + 1 .. Len(u) /\ u[j + 1] = w[j]
    BY <1>1
  <2>2. \A j \in (i + 1) + 1 .. Len(u) : j - 1 \in i + 1 .. Len(w) /\ u[j] = w[j - 1]
    BY <1>1
  <2> QED
    BY <2>1, <2>2
<1>4. Behind(u, 1) <=> \E i \in DOMAIN w : Making(w[i])
  <2>1. \A j \in 1 .. Len(w) : j + 1 \in 1 + 1 .. Len(u) /\ u[j + 1] = w[j]
    BY <1>1
  <2>2. \A j \in 1 + 1 .. Len(u) : j - 1 \in 1 .. Len(w) /\ u[j] = w[j - 1]
    BY <1>1
  <2> QED
    BY <1>1, <1>2, <2>1, <2>2
<1>5. \A v : OfFunctions(v) <=> \A i \in DOMAIN v : v[i].do = "parameters" => Behind(v, i)
  BY DEF OfFunctions
<1> HIDE DEF Behind
<1>6. OfFunctions(u) <=> /\ x.do = "parameters" => Behind(u, 1)
                         /\ \A i \in DOMAIN w : w[i].do = "parameters" => Behind(w, i)
  <2>1. 1 \in DOMAIN u /\ \A i \in DOMAIN w : i + 1 \in DOMAIN u /\ u[i + 1] = w[i]
    BY <1>1, <1>2
  <2>2. \A i \in DOMAIN u : i = 1 \/ (i - 1 \in DOMAIN w /\ u[i] = w[i - 1] /\ i = (i - 1) + 1)
    BY <1>1, <1>2
  <2>3. ASSUME OfFunctions(u)
        PROVE  /\ x.do = "parameters" => Behind(u, 1)
               /\ \A i \in DOMAIN w : w[i].do = "parameters" => Behind(w, i)
    <3>1. x.do = "parameters" => Behind(u, 1)
      BY <1>1, <1>5, <2>1, <2>3
    <3>2. ASSUME NEW i \in DOMAIN w, w[i].do = "parameters" PROVE Behind(w, i)
      <4>1. i + 1 \in DOMAIN u /\ u[i + 1].do = "parameters" /\ i \in 1 .. Len(w)
        BY <1>2, <2>1, <3>2
      <4>2. Behind(u, i + 1)
        BY <1>5, <2>3, <4>1
      <4> QED
        BY <1>3, <4>1, <4>2
    <3> QED
      BY <3>1, <3>2
  <2>4. ASSUME x.do = "parameters" => Behind(u, 1),
               \A i \in DOMAIN w : w[i].do = "parameters" => Behind(w, i)
        PROVE  OfFunctions(u)
    <3>1. ASSUME NEW i \in DOMAIN u, u[i].do = "parameters" PROVE Behind(u, i)
      <4>1. CASE i = 1
        BY <1>1, <2>4, <3>1, <4>1
      <4>2. CASE i - 1 \in DOMAIN w /\ u[i] = w[i - 1] /\ i = (i - 1) + 1
        <5>1. Behind(w, i - 1) /\ i - 1 \in 1 .. Len(w)
          BY <1>2, <2>4, <3>1, <4>2
        <5> QED
          BY <1>3, <4>2, <5>1
      <4> QED
        BY <2>2, <4>1, <4>2
    <3> QED
      BY <1>5, <3>1
  <2> QED
    BY <2>3, <2>4
<1> QED
  BY <1>4, <1>5, <1>6 DEF u

LEMMA OpenInFront ==
  ASSUME NEW x \in Tasks, NEW w \in Seq(Tasks), NEW current
  PROVE  Open(<<x>> \o w, current) =
           IF Making(x) THEN {current} \cup Open(w, x.prev) ELSE Open(w, current)
<1> DEFINE u == <<x>> \o w
<1>1. /\ u \in Seq(Tasks) /\ Len(u) = Len(w) + 1 /\ u[1] = x /\ Len(w) \in Nat
      /\ \A i \in 1 .. Len(w) : u[i + 1] = w[i]
      /\ \A i \in 2 .. Len(w) + 1 : u[i] = w[i - 1]
  BY TaskInFront
<1> HIDE DEF u
<1>2. \A v, m, g : g \in Open(v, m) <=> g = m \/ \E i \in DOMAIN v : Making(v[i]) /\ g = v[i].prev
  BY DEF Open
<1>3. 1 \in DOMAIN u /\ \A i \in DOMAIN w : i + 1 \in DOMAIN u /\ u[i + 1] = w[i]
  BY <1>1
<1>4. \A i \in DOMAIN u : i = 1 \/ (i - 1 \in DOMAIN w /\ u[i] = w[i - 1])
  BY <1>1
<1>5. \A g : (\E i \in DOMAIN u : Making(u[i]) /\ g = u[i].prev) <=>
              \/ Making(x) /\ g = x.prev
              \/ \E i \in DOMAIN w : Making(w[i]) /\ g = w[i].prev
  <2> SUFFICES ASSUME NEW g
               PROVE (\E i \in DOMAIN u : Making(u[i]) /\ g = u[i].prev) <=>
                       \/ Making(x) /\ g = x.prev
                       \/ \E i \in DOMAIN w : Making(w[i]) /\ g = w[i].prev
    OBVIOUS
  <2>1. ASSUME NEW i \in DOMAIN u, Making(u[i]), g = u[i].prev
        PROVE  \/ Making(x) /\ g = x.prev
               \/ \E k \in DOMAIN w : Making(w[k]) /\ g = w[k].prev
    BY <1>1, <1>4, <2>1
  <2>2. ASSUME Making(x), g = x.prev PROVE \E i \in DOMAIN u : Making(u[i]) /\ g = u[i].prev
    BY <1>1, <1>3, <2>2
  <2>3. ASSUME NEW k \in DOMAIN w, Making(w[k]), g = w[k].prev
        PROVE  \E i \in DOMAIN u : Making(u[i]) /\ g = u[i].prev
    BY <1>3, <2>3
  <2> QED
    BY <2>1, <2>2, <2>3
<1>6. CASE Making(x)
  <2>1. ASSUME NEW g PROVE g \in Open(u, current) <=> g \in {current} \cup Open(w, x.prev)
    <3>1. g \in Open(u, current) <=>
            g = current \/ \E i \in DOMAIN u : Making(u[i]) /\ g = u[i].prev
      BY <1>2
    <3>2. g \in Open(w, x.prev) <=>
            g = x.prev \/ \E i \in DOMAIN w : Making(w[i]) /\ g = w[i].prev
      BY <1>2
    <3>3. (\E i \in DOMAIN u : Making(u[i]) /\ g = u[i].prev) <=> g \in Open(w, x.prev)
      BY <1>5, <1>6, <3>2
    <3> QED
      BY <3>1, <3>3
  <2>2. Open(u, current) = {current} \cup Open(w, x.prev)
    BY <2>1
  <2> QED
    BY <1>6, <2>2 DEF u
<1>7. CASE ~ Making(x)
  <2>1. \A g : g \in Open(u, current) <=> g \in Open(w, current)
    BY <1>2, <1>5, <1>7
  <2>2. Open(u, current) = Open(w, current)
    BY <2>1
  <2> QED
    BY <1>7, <2>2 DEF u
<1> QED
  BY <1>6, <1>7

\* A task that is no function's end leaves them as they are.
LEMMA HandedInFront ==
  ASSUME NEW x \in Tasks, ~ Making(x), NEW w \in Seq(Tasks), NEW made, NEW n,
         NEW current \in Nat
  PROVE  Handed(<<x>> \o w, made, n, current) <=>
           /\ x.do = "parameters" => \E i \in DOMAIN w : Making(w[i])
           /\ Handed(w, made, n, current)
<1> DEFINE u == <<x>> \o w
<1>1. /\ Nested(u, current) <=> Nested(w, current)
      /\ Open(u, current) = Open(w, current)
      /\ OfFunctions(u) <=> /\ x.do = "parameters" => \E i \in DOMAIN w : Making(w[i])
                            /\ OfFunctions(w)
  BY NestedInFront, OpenInFront, OfFunctionsInFront
<1> HIDE DEF u
<1> QED
  BY <1>1 DEF Handed, u

\* One more is open that is no constant yet.
LEMMA OneOpen ==
  ASSUME NEW made, NEW open, NEW n \in Nat, OneEach(made, open, n)
  PROVE  OneEach(made, {n + 1} \cup open, n + 1)
<1>1. \A g \in 2 .. n + 1 : g = n + 1 \/ (g \in 2 .. n /\ g # n + 1)
  OBVIOUS
<1>2. \A p \in made : p.fn \in 2 .. n + 1 /\ p.fn # n + 1 /\ p.in \in 1 .. p.fn - 1
  <2>1. \A p \in made : p.fn \in 2 .. n /\ p.in \in 1 .. p.fn - 1
    BY DEF OneEach
  <2>2. \A g \in 2 .. n : g \in 2 .. n + 1 /\ g # n + 1
    OBVIOUS
  <2> QED
    BY <2>1, <2>2
<1>3. \A g \in 2 .. n + 1 : g \in {n + 1} \cup open <=> \A p \in made : p.fn # g
  BY <1>1, <1>2 DEF OneEach
<1> QED
  BY <1>2, <1>3 DEF OneEach

\* One is no longer open, but a constant.
LEMMA OneMade ==
  ASSUME NEW made, NEW open, NEW n \in Nat, NEW g \in 1 .. n, NEW prev \in 1 .. g - 1, g \notin open,
         OneEach(made, {g} \cup open, n), NEW k
  PROVE  OneEach(made \cup {[fn |-> g, in |-> prev, at |-> k]}, open, n)
<1> DEFINE p == [fn |-> g, in |-> prev, at |-> k]
<1>1. p.fn = g /\ p.in = prev /\ g \in 2 .. n
  OBVIOUS
<1>2. \A q \in made : q.fn \in 2 .. n /\ q.in \in 1 .. q.fn - 1 /\ q.fn # g
  BY <1>1 DEF OneEach
<1> HIDE DEF p
<1>3. \A h \in 2 .. n : h \in open <=> \A q \in made \cup {p} : q.fn # h
  <2>1. \A h \in 2 .. n : h \in {g} \cup open <=> \A q \in made : q.fn # h
    BY DEF OneEach
  <2> QED
    BY <1>1, <2>1
<1>4. \A q, r \in made \cup {p} : q.fn = r.fn => q = r
  BY <1>1, <1>2 DEF OneEach
<1>5. \A q \in made \cup {p} : q.fn \in 2 .. n /\ q.in \in 1 .. q.fn - 1
  BY <1>1, <1>2
<1>6. OneEach(made \cup {p}, open, n)
  BY <1>3, <1>4, <1>5 DEF OneEach
<1> QED
  BY <1>6 DEF p

\* A function begins: it is the last one, and the current one.
LEMMA HandedBegins ==
  ASSUME NEW x \in FunctionTasks, NEW w \in Seq(Tasks), NEW made, NEW n \in Nat,
         x.prev \in 1 .. n, Handed(w, made, n, x.prev)
  PROVE  Handed(<<x>> \o w, made, n + 1, n + 1)
<1>1. x \in Tasks /\ Making(x) /\ x.do # "parameters"
  BY FunctionDoes DEF Tasks, Making
<1> DEFINE u == <<x>> \o w
           m == n + 1
<1>2. m \in Nat /\ x.prev < m
  OBVIOUS
<1> HIDE DEF m
<1>3. /\ Nested(u, m) <=> x.prev < m /\ Nested(w, x.prev)
      /\ Open(u, m) = {m} \cup Open(w, x.prev)
      /\ OfFunctions(u) <=> OfFunctions(w)
  BY <1>1, <1>2, NestedInFront, OpenInFront, OfFunctionsInFront
<1> HIDE DEF u
<1>4. OneEach(made, {m} \cup Open(w, x.prev), m)
  BY OneOpen DEF Handed, m
<1> QED
  BY <1>2, <1>3, <1>4 DEF Handed, u, m

\* A function ends, and becomes a constant of the one it was begun in.
LEMMA HandedEnds ==
  ASSUME NEW x \in FunctionTasks, NEW w \in Seq(Tasks), NEW made, NEW n \in Nat,
         NEW current \in 1 .. n, x.prev \in 1 .. n, Handed(<<x>> \o w, made, n, current), NEW k
  PROVE  Handed(w, made \cup {[fn |-> current, in |-> x.prev, at |-> k]}, n, x.prev)
<1>0. current \in Nat
  OBVIOUS
<1>1. x \in Tasks /\ Making(x) /\ x.do # "parameters" /\ x.prev \in Nat /\ current \in Nat
  BY <1>0, FunctionDoes, Zenon DEF Tasks, Making
<1> DEFINE u == <<x>> \o w
<1>2. /\ Nested(u, current) <=> x.prev < current /\ Nested(w, x.prev)
      /\ Open(u, current) = {current} \cup Open(w, x.prev)
      /\ OfFunctions(u) <=> OfFunctions(w)
  BY <1>1, NestedInFront, OpenInFront, OfFunctionsInFront
<1>3. Handed(u, made, n, current)
  OBVIOUS
<1> HIDE DEF u
<1>4. /\ x.prev < current /\ Nested(w, x.prev) /\ OfFunctions(w)
      /\ OneEach(made, {current} \cup Open(w, x.prev), n)
  BY <1>2, <1>3 DEF Handed
<1>5. x.prev \in 1 .. current - 1
  BY <1>1, <1>4
<1>6. current \notin Open(w, x.prev)
  <2>1. \A i \in DOMAIN w : Making(w[i]) => w[i].prev < x.prev /\ w[i].prev \in Nat
    BY <1>4, FunctionDoes DEF Nested, Making
  <2> QED
    BY <1>1, <1>4, <2>1 DEF Open
<1>7. OneEach(made \cup {[fn |-> current, in |-> x.prev, at |-> k]}, Open(w, x.prev), n)
  BY <1>4, <1>5, <1>6, OneMade
<1> QED
  BY <1>4, <1>7 DEF Handed

-----------------------------------------------------------------------------
(***************************************************************************)
(* Steps in general: what the new context keeps and the new tasks hold.    *)
(***************************************************************************)
LEMMA KeepsKept ==
  ASSUME NEW c, NEW d, NEW w, Keeps(c, d), Kept(c, w)
  PROVE  Kept(d, w)
  BY DEF Keeps, Kept, Holds

LEMMA GoodNumbers ==
  ASSUME NEW c, Good(c)
  PROVE  /\ Len(c.functions) \in Nat /\ c.scope_depth \in Nat /\ c.error \in BOOLEAN
         /\ c.loop_depth \in Depths /\ c.current \in 1 .. Len(c.functions) /\ c.current \in Nat
         /\ c.functions \in Seq(CompiledFunctions) /\ c.token \in AllTokens
<1>1. c.functions \in Seq(CompiledFunctions)
  BY DEF Good, Contexts
<1>2. /\ c.scope_depth \in Nat /\ c.error \in BOOLEAN /\ c.loop_depth \in Depths
      /\ c.current \in 1 .. Len(c.functions) /\ c.current \in Nat /\ c.token \in AllTokens
  BY DEF Good, Contexts
<1> QED
  BY <1>1, <1>2

LEMMA PlainInFront ==
  ASSUME NEW c, Good(c), NEW x \in PlainTasks, NEW w, Kept(c, w)
  PROVE  Kept(c, <<x>> \o w)
<1>1. /\ x \in Tasks /\ x.do # "program" /\ x.do # "parameters"
      /\ ~ Scoped(x) /\ ~ Looping(x) /\ ~ Making(x)
  BY PlainHoldsNothing
<1>2. w \in Seq(Tasks) /\ w # <<>>
  BY DEF Kept, Holds
<1>3. /\ Len(c.functions) \in Nat /\ c.scope_depth \in Nat /\ c.error \in BOOLEAN
      /\ c.current \in Nat
  BY GoodNumbers
<1>4. Holds(<<x>> \o w, Len(c.functions), c.current, c.scope_depth, c.loop_depth, c.error)
  BY <1>1, <1>2, <1>3, HoldsInFront DEF Kept
<1>5. Handed(<<x>> \o w, Made(c.functions), Len(c.functions), c.current)
  BY <1>1, <1>2, <1>3, HandedInFront DEF Kept
<1> QED
  BY <1>4, <1>5 DEF Kept

LEMMA NoPlainInFront ==
  ASSUME NEW c, Good(c), NEW x \in PlainTasks, NEW w \in Seq(Tasks), w # <<>>,
         Kept(c, <<x>> \o w)
  PROVE  Kept(c, w)
<1>1. x \in Tasks /\ x.do # "program" /\ ~ Scoped(x) /\ ~ Looping(x) /\ ~ Making(x)
  BY PlainHoldsNothing
<1>2. /\ Len(c.functions) \in Nat /\ c.scope_depth \in Nat /\ c.error \in BOOLEAN
      /\ c.current \in Nat
  BY GoodNumbers
<1>3. Holds(w, Len(c.functions), c.current, c.scope_depth, c.loop_depth, c.error)
  BY <1>1, <1>2, HoldsInFront DEF Kept
<1>4. Handed(w, Made(c.functions), Len(c.functions), c.current)
  BY <1>1, <1>2, HandedInFront DEF Kept
<1> QED
  BY <1>3, <1>4 DEF Kept

\* The parameters of a function are in front of its end, which says where it goes back to.
LEMMA ParametersInFront ==
  ASSUME NEW c, Good(c), NEW x \in ParameterTasks, NEW w \in Seq(Tasks), w # <<>>
  PROVE  Kept(c, <<x>> \o w) <=> (\E i \in DOMAIN w : Making(w[i])) /\ Kept(c, w)
<1>1. /\ x \in Tasks /\ x.do = "parameters" /\ x.do # "program"
      /\ ~ Scoped(x) /\ ~ Looping(x) /\ ~ Making(x)
  <2>1. x \in Tasks /\ x.do = "parameters"
    BY ParametersDo DEF Tasks
  <2>2. "parameters" \notin LoopDo \cup ForDo
    BY DEF LoopDo, ForDo
  <2> QED
    BY <2>1, <2>2, TaskKinds DEF Scoped, Looping, Making
<1>2. /\ Len(c.functions) \in Nat /\ c.scope_depth \in Nat /\ c.error \in BOOLEAN
      /\ c.current \in Nat
  BY GoodNumbers
<1>3. Holds(<<x>> \o w, Len(c.functions), c.current, c.scope_depth, c.loop_depth, c.error) <=>
        Holds(w, Len(c.functions), c.current, c.scope_depth, c.loop_depth, c.error)
  BY <1>1, <1>2, HoldsInFront
<1>4. Handed(<<x>> \o w, Made(c.functions), Len(c.functions), c.current) <=>
        /\ \E i \in DOMAIN w : Making(w[i])
        /\ Handed(w, Made(c.functions), Len(c.functions), c.current)
  BY <1>1, <1>2, HandedInFront
<1> QED
  BY <1>3, <1>4 DEF Kept

\* So where there are parameters, or a function that will end, it is not main.
LEMMA NotMain ==
  ASSUME NEW c, Good(c), NEW w, Kept(c, w), \E i \in DOMAIN w : Making(w[i])
  PROVE  c.current # 1
<1>1. PICK i \in DOMAIN w : Making(w[i])
  OBVIOUS
<1>2. w[i].prev \in 1 .. Len(c.functions) /\ w[i].prev < c.current
  BY <1>1 DEF Kept, Holds, Handed, Nested
<1> QED
  BY <1>2, GoodNumbers

LEMMA PairIs ==
  ASSUME NEW x, NEW y
  PROVE  <<x>> \o <<y>> = <<x, y>>
<1> DEFINE S == {x, y}
           s == <<x>> \o <<y>>
           t == <<x, y>>
<1>1. s \in Seq(S) /\ t \in Seq(S) /\ Len(s) = 2 /\ Len(t) = 2
  OBVIOUS
<1>2. s[1] = t[1] /\ s[2] = t[2]
  OBVIOUS
<1> HIDE DEF s, t
<1>3. \A i \in 1 .. Len(s) : s[i] = t[i]
  BY <1>1, <1>2
<1>4. s = t
  BY <1>1, <1>3, SeqEqual
<1> QED
  BY <1>4 DEF s, t

LEMMA TripleIs ==
  ASSUME NEW x, NEW y, NEW z
  PROVE  <<x, y, z>> = <<x, y>> \o <<z>>
<1> DEFINE S == {x, y, z}
           s == <<x, y>> \o <<z>>
           t == <<x, y, z>>
<1>1. s \in Seq(S) /\ t \in Seq(S) /\ Len(s) = 3 /\ Len(t) = 3
  OBVIOUS
<1>2. s[1] = t[1] /\ s[2] = t[2] /\ s[3] = t[3]
  OBVIOUS
<1> HIDE DEF s, t
<1>3. \A i \in 1 .. Len(s) : s[i] = t[i]
  BY <1>1, <1>2
<1>4. s = t
  BY <1>1, <1>3, SeqEqual
<1> QED
  BY <1>4 DEF s, t

LEMMA Pairs ==
  ASSUME NEW S, NEW w \in Seq(S), NEW x \in S, NEW y \in S
  PROVE  <<x, y>> \o w = <<x>> \o (<<y>> \o w) /\ <<x, y>> \in Seq(S)
<1>1. <<x>> \in Seq(S) /\ <<y>> \in Seq(S) /\ <<x, y>> \in Seq(S)
  OBVIOUS
<1>2. <<x>> \o <<y>> = <<x, y>>
  BY PairIs
<1>3. (<<x>> \o <<y>>) \o w = <<x>> \o (<<y>> \o w)
  BY <1>1, ConcatAssociative
<1> QED
  BY <1>1, <1>2, <1>3

OneByOne(x, y, z, w) == <<x, y, z>> \o w = <<x>> \o (<<y>> \o (<<z>> \o w))

LEMMA Triples ==
  ASSUME NEW S, NEW w \in Seq(S), NEW x \in S, NEW y \in S, NEW z \in S
  PROVE  OneByOne(x, y, z, w) /\ <<x, y, z>> \in Seq(S)
<1>1. <<x>> \in Seq(S) /\ <<y, z>> \in Seq(S) /\ <<x, y, z>> \in Seq(S)
  OBVIOUS
<1>2. <<x>> \o <<y, z>> = <<x, y, z>>
  <2> DEFINE s == <<x>> \o <<y, z>>
             t == <<x, y, z>>
  <2>1. s \in Seq(S) /\ t \in Seq(S) /\ Len(s) = 3 /\ Len(t) = 3
    BY <1>1
  <2>2. s[1] = t[1] /\ s[2] = t[2] /\ s[3] = t[3]
    BY <1>1
  <2> HIDE DEF s, t
  <2>3. \A i \in 1 .. Len(s) : s[i] = t[i]
    BY <2>1, <2>2
  <2>4. s = t
    BY <2>1, <2>3, SeqEqual
  <2> QED
    BY <2>4 DEF s, t
<1>3. (<<x>> \o <<y, z>>) \o w = <<x>> \o (<<y, z>> \o w)
  BY <1>1, ConcatAssociative
<1>4. <<y, z>> \o w = <<y>> \o (<<z>> \o w)
  BY Pairs
<1> QED
  BY <1>1, <1>2, <1>3, <1>4 DEF OneByOne

FewPlain(tasks) ==
  \/ tasks = <<>>
  \/ \E x \in PlainTasks : tasks = <<x>>
  \/ \E x, y \in PlainTasks : tasks = <<x, y>>
  \/ \E x, y, z \in PlainTasks : tasks = <<x, y, z>>

LEMMA FewAreTasks == ASSUME NEW tasks, FewPlain(tasks) PROVE tasks \in Seq(Tasks)
<1>0. PlainTasks \subseteq Tasks
  BY DEF Tasks
<1>1. <<>> \in Seq(Tasks)
  BY EmptySeq
<1>2. ASSUME NEW x \in Tasks PROVE <<x>> \in Seq(Tasks)
  OBVIOUS
<1>3. ASSUME NEW x \in Tasks, NEW y \in Tasks PROVE <<x, y>> \in Seq(Tasks)
  BY <1>1, Pairs
<1>4. ASSUME NEW x \in Tasks, NEW y \in Tasks, NEW z \in Tasks PROVE <<x, y, z>> \in Seq(Tasks)
  BY <1>1, Triples
<1> QED
  BY <1>0, <1>1, <1>2, <1>3, <1>4, Zenon DEF FewPlain

LEMMA FewInFront ==
  ASSUME NEW c, Good(c), NEW w, Kept(c, w), NEW tasks, FewPlain(tasks)
  PROVE  Kept(c, tasks \o w)
<1>0. w \in Seq(Tasks) /\ PlainTasks \subseteq Tasks
  BY DEF Kept, Holds, Tasks
<1>1. CASE tasks = <<>>
  BY <1>0, <1>1
<1>2. ASSUME NEW x \in PlainTasks, tasks = <<x>>
      PROVE  Kept(c, tasks \o w)
  BY <1>2, PlainInFront
<1>3. ASSUME NEW x \in PlainTasks, NEW y \in PlainTasks, tasks = <<x, y>>
      PROVE  Kept(c, tasks \o w)
  <2>1. x \in Tasks /\ y \in Tasks
    BY <1>0
  <2>2. tasks \o w = <<x>> \o (<<y>> \o w)
    <3>1. <<x, y>> \o w = <<x>> \o (<<y>> \o w)
      BY <1>0, <2>1, Pairs
    <3> QED
      BY <1>3, <3>1
  <2> QED
    BY <2>2, PlainInFront
<1>4. ASSUME NEW x \in PlainTasks, NEW y \in PlainTasks, NEW z \in PlainTasks, tasks = <<x, y, z>>
      PROVE  Kept(c, tasks \o w)
  <2>1. x \in Tasks /\ y \in Tasks /\ z \in Tasks
    BY <1>0
  <2>2. tasks \o w = <<x>> \o (<<y>> \o (<<z>> \o w))
    <3>1. <<x, y, z>> \o w = <<x>> \o (<<y>> \o (<<z>> \o w))
      BY <1>0, <2>1, Triples DEF OneByOne
    <3> QED
      BY <1>4, <3>1
  <2> QED
    BY <2>2, PlainInFront
<1> QED
  BY <1>1, <1>2, <1>3, <1>4, Zenon DEF FewPlain

LEMMA WorkIs ==
  ASSUME CInv
  PROVE  /\ work \in Seq(Tasks) /\ work # <<>> /\ Task \in Tasks
         /\ Tail(work) \in Seq(Tasks) /\ work = <<Task>> \o Tail(work)
         /\ Task.do # "program" => Tail(work) # <<>>
         /\ Task.do = "program" => Tail(work) = <<>>
         /\ Good(context) /\ Kept(context, work)
<1>1. /\ work \in Seq(Tasks) /\ work # <<>>
      /\ \A i \in DOMAIN work : work[i].do = "program" <=> i = Len(work)
      /\ Good(context) /\ Kept(context, work)
  BY DEF CInv, Holds, Kept
<1>2. 1 \in DOMAIN work /\ Task = work[1] /\ Len(work) \in Nat /\ Len(Tail(work)) = Len(work) - 1
  BY <1>1 DEF Task
<1>3. Task \in Tasks /\ Tail(work) \in Seq(Tasks) /\ work = <<Task>> \o Tail(work)
  BY <1>1 DEF Task
<1>4. Tail(work) = <<>> <=> Len(work) = 1
  <2>1. Len(<<>>) = 0
    BY EmptySeq
  <2>2. Tail(work) # <<>> => Len(Tail(work)) # 0
    BY <1>3, EmptySeq
  <2>3. Tail(work) = <<>> => Len(Tail(work)) = 0
    BY <2>1, Zenon
  <2>4. Len(Tail(work)) = 0 <=> Len(work) = 1
    BY <1>2
  <2> QED
    BY <2>2, <2>3, <2>4, Zenon
<1> QED
  BY <1>1, <1>2, <1>3, <1>4

LEMMA GoTo ==
  ASSUME CInv, NEW c, Good(c), NEW tasks, Kept(c, tasks \o Tail(work)), Go(c, tasks)
  PROVE  CInv'
<1>1. text \in Texts /\ text' = text /\ context' = c /\ work' = tasks \o Tail(work)
  BY DEF CInv, Go
<1>2. status' \in {"ok", "wild", "exit"}
  BY DEF Go
<1> QED
  BY <1>1, <1>2 DEF CInv, Kept

LEMMA PlainStep ==
  ASSUME CInv, Task \in PlainTasks, NEW c, Keeps(context, c), NEW tasks, FewPlain(tasks), Go(c, tasks)
  PROVE  CInv'
<1>1. Task.do # "program"
  BY PlainHoldsNothing
<1>2. /\ Tail(work) \in Seq(Tasks) /\ work = <<Task>> \o Tail(work) /\ Tail(work) # <<>>
      /\ Good(context) /\ Kept(context, work)
  BY <1>1, WorkIs
<1>3. Kept(context, Tail(work))
  BY <1>2, NoPlainInFront
<1>4. Good(c) /\ Kept(c, Tail(work))
  BY <1>3, KeepsKept DEF Keeps
<1>5. Kept(c, tasks \o Tail(work))
  BY <1>4, FewInFront
<1> QED
  BY <1>4, <1>5, GoTo

\* A task that does one more before it goes on as it is.
LEMMA AgainStep ==
  ASSUME CInv, NEW x \in PlainTasks, Go(context, <<x, Task>>)
  PROVE  CInv'
<1>1. /\ Tail(work) \in Seq(Tasks) /\ work = <<Task>> \o Tail(work) /\ Task \in Tasks
      /\ Good(context) /\ Kept(context, work)
  BY WorkIs
<1>2. x \in Tasks
  BY PlainHoldsNothing
<1>3. <<x, Task>> \o Tail(work) = <<x>> \o work
  <2>1. <<x, Task>> \o Tail(work) = <<x>> \o (<<Task>> \o Tail(work))
    BY <1>1, <1>2
  <2> QED
    BY <1>1, <2>1
<1> QED
  BY <1>1, <1>3, PlainInFront, GoTo

\* A loop goes on with tasks in front of one that keeps the same depth.
LEMMA LoopStep ==
  ASSUME CInv, NEW y, y.outer = Task.outer,
         \/ Task \in LoopTasks /\ y \in LoopTasks
         \/ Task \in ForTasks /\ y \in ForTasks,
         NEW c, Keeps(context, c), NEW tasks, FewPlain(tasks), Go(c, tasks \o <<y>>)
  PROVE  CInv'
<1> DEFINE w == Tail(work)
           n == Len(c.functions)
<1>1. Task \in Tasks /\ y \in Tasks
  BY DEF Tasks
<1>2. /\ Task.do \notin {"program", "parameters"} /\ y.do \notin {"program", "parameters"}
      /\ Scoped(y) <=> Scoped(Task)
      /\ Looping(y) /\ Looping(Task) /\ ~ Making(y) /\ ~ Making(Task)
  <2>1. LoopDo \cap (ForDo \cup {"end fn", "parameters", "program", "block"}) = {}
        /\ ForDo \cap {"end fn", "parameters", "program", "block"} = {}
    BY DEF LoopDo, ForDo
  <2> QED
    BY <1>1, <2>1, TaskKinds DEF Scoped, Looping, Making
<1>3. w \in Seq(Tasks) /\ work = <<Task>> \o w /\ w # <<>> /\ Good(context) /\ Kept(context, work)
  BY <1>2, WorkIs
<1>4. Good(c) /\ Kept(c, <<Task>> \o w)
  <2>1. Good(c)
    BY DEF Keeps
  <2>2. Kept(context, <<Task>> \o w)
    BY <1>3
  <2> QED
    BY <2>1, <2>2, KeepsKept
<1>5. n \in Nat /\ c.scope_depth \in Nat /\ c.error \in BOOLEAN /\ c.current \in Nat
  BY <1>4, GoodNumbers
<1> HIDE DEF w
<1>6. Kept(c, <<y>> \o w)
  <2>1. Holds(<<y>> \o w, n, c.current, c.scope_depth, c.loop_depth, c.error)
    BY <1>1, <1>2, <1>3, <1>4, <1>5, HoldsInFront DEF Kept
  <2>2. Handed(<<y>> \o w, Made(c.functions), n, c.current)
    BY <1>1, <1>2, <1>3, <1>4, <1>5, HandedInFront DEF Kept
  <2> QED
    BY <2>1, <2>2 DEF Kept
<1>7. Kept(c, tasks \o (<<y>> \o w))
  BY <1>4, <1>6, FewInFront
<1>8. (tasks \o <<y>>) \o w = tasks \o (<<y>> \o w)
  <2>1. tasks \in Seq(Tasks)
    BY FewAreTasks
  <2> QED
    BY <1>1, <1>3, <2>1
<1> QED
  BY <1>4, <1>7, <1>8, GoTo DEF w

-----------------------------------------------------------------------------
(***************************************************************************)
(* The tasks that hold nothing, one by one.                                *)
(***************************************************************************)
LEMMA FewAre ==
  /\ FewPlain(<<>>)
  /\ \A x \in PlainTasks : FewPlain(<<x>>)
  /\ \A x, y \in PlainTasks : FewPlain(<<x, y>>)
  /\ \A x, y, z \in PlainTasks : FewPlain(<<x, y, z>>)
  BY Zenon DEF FewPlain

SimpleDo == {"declaration", "synchronize", "var", "fn", "{", "statement", "if", "while", "for",
             "break", "continue", "return", "expression statement", "end return", "then"}
PrecedenceTasks == [do : {"precedence", "infix", "operators"}, can_assign : BOOLEAN, min : Nat]
IdTasks         == [do : {"end var", "assign"}, id : Ids]
ConsumeTasks    == [do : {"consume"}, type : {";", ")"}]
JumpTasks       == [do : {"else", "end if"}, jump : Nat]
OperatorTasks   == [do : {"binary", "unary"}, op : AllTokens]
ArgumentTasks   == [do : {"arguments", "argument"}, id : Ids, args : Nat]

LEMMA PlainTasksAre ==
  PlainTasks = [do : SimpleDo] \cup PrecedenceTasks \cup IdTasks
                 \cup ConsumeTasks \cup JumpTasks \cup OperatorTasks \cup ArgumentTasks
  BY Zenon DEF PlainTasks, SimpleDo, PrecedenceTasks, IdTasks, ConsumeTasks, JumpTasks,
               OperatorTasks, ArgumentTasks

LEMMA PlainFields ==
  ASSUME NEW x \in PlainTasks
  PROVE  /\ x.do \in {"precedence", "infix", "operators"} => x \in PrecedenceTasks
         /\ x.do \in {"end var", "assign"} => x \in IdTasks
         /\ x.do \in {"else", "end if"} => x \in JumpTasks
         /\ x.do \in {"binary", "unary"} => x \in OperatorTasks
         /\ x.do \in {"arguments", "argument"} => x \in ArgumentTasks
<1>1. \/ x.do \in SimpleDo
      \/ x \in PrecedenceTasks /\ x.do \in {"precedence", "infix", "operators"}
      \/ x \in IdTasks /\ x.do \in {"end var", "assign"}
      \/ x.do = "consume"
      \/ x \in JumpTasks /\ x.do \in {"else", "end if"}
      \/ x \in OperatorTasks /\ x.do \in {"binary", "unary"}
      \/ x \in ArgumentTasks /\ x.do \in {"arguments", "argument"}
  <2>1. x \in [do : SimpleDo] => x.do \in SimpleDo
    OBVIOUS
  <2>2. x \in PrecedenceTasks => x.do \in {"precedence", "infix", "operators"}
    BY DEF PrecedenceTasks
  <2>3. x \in IdTasks => x.do \in {"end var", "assign"}
    BY DEF IdTasks
  <2>4. x \in ConsumeTasks => x.do = "consume"
    BY DEF ConsumeTasks
  <2>5. x \in JumpTasks => x.do \in {"else", "end if"}
    BY DEF JumpTasks
  <2>6. x \in OperatorTasks => x.do \in {"binary", "unary"}
    BY DEF OperatorTasks
  <2>7. x \in ArgumentTasks => x.do \in {"arguments", "argument"}
    BY DEF ArgumentTasks
  <2> QED
    BY <2>1, <2>2, <2>3, <2>4, <2>5, <2>6, <2>7, PlainTasksAre
<1> QED
  BY <1>1 DEF SimpleDo

LEMMA PlainSimple ==
  /\ \A what \in SimpleDo : Do(what) \in PlainTasks
  /\ Expression \in PlainTasks
  /\ Consuming(";") \in PlainTasks /\ Consuming(")") \in PlainTasks
<1>1. \A what \in SimpleDo : Do(what) \in [do : SimpleDo]
  BY DEF Do
<1>2. Expression \in PrecedenceTasks
  BY DEF Expression, PrecedenceTasks
<1>3. Consuming(";") \in ConsumeTasks /\ Consuming(")") \in ConsumeTasks
  BY DEF Consuming, ConsumeTasks
<1> QED
  BY <1>1, <1>2, <1>3, PlainTasksAre

LEMMA PlainPrecedence ==
  ASSUME NEW can_assign \in BOOLEAN, NEW min \in Nat
  PROVE  /\ Operand(min, can_assign) \in PlainTasks
         /\ [do |-> "infix", can_assign |-> can_assign, min |-> min] \in PlainTasks
         /\ [do |-> "operators", can_assign |-> can_assign, min |-> min] \in PlainTasks
<1>1. /\ Operand(min, can_assign) \in PrecedenceTasks
      /\ [do |-> "infix", can_assign |-> can_assign, min |-> min] \in PrecedenceTasks
      /\ [do |-> "operators", can_assign |-> can_assign, min |-> min] \in PrecedenceTasks
  BY DEF Operand, PrecedenceTasks
<1> QED
  BY <1>1, PlainTasksAre

LEMMA PlainIds ==
  ASSUME NEW id \in Ids, NEW args \in Nat
  PROVE  /\ [do |-> "end var", id |-> id] \in PlainTasks
         /\ [do |-> "assign", id |-> id] \in PlainTasks
         /\ [do |-> "arguments", id |-> id, args |-> args] \in PlainTasks
         /\ [do |-> "argument", id |-> id, args |-> args] \in PlainTasks
<1>1. /\ [do |-> "end var", id |-> id] \in IdTasks
      /\ [do |-> "assign", id |-> id] \in IdTasks
  BY DEF IdTasks
<1>2. /\ [do |-> "arguments", id |-> id, args |-> args] \in ArgumentTasks
      /\ [do |-> "argument", id |-> id, args |-> args] \in ArgumentTasks
  BY DEF ArgumentTasks
<1> QED
  BY <1>1, <1>2, PlainTasksAre

LEMMA PlainNumbers ==
  ASSUME NEW n \in Nat
  PROVE  [do |-> "else", jump |-> n] \in PlainTasks /\ [do |-> "end if", jump |-> n] \in PlainTasks
<1>1. [do |-> "else", jump |-> n] \in JumpTasks /\ [do |-> "end if", jump |-> n] \in JumpTasks
  BY DEF JumpTasks
<1> QED
  BY <1>1, PlainTasksAre

LEMMA PlainOperators ==
  ASSUME NEW op \in AllTokens
  PROVE  [do |-> "unary", op |-> op] \in PlainTasks /\ [do |-> "binary", op |-> op] \in PlainTasks
<1>1. [do |-> "unary", op |-> op] \in OperatorTasks /\ [do |-> "binary", op |-> op] \in OperatorTasks
  BY DEF OperatorTasks
<1> QED
  BY <1>1, PlainTasksAre

\* What is done when a task of these is in front.
LEMMA DoingPlain ==
  ASSUME CInv, NEW what \in PlainDo, Doing(what)
  PROVE  Task \in PlainTasks /\ Task.do = what /\ Good(context) /\ Keeps(context, context)
<1>1. Task \in Tasks /\ Good(context)
  BY WorkIs
<1>2. Task.do = what
  BY DEF Doing, Task
<1> QED
  BY <1>1, <1>2, TaskKinds, KeepsItself

-----------------------------------------------------------------------------
(***************************************************************************)
(* The steps that leave the depths and the current function alone.         *)
(***************************************************************************)
LEMMA DeclarationStep == ASSUME CInv, Declaration PROVE CInv'
<1> DEFINE one == IF Is("class", context) THEN <<>>
                  ELSE IF context.token \in {"var", "fn"} THEN <<Do(context.token)>>
                  ELSE <<Do("statement")>>
<1>1. Task \in PlainTasks /\ Keeps(context, context)
  BY DoingPlain DEF Declaration, PlainDo
<1>2. FewPlain(one \o <<Do("synchronize")>>)
  <2>1. Do("synchronize") \in PlainTasks /\ Do("statement") \in PlainTasks
    BY PlainSimple DEF SimpleDo
  <2>2. CASE one = <<>>
    <3> DEFINE y == Do("synchronize")
    <3> HIDE DEF one, y
    <3>0. <<y>> \in Seq({y})
      OBVIOUS
    <3>1. one \o <<y>> = <<y>>
      BY <2>2, <3>0, ConcatEmptySeq
    <3> USE DEF y
    <3> QED
      BY <2>1, <3>1, FewAre
  <2>3. ASSUME NEW x \in PlainTasks, one = <<x>>
        PROVE  FewPlain(one \o <<Do("synchronize")>>)
    <3> HIDE DEF one
    <3>1. one \o <<Do("synchronize")>> = <<x, Do("synchronize")>>
      BY <2>1, <2>3, PairIs
    <3> QED
      BY <2>1, <3>1, FewAre
  <2>4. context.token \in {"var", "fn"} => Do(context.token) \in PlainTasks
    BY PlainSimple DEF SimpleDo
  <2> QED
    BY <2>1, <2>2, <2>3, <2>4
<1>3. Go(context, one \o <<Do("synchronize")>>)
  BY DEF Declaration
<1> HIDE DEF one
<1> QED
  BY <1>1, <1>2, <1>3, PlainStep

LEMMA SynchronizeStep == ASSUME CInv, Synchronize PROVE CInv'
<1>1. Task \in PlainTasks /\ Good(context) /\ Keeps(context, context)
  BY DoingPlain DEF Synchronize, PlainDo
<1>2. Keeps(context, Synchronized(context))
  BY <1>1, SynchronizedKeeps
<1>3. Go(Synchronized(context), <<>>) \/ Go(context, <<>>)
  BY DEF Synchronize, Return
<1> QED
  BY <1>1, <1>2, <1>3, PlainStep, FewAre

LEMMA VarDeclarationStep == ASSUME CInv, VarDeclaration PROVE CInv'
<1> DEFINE c   == Consume("var", context)
           i   == Identifier(TRUE, c)
           end == [do |-> "end var", id |-> Id(i)]
           null == [type |-> "null"]
<1>1. Task \in PlainTasks /\ Good(context)
  BY DoingPlain DEF VarDeclaration, PlainDo
<1>2. Keeps(context, c) /\ Good(c)
  BY <1>1, ConsumeKeeps DEF Keeps
<1>3. Keeps(c, i.to) /\ Id(i) \in Ids /\ Good(i.to)
  BY <1>2, IdentifierIs DEF Keeps
<1>4. end \in PlainTasks /\ Expression \in PlainTasks
  BY <1>3, PlainIds, PlainSimple
<1>5. null \in ConstantValues /\ null.type # "function"
  BY DEF ConstantValues
<1>6. Keeps(i.to, Consume("=", i.to)) /\ Keeps(i.to, EmitConstant(null, i.to))
  BY <1>3, <1>5, ConsumeKeeps, EmitConstantKeeps
<1>7. \/ Go(Consume("=", i.to), <<Expression, end>>)
      \/ Go(EmitConstant(null, i.to), <<end>>)
  BY DEF VarDeclaration
<1> HIDE DEF c, i, end, null
<1>8. Keeps(context, Consume("=", i.to)) /\ Keeps(context, EmitConstant(null, i.to))
  BY <1>2, <1>3, <1>6, KeepsOn
<1> QED
  BY <1>1, <1>4, <1>7, <1>8, PlainStep, FewAre

LEMMA EndVarDeclarationStep == ASSUME CInv, EndVarDeclaration PROVE CInv'
<1> DEFINE c == Consume(";", context)
<1>1. Task \in PlainTasks /\ Task.do = "end var" /\ Good(context)
  BY DoingPlain DEF EndVarDeclaration, PlainDo
<1>2. Task.id \in Ids
  BY <1>1, PlainFields DEF IdTasks
<1>3. Keeps(context, c) /\ Good(c)
  BY <1>1, ConsumeKeeps DEF Keeps
<1>4. Keeps(context, Define(Task.id, c))
  BY <1>2, <1>3, DefineKeeps, KeepsOn
<1>5. Go(Define(Task.id, c), <<>>)
  BY DEF EndVarDeclaration
<1> QED
  BY <1>1, <1>4, <1>5, PlainStep, FewAre

LEMMA ArityKeeps ==
  ASSUME NEW c, Good(c), c.current # 1, NEW arity \in Nat
  PROVE  Keeps(c, [Consume(")", c) EXCEPT !.functions[c.current].arity = arity % 256])
<1> DEFINE d == Consume(")", c)
           fun == [Current(d) EXCEPT !.arity = arity % 256]
<1>1. Keeps(c, d) /\ Good(d) /\ d.current = c.current
  BY ConsumeKeeps DEF Keeps
<1>2. Current(d) \in CompiledFunctions
  BY <1>1, CurrentIs
<1>3. arity % 256 \in CodeByte
  BY DEF CodeByte
<1>4. /\ fun \in CompiledFunctions
      /\ fun.constants = Current(d).constants /\ fun.names = Current(d).names
  BY <1>2, <1>3 DEF CompiledFunctions
<1>5. Keeps(d, [d EXCEPT !.functions[d.current] = fun])
  <2>1. ~ d.error => NamesOnly(Current(d))
    BY <1>1 DEF Good, Contexts, AllNamed, Current
  <2> HIDE DEF fun, d
  <2>2. ~ d.error => NamesOnly(fun)
    BY <1>4, <2>1 DEF NamesOnly
  <2>3. \A k, g : Owns(fun, k, g) <=> Owns(Current(d), k, g)
    BY <1>4, ConstantsOwn
  <2> QED
    BY <1>1, <1>4, <2>2, <2>3, FunctionKeeps
<1>6. [d EXCEPT !.functions[d.current] = fun]
        = [d EXCEPT !.functions[c.current].arity = arity % 256]
  BY <1>1 DEF Current
<1> HIDE DEF d, fun
<1>7. Keeps(c, [d EXCEPT !.functions[c.current].arity = arity % 256])
  BY <1>1, <1>5, <1>6, KeepsOn
<1> QED
  BY <1>7 DEF d

LEMMA ParametersStep == ASSUME CInv, Parameters PROVE CInv'
<1> DEFINE named == Identifier(TRUE, context).to
           arity == Task.arity + 1
           again == [Task EXCEPT !.arity = arity]
           w == Tail(work)
<1>1. Task.do = "parameters" /\ Task \in Tasks
  BY WorkIs DEF Parameters, Doing, Task
<1>2. Task \in ParameterTasks /\ Task.do # "program"
  BY <1>1, TaskKinds
<1>3. /\ w \in Seq(Tasks) /\ w # <<>> /\ Good(context) /\ Kept(context, <<Task>> \o w)
  BY <1>2, WorkIs
<1>4. Task.arity \in Nat /\ arity \in Nat /\ again \in ParameterTasks
  BY <1>2 DEF ParameterTasks
<1> HIDE DEF w
<1>5. (\E i \in DOMAIN w : Making(w[i])) /\ Kept(context, w) /\ context.current # 1
  <2>1. (\E i \in DOMAIN w : Making(w[i])) /\ Kept(context, w)
    BY <1>2, <1>3, ParametersInFront
  <2> QED
    BY <1>3, <2>1, NotMain
<1>6. Keeps(context, named) /\ Good(named)
  BY <1>3, IdentifierIs DEF Keeps
<1>7. ASSUME NEW d, Keeps(context, d), NEW n \in Nat, EndParameters(n, d)
      PROVE  CInv'
  <2> DEFINE e == [Consume(")", d) EXCEPT !.functions[d.current].arity = n % 256]
  <2>1. Keeps(d, e)
    BY <1>5, <1>7, ArityKeeps DEF Keeps
  <2>2. Go(e, <<>>)
    BY <1>7 DEF EndParameters
  <2> HIDE DEF e
  <2>3. Keeps(context, e)
    BY <1>7, <2>1, KeepsOn
  <2>4. Good(e) /\ Kept(e, w) /\ <<>> \o w = w
    BY <1>3, <1>5, <2>3, KeepsKept, ConcatEmptySeq DEF Keeps
  <2> QED
    BY <2>2, <2>4, GoTo DEF w
<1>8. Keeps(named, Consume(",", named))
  BY <1>6, ConsumeKeeps
<1>9. \/ EndParameters(Task.arity, context)
      \/ Go(Consume(",", named), <<again>>)
      \/ EndParameters(arity, named)
  BY DEF Parameters
<1>10. Keeps(context, context)
  BY <1>3, KeepsItself
<1> HIDE DEF named, arity, again
<1>11. Keeps(context, Consume(",", named))
  BY <1>6, <1>8, KeepsOn
<1>12. CASE Go(Consume(",", named), <<again>>)
  <2> DEFINE c == Consume(",", named)
  <2>1. Good(c) /\ Kept(c, w)
    BY <1>5, <1>11, KeepsKept DEF Keeps
  <2> HIDE DEF c
  <2>2. Kept(c, <<again>> \o w)
    BY <1>3, <1>4, <1>5, <2>1, ParametersInFront
  <2> QED
    BY <1>12, <2>1, <2>2, GoTo DEF c, w
<1>13. CASE EndParameters(Task.arity, context)
  BY <1>4, <1>7, <1>10, <1>13
<1>14. CASE EndParameters(arity, named)
  BY <1>4, <1>6, <1>7, <1>14
<1> QED
  BY <1>9, <1>12, <1>13, <1>14

LEMMA StatementStep == ASSUME CInv, Statement PROVE CInv'
<1>1. Task \in PlainTasks /\ Keeps(context, context)
  BY DoingPlain DEF Statement, PlainDo
<1>2. context.token \in {"if", "while", "for", "{", "break", "continue", "return"}
        => Do(context.token) \in PlainTasks
  BY PlainSimple DEF SimpleDo
<1>3. Do("expression statement") \in PlainTasks
  BY PlainSimple DEF SimpleDo
<1>4. \E x \in PlainTasks : Go(context, <<x>>)
  BY <1>2, <1>3 DEF Statement
<1> QED
  BY <1>1, <1>4, PlainStep, FewAre

LEMMA ConsumeLastStep == ASSUME CInv, ConsumeLast PROVE CInv'
<1>1. Task \in PlainTasks /\ Good(context)
  BY DoingPlain DEF ConsumeLast, PlainDo
<1>2. Keeps(context, Consume(Task.type, context))
  BY <1>1, ConsumeKeeps
<1>3. Go(Consume(Task.type, context), <<>>)
  BY DEF ConsumeLast
<1> QED
  BY <1>1, <1>2, <1>3, PlainStep, FewAre

LEMMA ExpressionStatementStep == ASSUME CInv, ExpressionStatement PROVE CInv'
<1>1. Task \in PlainTasks /\ Keeps(context, context)
  BY DoingPlain DEF ExpressionStatement, PlainDo
<1>2. Go(context, <<Expression, Consuming(";")>>)
  BY DEF ExpressionStatement
<1> QED
  BY <1>1, <1>2, PlainSimple, PlainStep, FewAre

LEMMA ReturnStatementStep == ASSUME CInv, ReturnStatement PROVE CInv'
<1>1. Task \in PlainTasks /\ Good(context)
  BY DoingPlain DEF ReturnStatement, PlainDo
<1>2. Keeps(context, Consume("return", context))
  BY <1>1, ConsumeKeeps
<1>3. Go(Consume("return", context), <<Expression, Do("end return")>>)
  BY DEF ReturnStatement
<1>4. Do("end return") \in PlainTasks
  BY PlainSimple DEF SimpleDo
<1> QED
  BY <1>1, <1>2, <1>3, <1>4, PlainSimple, PlainStep, FewAre

LEMMA EndReturnStep == ASSUME CInv, EndReturn PROVE CInv'
<1> DEFINE c == Consume(";", context)
<1>1. Task \in PlainTasks /\ Good(context)
  BY DoingPlain DEF EndReturn, PlainDo
<1>2. Keeps(context, c) /\ Good(c)
  BY <1>1, ConsumeKeeps DEF Keeps
<1>3. <<OP_RETURN>> \in Seq(CodeByte)
  BY Opcodes, Bytes
<1>4. Keeps(context, Emit(<<OP_RETURN>>, c))
  BY <1>2, <1>3, EmitKeeps, KeepsOn
<1>5. Go(Emit(<<OP_RETURN>>, c), <<>>)
  BY DEF EndReturn
<1> QED
  BY <1>1, <1>4, <1>5, PlainStep, FewAre

LEMMA IfStep == ASSUME CInv, If PROVE CInv'
<1> DEFINE c == Consume("if", context)
<1>1. Task \in PlainTasks /\ Good(context)
  BY DoingPlain DEF If, PlainDo
<1>2. Keeps(context, c) /\ Good(c)
  BY <1>1, ConsumeKeeps DEF Keeps
<1>3. Keeps(context, Consume("(", c))
  BY <1>2, ConsumeKeeps, KeepsOn
<1>4. Go(Consume("(", c), <<Expression, Do("then")>>)
  BY DEF If
<1>5. Do("then") \in PlainTasks
  BY PlainSimple DEF SimpleDo
<1> QED
  BY <1>1, <1>3, <1>4, <1>5, PlainSimple, PlainStep, FewAre

LEMMA ThenStep == ASSUME CInv, Then PROVE CInv'
<1> DEFINE c == Consume(")", context)
           else == [do |-> "else", jump |-> Size(c)]
<1>1. Task \in PlainTasks /\ Good(context)
  BY DoingPlain DEF Then, PlainDo
<1>2. Keeps(context, c) /\ Good(c)
  BY <1>1, ConsumeKeeps DEF Keeps
<1>3. OP_JUMP_IF_FALSE \in CodeByte
  BY Opcodes
<1>4. Keeps(context, EmitJump(OP_JUMP_IF_FALSE, c))
  BY <1>2, <1>3, EmitJumpKeeps, KeepsOn
<1>5. else \in PlainTasks
  BY <1>2, CurrentIs, PlainNumbers
<1>6. Go(EmitJump(OP_JUMP_IF_FALSE, c), <<Do("statement"), else>>)
  BY DEF Then
<1>7. Do("statement") \in PlainTasks
  BY PlainSimple DEF SimpleDo
<1> HIDE DEF c, else
<1> QED
  BY <1>1, <1>4, <1>5, <1>6, <1>7, PlainStep, FewAre

LEMMA ElseStep == ASSUME CInv, Else PROVE CInv'
<1> DEFINE d == Consume("else", context)
           c == EmitJump(OP_JUMP, d)
           over == UpdateJump(Task.jump, Size(c) - (Task.jump + 3), c)
           none == UpdateJump(Task.jump, Size(context) - (Task.jump + 3), context)
           end == [do |-> "end if", jump |-> Size(context)]
<1>1. Task \in PlainTasks /\ Task.do = "else" /\ Good(context)
  BY DoingPlain DEF Else, PlainDo
<1>2. Task.jump \in Nat
  BY <1>1, PlainFields DEF JumpTasks
<1>3. Keeps(context, d) /\ Good(d)
  BY <1>1, ConsumeKeeps DEF Keeps
<1>4. OP_JUMP \in CodeByte
  BY Opcodes
<1>5. Keeps(context, c) /\ Good(c)
  BY <1>3, <1>4, EmitJumpKeeps, KeepsOn DEF Keeps
<1>6. Size(c) \in Nat /\ Size(context) \in Nat
  BY <1>1, <1>5, CurrentIs
<1>7. /\ Task.jump \in Int /\ Size(c) - (Task.jump + 3) \in Int
      /\ Size(context) - (Task.jump + 3) \in Int
  BY <1>2, <1>6
<1>8. Keeps(c, over) /\ Keeps(context, none)
  BY <1>1, <1>5, <1>7, UpdateJumpKeeps
<1>9. end \in PlainTasks /\ Do("statement") \in PlainTasks
  BY <1>6, PlainNumbers, PlainSimple DEF SimpleDo
<1>10. Go(context, <<>>) \/ Go(over, <<Do("statement"), end>>) \/ Go(none, <<>>)
  BY DEF Else, Return
<1> HIDE DEF c, d, over, none, end
<1>11. Keeps(context, over) /\ Keeps(context, context)
  BY <1>1, <1>5, <1>8, KeepsOn, KeepsItself
<1> QED
  BY <1>1, <1>8, <1>9, <1>10, <1>11, PlainStep, FewAre

LEMMA EndIfStep == ASSUME CInv, EndIf PROVE CInv'
<1> DEFINE none == UpdateJump(Task.jump, Size(context) - (Task.jump + 3), context)
<1>1. Task \in PlainTasks /\ Task.do = "end if" /\ Good(context) /\ Keeps(context, context)
  BY DoingPlain DEF EndIf, PlainDo
<1>2. Task.jump \in Nat
  BY <1>1, PlainFields DEF JumpTasks
<1>3. Size(context) \in Nat
  BY <1>1, CurrentIs
<1>4. Task.jump \in Int /\ Size(context) - (Task.jump + 3) \in Int
  BY <1>2, <1>3
<1>5. Keeps(context, none)
  BY <1>1, <1>4, UpdateJumpKeeps
<1>6. Go(context, <<>>) \/ Go(none, <<>>)
  BY DEF EndIf, Return
<1> HIDE DEF none
<1> QED
  BY <1>1, <1>5, <1>6, PlainStep, FewAre

LEMMA LeaveLoopStep ==
  ASSUME CInv, Task \in PlainTasks, NEW op \in CodeByte,
         NEW jumps \in {"break_jumps", "continue_jumps"}, LeaveLoop(op, jumps)
  PROVE  CInv'
<1> DEFINE c     == Consume(Task.do, context)
           read  == Consume(";", c)
           there == PopScopes(c.loop_depth, read)
           jump  == [index |-> Size(there), pos |-> Size(there) + 3, depth |-> c.scope_depth]
           d     == EmitJump(op, there)
           e     == [d EXCEPT ![jumps] = Append(@, jump)]
<1>1. Good(context)
  BY WorkIs
<1>2. Keeps(context, c) /\ Good(c)
  BY <1>1, ConsumeKeeps DEF Keeps
<1>3. Keeps(context, Panic(c))
  BY <1>2, PanicKeeps, KeepsOn
<1>4. Keeps(c, read) /\ Good(read)
  BY <1>2, ConsumeKeeps DEF Keeps
<1>5. Keeps(read, there) /\ Good(there)
  BY <1>4, PopScopesKeeps DEF Keeps
<1>6. Keeps(there, d) /\ Good(d)
  BY <1>5, EmitJumpKeeps DEF Keeps
<1>7. Size(there) \in Nat /\ c.scope_depth \in Nat
  BY <1>2, <1>5, CurrentIs, GoodNumbers
<1>9. Go(Panic(c), <<>>) \/ Go(e, <<>>)
  BY DEF LeaveLoop
<1> HIDE DEF d, there, read, c
<1>8. jump \in PendingJump
  <2>1. \A n, m \in Nat : [index |-> n, pos |-> n + 3, depth |-> m] \in PendingJump
    BY DEF PendingJump
  <2> QED
    BY <1>7, <2>1
<1> HIDE DEF jump
<1>10. Keeps(d, e)
  <2>1. CASE jumps = "break_jumps"
    <3>1. Append(d.break_jumps, jump) \in Seq(PendingJump)
      BY <1>6, <1>8 DEF Good, Contexts
    <3>2. e = [d EXCEPT !.break_jumps = Append(d.break_jumps, jump)]
      BY <1>6, <2>1 DEF Good, Contexts
    <3> QED
      BY <1>6, <3>1, <3>2 DEF Keeps, Good, Contexts
  <2>2. CASE jumps = "continue_jumps"
    <3>1. Append(d.continue_jumps, jump) \in Seq(PendingJump)
      BY <1>6, <1>8 DEF Good, Contexts
    <3>2. e = [d EXCEPT !.continue_jumps = Append(d.continue_jumps, jump)]
      BY <1>6, <2>2 DEF Good, Contexts
    <3> QED
      BY <1>6, <3>1, <3>2 DEF Keeps, Good, Contexts
  <2> QED
    BY <2>1, <2>2
<1> HIDE DEF e
<1>11. Keeps(context, e)
  BY <1>2, <1>4, <1>5, <1>6, <1>10, KeepsOn
<1> QED
  BY <1>3, <1>9, <1>11, PlainStep, FewAre

LEMMA BreakStep == ASSUME CInv, Break PROVE CInv'
<1>1. Task \in PlainTasks
  BY DoingPlain DEF Break, PlainDo
<1>2. OP_JUMP \in CodeByte
  BY Opcodes
<1> QED
  BY <1>1, <1>2, LeaveLoopStep DEF Break

LEMMA ContinueStep == ASSUME CInv, Continue PROVE CInv'
<1>1. Task \in PlainTasks
  BY DoingPlain DEF Continue, PlainDo
<1>2. OP_JUMP_BACK \in CodeByte
  BY Opcodes
<1> QED
  BY <1>1, <1>2, LeaveLoopStep DEF Continue

-----------------------------------------------------------------------------
(***************************************************************************)
(* Expressions.                                                            *)
(***************************************************************************)
LEMMA DoingPrecedence ==
  ASSUME CInv, Task \in PlainTasks,
         Task.do \in {"precedence", "infix", "operators"}
  PROVE  Task.can_assign \in BOOLEAN /\ Task.min \in Nat
<1>1. Task \in PrecedenceTasks
  BY PlainFields
<1> QED
  BY <1>1 DEF PrecedenceTasks

LEMMA InfixTask ==
  ASSUME CInv, Task \in PlainTasks, Task.do = "precedence", NEW can_assign \in BOOLEAN
  PROVE  Infix(can_assign) \in PlainTasks /\ Infix(Task.can_assign) \in PlainTasks
<1>1. Task.can_assign \in BOOLEAN /\ Task.min \in Nat
  BY DoingPrecedence
<1> QED
  BY <1>1, PlainPrecedence DEF Infix

LEMMA LiteralStep == ASSUME CInv, Literal PROVE CInv'
<1> DEFINE t == TypeOf(context.token)
           value == [type |-> t, token |-> context.token]
           bytes == <<CASE t = "true" -> OP_TRUE [] t = "false" -> OP_FALSE
                        [] t = "null" -> OP_NULL>>
           c == IF t \in Constants THEN EmitConstant(value, context) ELSE Emit(bytes, context)
<1>1. Task \in PlainTasks /\ Task.do = "precedence" /\ Good(context)
  BY DoingPlain DEF Literal, PlainDo
<1>2. t \in Constants \cup {"true", "false", "null"} /\ Go(Advance(c), <<Infix(FALSE)>>)
  BY DEF Literal
<1>3. context.token \in AllTokens
  BY <1>1, GoodNumbers
<1> HIDE DEF t
<1>4. Keeps(context, c)
  <2>1. CASE t \in Constants
    <3>1. value \in LiteralValues /\ value.type # "function"
      BY <1>3, <2>1 DEF LiteralValues, Constants, t
    <3>2. value \in ConstantValues
      BY <3>1 DEF ConstantValues
    <3> HIDE DEF value
    <3> QED
      BY <1>1, <2>1, <3>1, <3>2, EmitConstantKeeps
  <2>2. CASE t \notin Constants
    <3>1. bytes \in {<<OP_TRUE>>, <<OP_FALSE>>, <<OP_NULL>>}
      BY <1>2, <2>2
    <3>2. OP_TRUE \in CodeByte /\ OP_FALSE \in CodeByte /\ OP_NULL \in CodeByte
      BY Opcodes
    <3>3. bytes \in Seq(CodeByte)
      BY <3>1, <3>2, Bytes
    <3> HIDE DEF bytes
    <3> QED
      BY <1>1, <2>2, <3>3, EmitKeeps
  <2> QED
    BY <2>1, <2>2
<1> HIDE DEF c
<1>5. Keeps(context, Advance(c))
  BY <1>4, AdvanceKeeps, KeepsOn DEF Keeps
<1>6. Infix(FALSE) \in PlainTasks
  BY <1>1, InfixTask
<1> QED
  BY <1>1, <1>2, <1>5, <1>6, PlainStep, FewAre

LEMMA GroupingStep == ASSUME CInv, Grouping PROVE CInv'
<1>1. Task \in PlainTasks /\ Task.do = "precedence" /\ Good(context)
  BY DoingPlain DEF Grouping, PlainDo
<1>2. Keeps(context, Consume("(", context))
  BY <1>1, ConsumeKeeps
<1>3. Infix(Task.can_assign) \in PlainTasks
  BY <1>1, InfixTask
<1>4. Go(Consume("(", context), <<Expression, Consuming(")"), Infix(Task.can_assign)>>)
  BY DEF Grouping
<1> QED
  BY <1>1, <1>2, <1>3, <1>4, PlainSimple, PlainStep, FewAre

LEMMA NameStep == ASSUME CInv, Name PROVE CInv'
<1> DEFINE i == Identifier(FALSE, context)
           id == Id(i)
           call == [do |-> "arguments", id |-> id, args |-> 0]
           assign == [do |-> "assign", id |-> id]
<1>1. Task \in PlainTasks /\ Task.do = "precedence" /\ Good(context)
  BY DoingPlain DEF Name, PlainDo
<1>2. Keeps(context, i.to) /\ id \in Ids /\ Good(i.to)
  BY <1>1, IdentifierIs DEF Keeps
<1>3. call \in PlainTasks /\ assign \in PlainTasks /\ Operand(1, FALSE) \in PlainTasks
  BY <1>2, PlainIds, PlainPrecedence
<1>4. Infix(Task.can_assign) \in PlainTasks
  BY <1>1, InfixTask
<1>5. /\ Keeps(i.to, Consume("(", i.to)) /\ Keeps(i.to, Consume("=", i.to))
      /\ Keeps(i.to, Emit(GetOf(id), i.to))
  BY <1>2, ConsumeKeeps, EmitKeeps, IdBytes
<1>6. \/ Go(Consume("(", i.to), <<call, Infix(Task.can_assign)>>)
      \/ Go(Consume("=", i.to), <<Operand(1, FALSE), assign>>)
      \/ Go(Emit(GetOf(id), i.to), <<Infix(Task.can_assign)>>)
  BY DEF Name
<1> HIDE DEF i, id, call, assign
<1>7. /\ Keeps(context, Consume("(", i.to)) /\ Keeps(context, Consume("=", i.to))
      /\ Keeps(context, Emit(GetOf(id), i.to))
  BY <1>2, <1>5, KeepsOn
<1> QED
  BY <1>1, <1>3, <1>4, <1>6, <1>7, PlainStep, FewAre

LEMMA AssignStep == ASSUME CInv, Assign PROVE CInv'
<1>1. Task \in PlainTasks /\ Task.do = "assign" /\ Good(context)
  BY DoingPlain DEF Assign, PlainDo
<1>2. Task.id \in Ids
  BY <1>1, PlainFields DEF IdTasks
<1>3. Keeps(context, Emit(SetOf(Task.id), context))
  BY <1>1, <1>2, IdBytes, EmitKeeps
<1>4. Go(Emit(SetOf(Task.id), context), <<>>)
  BY DEF Assign
<1> QED
  BY <1>1, <1>3, <1>4, PlainStep, FewAre

LEMMA Strengths == ASSUME NEW type PROVE Precedence(type) \in Nat
  BY DEF Precedence

LEMMA PrefixStep == ASSUME CInv, Prefix PROVE CInv'
<1> DEFINE operand == Operand(Precedence(context.token) + 6, FALSE)
           unary == [do |-> "unary", op |-> context.token]
<1>1. Task \in PlainTasks /\ Task.do = "precedence" /\ Good(context)
  BY DoingPlain DEF Prefix, PlainDo
<1>2. Keeps(context, Advance(context)) /\ context.token \in AllTokens
  BY <1>1, AdvanceKeeps, GoodNumbers
<1>3. Precedence(context.token) + 6 \in Nat
  BY Strengths
<1>4. operand \in PlainTasks /\ unary \in PlainTasks /\ Infix(Task.can_assign) \in PlainTasks
  BY <1>1, <1>2, <1>3, PlainPrecedence, PlainOperators, InfixTask
<1>5. Go(Advance(context), <<operand, unary, Infix(Task.can_assign)>>)
  BY DEF Prefix
<1> HIDE DEF operand, unary
<1> QED
  BY <1>1, <1>2, <1>4, <1>5, PlainStep, FewAre

LEMMA EndlessPrefixStep == ASSUME CInv, EndlessPrefix PROVE CInv'
  BY DEF EndlessPrefix, Stop, CInv

LEMMA UnaryStep == ASSUME CInv, Unary PROVE CInv'
<1> DEFINE bytes == UnaryCode(Task.op)
<1>1. Task \in PlainTasks /\ Good(context)
  BY DoingPlain DEF Unary, PlainDo
<1>2. bytes \in Seq(CodeByte)
  <2>1. bytes = <<OP_NEGATE>> \/ bytes = <<OP_NOT>> \/ bytes = <<>>
    BY DEF UnaryCode
  <2> QED
    BY <2>1, Opcodes, Bytes
<1>3. Go(Emit(bytes, context), <<>>)
  BY DEF Unary
<1> HIDE DEF bytes
<1>4. Keeps(context, Emit(bytes, context))
  BY <1>1, <1>2, EmitKeeps
<1> QED
  BY <1>1, <1>3, <1>4, PlainStep, FewAre

LEMMA OperatorStep == ASSUME CInv, Operator PROVE CInv'
<1> DEFINE next == [Task EXCEPT !.do = "operators", !.can_assign = @ /\ Is("=", context)]
<1>1. Task \in PlainTasks /\ Task.do = "infix" /\ Good(context)
  BY DoingPlain DEF Operator, PlainDo
<1>2. Task \in PrecedenceTasks
  BY <1>1, PlainFields
<1>3. next \in PrecedenceTasks
  <2>1. (Task.can_assign /\ Is("=", context)) \in BOOLEAN
    BY <1>2 DEF PrecedenceTasks, Is
  <2> QED
    BY <1>2, <2>1 DEF PrecedenceTasks
<1>4. next \in PlainTasks
  BY <1>3, PlainTasksAre
<1>5. Keeps(context, Panic(context)) /\ Keeps(context, context)
  BY <1>1, PanicKeeps, KeepsItself
<1>6. Go(Panic(context), <<>>) \/ Go(context, <<next>>)
  BY DEF Operator
<1> HIDE DEF next
<1> QED
  BY <1>1, <1>4, <1>5, <1>6, PlainStep, FewAre

LEMMA OperatorsStep == ASSUME CInv, Operators PROVE CInv'
<1> DEFINE strength == Precedence(TypeOf(context.token))
           operand == Operand(strength, Task.can_assign)
           binary == [do |-> "binary", op |-> context.token]
<1>1. Task \in PlainTasks /\ Task.do = "operators" /\ Good(context)
  BY DoingPlain DEF Operators, PlainDo
<1>2. /\ Keeps(context, Advance(context)) /\ context.token \in AllTokens
      /\ Keeps(context, context)
  BY <1>1, AdvanceKeeps, GoodNumbers, KeepsItself
<1>3. Task.can_assign \in BOOLEAN /\ strength \in Nat
  BY <1>1, DoingPrecedence, Strengths
<1>4. operand \in PlainTasks /\ binary \in PlainTasks
  BY <1>2, <1>3, PlainPrecedence, PlainOperators
<1>5. Go(Advance(context), <<operand, binary, Task>>) \/ Go(context, <<>>)
  BY DEF Operators, Return
<1> HIDE DEF operand, binary
<1> QED
  BY <1>1, <1>2, <1>4, <1>5, PlainStep, FewAre

LEMMA BinaryStep == ASSUME CInv, Binary PROVE CInv'
<1> DEFINE bytes == BinaryCode(Task.op)
<1>1. Task \in PlainTasks /\ Good(context)
  BY DoingPlain DEF Binary, PlainDo
<1>2. bytes \in Seq(CodeByte)
  <2>1. \/ bytes \in {<<OP_ADD>>, <<OP_SUBSTRACT>>, <<OP_MULTIPLY>>, <<OP_DIVIDE>>}
        \/ bytes \in {<<OP_EQ>>, <<OP_NE>>, <<OP_GT>>, <<OP_GTE>>, <<OP_LT>>, <<OP_LTE>>}
        \/ bytes = <<OP_SET_GLOBAL>> \/ bytes = <<>>
    BY DEF BinaryCode
  <2> HIDE DEF bytes
  <2> QED
    BY <2>1, Opcodes, Bytes
<1>3. Go(Emit(bytes, context), <<>>)
  BY DEF Binary
<1> HIDE DEF bytes
<1>4. Keeps(context, Emit(bytes, context))
  BY <1>1, <1>2, EmitKeeps
<1> QED
  BY <1>1, <1>3, <1>4, PlainStep, FewAre

LEMMA EndCallStep ==
  ASSUME CInv, Task \in PlainTasks, Task.do \in {"arguments", "argument"}, EndCall(Task.args)
  PROVE  CInv'
<1> DEFINE d == Consume(")", context)
           bytes == GetOf(Task.id) \o <<OP_CALL, Task.args % 256>>
           c == Emit(bytes, d)
           again == [do |-> "arguments", id |-> Task.id, args |-> 0]
<1>1. Good(context)
  BY WorkIs
<1>2. Task.id \in Ids /\ Task.args \in Nat
  BY PlainFields DEF ArgumentTasks
<1>3. Keeps(context, d) /\ Good(d)
  BY <1>1, ConsumeKeeps DEF Keeps
<1>4. bytes \in Seq(CodeByte)
  <2>1. Task.args % 256 \in CodeByte
    BY <1>2 DEF CodeByte
  <2>2. OP_CALL \in CodeByte /\ GetOf(Task.id) \in Seq(CodeByte)
    BY <1>2, Opcodes, IdBytes
  <2>3. <<OP_CALL, Task.args % 256>> \in Seq(CodeByte)
    BY <2>1, <2>2, Bytes
  <2> QED
    BY <2>2, <2>3
<1> HIDE DEF bytes
<1>5. Keeps(context, c) /\ Good(c)
  BY <1>3, <1>4, EmitKeeps, KeepsOn DEF Keeps
<1>6. again \in PlainTasks
  BY <1>2, PlainIds
<1>7. Go(Consume("(", c), <<again>>) \/ Go(c, <<>>)
  BY DEF EndCall, bytes
<1> HIDE DEF c, again
<1>8. Keeps(context, Consume("(", c))
  BY <1>5, ConsumeKeeps, KeepsOn
<1> QED
  BY <1>5, <1>6, <1>7, <1>8, PlainStep, FewAre

LEMMA ArgumentsStep == ASSUME CInv, Arguments PROVE CInv'
<1> DEFINE next == [Task EXCEPT !.do = "argument", !.args = @ + 1]
<1>1. Task \in PlainTasks /\ Task.do = "arguments" /\ Keeps(context, context)
  BY DoingPlain DEF Arguments, PlainDo
<1>2. Task \in ArgumentTasks
  BY <1>1, PlainFields
<1>3. next \in ArgumentTasks
  <2>1. Task.id \in Ids /\ Task.args \in Nat /\ Task.args + 1 \in Nat
    BY <1>2 DEF ArgumentTasks
  <2>2. next = [do |-> "argument", id |-> Task.id, args |-> Task.args + 1]
    <3> DEFINE more == Task.args + 1
    <3>1. next = [Task EXCEPT !.do = "argument", !.args = more]
      OBVIOUS
    <3> HIDE DEF more, next
    <3>2. next = [do |-> "argument", id |-> Task.id, args |-> more]
      BY <1>2, <3>1 DEF ArgumentTasks
    <3> QED
      BY <3>2 DEF more
  <2>3. \A id \in Ids, n \in Nat : [do |-> "argument", id |-> id, args |-> n] \in ArgumentTasks
    BY DEF ArgumentTasks
  <2> HIDE DEF next
  <2> QED
    BY <2>1, <2>2, <2>3
<1>4. next \in PlainTasks
  BY <1>3, PlainTasksAre
<1>5. EndCall(Task.args) \/ Go(context, <<Expression, next>>)
  BY DEF Arguments
<1> HIDE DEF next
<1>6. CASE EndCall(Task.args)
  BY <1>1, <1>6, EndCallStep
<1>7. CASE Go(context, <<Expression, next>>)
  BY <1>1, <1>4, <1>7, PlainSimple, PlainStep, FewAre
<1> QED
  BY <1>5, <1>6, <1>7

LEMMA ArgumentStep == ASSUME CInv, Argument PROVE CInv'
<1> DEFINE next == [Task EXCEPT !.do = "arguments"]
<1>1. Task \in PlainTasks /\ Task.do = "argument" /\ Good(context)
  BY DoingPlain DEF Argument, PlainDo
<1>2. Task \in ArgumentTasks
  BY <1>1, PlainFields
<1>3. next \in ArgumentTasks
  <2>1. Task.id \in Ids /\ Task.args \in Nat
    BY <1>2 DEF ArgumentTasks
  <2>2. next = [do |-> "arguments", id |-> Task.id, args |-> Task.args]
    BY <1>2 DEF ArgumentTasks
  <2>3. \A id \in Ids, n \in Nat : [do |-> "arguments", id |-> id, args |-> n] \in ArgumentTasks
    BY DEF ArgumentTasks
  <2> HIDE DEF next
  <2> QED
    BY <2>1, <2>2, <2>3
<1>4. next \in PlainTasks
  BY <1>3, PlainTasksAre
<1>5. Keeps(context, Consume(",", context))
  BY <1>1, ConsumeKeeps
<1>6. EndCall(Task.args) \/ Go(Consume(",", context), <<next>>)
  BY DEF Argument
<1> HIDE DEF next
<1>7. CASE EndCall(Task.args)
  BY <1>1, <1>7, EndCallStep
<1>8. CASE Go(Consume(",", context), <<next>>)
  BY <1>1, <1>4, <1>5, <1>8, PlainStep, FewAre
<1> QED
  BY <1>6, <1>7, <1>8

-----------------------------------------------------------------------------
(***************************************************************************)
(* Steps that begin, or end, what a task holds.                            *)
(***************************************************************************)
LEMMA HoldsOn ==
  ASSUME NEW w, NEW n \in Nat, NEW m \in Nat, n <= m, NEW current, NEW scope, NEW loop,
         NEW e \in BOOLEAN, NEW f \in BOOLEAN, e => f, Holds(w, n, current, scope, loop, e)
  PROVE  Holds(w, m, current, scope, loop, f)
<1>1. \A i \in DOMAIN w : Making(w[i]) => w[i].prev \in 1 .. m
  <2>1. 1 .. n \subseteq 1 .. m
    OBVIOUS
  <2> QED
    BY <2>1 DEF Holds
<1> QED
  BY <1>1 DEF Holds

LEMMA HoldsInError ==
  ASSUME NEW w, NEW n \in Nat, NEW current, NEW s \in Nat, NEW t \in Nat, s <= t,
         NEW k, NEW l, Holds(w, n, current, s, k, TRUE)
  PROVE  Holds(w, n, current, t, l, TRUE)
<1>1. Scopes(w) \in Nat /\ Scopes(w) <= s
  BY ScopesOf DEF Holds
<1>2. Scopes(w) <= t
  BY <1>1
<1> QED
  BY <1>2 DEF Holds

LEMMA TaskHolds ==
  ASSUME CInv, Task.do # "program"
  PROVE  /\ Making(Task) => Task.prev \in 1 .. Len(context.functions)
         /\ Scoped(Task) => context.scope_depth >= 1
         /\ Tail(work) \in Seq(Tasks) /\ Tail(work) # <<>>
         /\ Holds(Tail(work), Len(context.functions),
                  IF Making(Task) THEN Task.prev ELSE context.current,
                  IF Scoped(Task) THEN context.scope_depth - 1 ELSE context.scope_depth,
                  IF Looping(Task) THEN Task.outer ELSE context.loop_depth, context.error)
<1>1. /\ Task \in Tasks /\ Tail(work) \in Seq(Tasks) /\ work = <<Task>> \o Tail(work)
      /\ Tail(work) # <<>> /\ Good(context) /\ Kept(context, work)
  BY WorkIs
<1>2. /\ Len(context.functions) \in Nat /\ context.scope_depth \in Nat
      /\ context.error \in BOOLEAN
  BY <1>1, GoodNumbers
<1>3. Holds(<<Task>> \o Tail(work), Len(context.functions), context.current,
            context.scope_depth, context.loop_depth, context.error)
  BY <1>1 DEF Kept
<1> DEFINE w == Tail(work)
           n == Len(context.functions)
<1> HIDE DEF w, n
<1>4. /\ Making(Task) => Task.prev \in 1 .. n
      /\ Scoped(Task) => context.scope_depth >= 1
      /\ Holds(w, n, IF Making(Task) THEN Task.prev ELSE context.current,
               IF Scoped(Task) THEN context.scope_depth - 1 ELSE context.scope_depth,
               IF Looping(Task) THEN Task.outer ELSE context.loop_depth, context.error)
  <2>1. Holds(<<Task>> \o w, n, context.current, context.scope_depth, context.loop_depth,
              context.error)
    BY <1>3 DEF w, n
  <2>2. w \in Seq(Tasks) /\ w # <<>> /\ n \in Nat
    BY <1>1, <1>2 DEF w, n
  <2> QED
    BY <1>1, <1>2, <2>1, <2>2, HoldsInFront
<1> QED
  BY <1>1, <1>4 DEF w, n

LEMMA TaskHanded ==
  ASSUME CInv, Task.do # "program"
  PROVE  IF Making(Task)
           THEN \A k : Handed(Tail(work),
                               Made(context.functions) \cup
                                 {[fn |-> context.current, in |-> Task.prev, at |-> k]},
                               Len(context.functions), Task.prev)
           ELSE Handed(Tail(work), Made(context.functions), Len(context.functions),
                       context.current)
<1>1. /\ Task \in Tasks /\ Tail(work) \in Seq(Tasks) /\ work = <<Task>> \o Tail(work)
      /\ Good(context) /\ Kept(context, work)
      /\ Making(Task) => Task.prev \in 1 .. Len(context.functions)
  BY WorkIs, TaskHolds
<1> DEFINE w == Tail(work)
           n == Len(context.functions)
           made == Made(context.functions)
<1>2. n \in Nat /\ context.current \in Nat /\ context.current \in 1 .. n
  BY <1>1, GoodNumbers
<1>3. Handed(<<Task>> \o w, made, n, context.current)
  BY <1>1 DEF Kept
<1> HIDE DEF w, n, made
<1>4. CASE Making(Task)
  <2>1. Task \in FunctionTasks
    BY <1>4 DEF Making
  <2>2. \A k : Handed(w, made \cup {[fn |-> context.current, in |-> Task.prev, at |-> k]}, n,
                      Task.prev)
    BY <1>1, <1>2, <1>3, <1>4, <2>1, HandedEnds DEF w, n
  <2> QED
    BY <1>4, <2>2 DEF w, n, made
<1>5. CASE ~ Making(Task)
  <2>1. Handed(w, made, n, context.current)
    BY <1>1, <1>2, <1>3, <1>5, HandedInFront DEF w
  <2> QED
    BY <1>5, <2>1 DEF w, n, made
<1> QED
  BY <1>4, <1>5

\* A task that begins something is in front of what there was behind a plain one.
LEMMA Begins ==
  ASSUME CInv, Task \in PlainTasks, NEW y \in Tasks, y.do \notin {"program", "parameters"},
         NEW c, Good(c), context.error => c.error,
         Len(c.functions) = Len(context.functions) + (IF Making(y) THEN 1 ELSE 0),
         Made(c.functions) = Made(context.functions),
         c.scope_depth = context.scope_depth + (IF Scoped(y) THEN 1 ELSE 0),
         context.loop_depth = (IF Looping(y) THEN y.outer ELSE c.loop_depth),
         context.current = (IF Making(y) THEN y.prev ELSE c.current),
         Making(y) => c.current = Len(c.functions)
  PROVE  Kept(c, <<y>> \o Tail(work)) /\ Tail(work) \in Seq(Tasks)
<1> DEFINE w == Tail(work)
           n == Len(context.functions)
           m == Len(c.functions)
<1>1. Task.do # "program" /\ ~ Scoped(Task) /\ ~ Looping(Task) /\ ~ Making(Task)
  BY PlainHoldsNothing
<1>2. /\ w \in Seq(Tasks) /\ w # <<>> /\ Good(context)
      /\ Holds(w, n, context.current, context.scope_depth, context.loop_depth, context.error)
  BY <1>1, TaskHolds, WorkIs
<1>3. /\ n \in Nat /\ context.scope_depth \in Nat /\ context.error \in BOOLEAN
      /\ context.current \in 1 .. n
  BY <1>2, GoodNumbers
<1>4. /\ m \in Nat /\ c.scope_depth \in Nat /\ c.error \in BOOLEAN /\ c.current \in Nat
      /\ Making(y) => m = n + 1
      /\ ~ Making(y) => m = n
  <2>1. m \in Nat /\ c.scope_depth \in Nat /\ c.error \in BOOLEAN /\ c.current \in Nat
    BY GoodNumbers
  <2>2. m = n + (IF Making(y) THEN 1 ELSE 0)
    OBVIOUS
  <2> HIDE DEF n, m
  <2> QED
    BY <1>3, <2>1, <2>2
<1>5. Handed(w, Made(context.functions), n, context.current)
  BY <1>1, TaskHanded
<1> HIDE DEF w, n, m
<1>6. Holds(w, m, context.current, context.scope_depth, context.loop_depth, c.error)
  <2>1. n <= m
    BY <1>3, <1>4
  <2> QED
    BY <1>2, <1>3, <1>4, <2>1, HoldsOn
<1>7. /\ Making(y) => y.prev \in 1 .. m
      /\ Scoped(y) => c.scope_depth >= 1
      /\ (IF Scoped(y) THEN c.scope_depth - 1 ELSE c.scope_depth) = context.scope_depth
  <2>1. Making(y) => y.prev \in 1 .. m
    BY <1>3, <1>4
  <2>2. Scoped(y) => c.scope_depth = context.scope_depth + 1
    OBVIOUS
  <2>3. ~ Scoped(y) => c.scope_depth = context.scope_depth
    BY <1>3, <1>4
  <2> QED
    BY <1>3, <1>4, <2>1, <2>2, <2>3
<1>8. Holds(<<y>> \o w, m, c.current, c.scope_depth, c.loop_depth, c.error)
  BY <1>2, <1>4, <1>6, <1>7, HoldsInFront
<1>9. Handed(<<y>> \o w, Made(c.functions), m, c.current)
  <2>1. CASE Making(y)
    <3>1. y \in FunctionTasks /\ y.prev = context.current /\ c.current = m /\ m = n + 1
      BY <1>4, <2>1 DEF Making, m
    <3> QED
      BY <1>2, <1>3, <1>5, <3>1, HandedBegins
  <2>2. CASE ~ Making(y)
    <3>1. c.current = context.current /\ m = n
      BY <1>4, <2>2
    <3> QED
      BY <1>2, <1>4, <1>5, <2>2, <3>1, HandedInFront
  <2> QED
    BY <2>1, <2>2
<1> QED
  BY <1>2, <1>8, <1>9 DEF Kept, w, m

LEMMA BeginStep ==
  ASSUME CInv, Task \in PlainTasks, NEW y \in Tasks, y.do \notin {"program", "parameters"},
         ~ Making(y), NEW c, Good(c), context.error => c.error,
         Len(c.functions) = Len(context.functions), Made(c.functions) = Made(context.functions),
         c.scope_depth = context.scope_depth + (IF Scoped(y) THEN 1 ELSE 0),
         context.loop_depth = (IF Looping(y) THEN y.outer ELSE c.loop_depth),
         c.current = context.current,
         NEW front, FewPlain(front), Go(c, front \o <<y>>)
  PROVE  CInv'
<1> DEFINE w == Tail(work)
<1>1. Len(context.functions) \in Nat
  BY WorkIs, GoodNumbers
<1>2. Kept(c, <<y>> \o w) /\ w \in Seq(Tasks)
  <2>1. /\ Len(c.functions) = Len(context.functions) + (IF Making(y) THEN 1 ELSE 0)
        /\ context.current = (IF Making(y) THEN y.prev ELSE c.current)
        /\ Making(y) => c.current = Len(c.functions)
    BY <1>1
  <2> QED
    BY <2>1, Begins
<1> HIDE DEF w
<1>3. Kept(c, front \o (<<y>> \o w))
  BY <1>2, FewInFront
<1>4. (front \o <<y>>) \o w = front \o (<<y>> \o w)
  <2>1. front \in Seq(Tasks) /\ <<y>> \in Seq(Tasks)
    BY FewAreTasks
  <2> QED
    BY <1>2, <2>1, ConcatAssociative
<1> QED
  BY <1>3, <1>4, GoTo DEF w

LEMMA EndStep ==
  ASSUME CInv, Task.do # "program",
         NEW c, Good(c), context.error => c.error, Len(c.functions) = Len(context.functions),
         IF Making(Task)
           THEN \E k : Made(c.functions) = Made(context.functions) \cup
                         {[fn |-> context.current, in |-> Task.prev, at |-> k]}
           ELSE Made(c.functions) = Made(context.functions),
         c.scope_depth = (IF Scoped(Task) THEN context.scope_depth - 1
                          ELSE context.scope_depth),
         c.loop_depth = (IF Looping(Task) THEN Task.outer ELSE context.loop_depth),
         c.current = (IF Making(Task) THEN Task.prev ELSE context.current),
         Go(c, <<>>)
  PROVE  CInv'
<1> DEFINE w == Tail(work)
           n == Len(context.functions)
           m == Len(c.functions)
<1>1. w \in Seq(Tasks) /\ Good(context)
      /\ Holds(w, n, c.current, c.scope_depth, c.loop_depth, context.error)
  BY TaskHolds, WorkIs
<1>2. n \in Nat /\ context.error \in BOOLEAN /\ m \in Nat /\ c.error \in BOOLEAN
  BY <1>1, GoodNumbers
<1>3. Handed(w, Made(c.functions), n, c.current)
  BY TaskHanded
<1> HIDE DEF w
<1>4. Holds(w, m, c.current, c.scope_depth, c.loop_depth, c.error)
  BY <1>1, <1>2, HoldsOn
<1>5. Kept(c, w) /\ <<>> \o w = w
  BY <1>1, <1>3, <1>4, ConcatEmptySeq DEF Kept
<1> QED
  BY <1>5, GoTo DEF w

\* In panic a loop ends without giving back what it holds.
LEMMA PanicStep ==
  ASSUME CInv, Task \in LoopTasks \cup ForTasks, context.panic, Go(context, <<>>)
  PROVE  CInv'
<1> DEFINE w == Tail(work)
           n == Len(context.functions)
           s == IF Scoped(Task) THEN context.scope_depth - 1 ELSE context.scope_depth
           l == IF Looping(Task) THEN Task.outer ELSE context.loop_depth
<1>1. Task.do # "program" /\ ~ Making(Task)
  <2>1. Task \in Tasks
    BY WorkIs
  <2>2. Task.do \in LoopDo \cup ForDo
    BY LoopDoes, ForDoes
  <2>3. LoopDo \cap {"end fn", "program"} = {} /\ ForDo \cap {"end fn", "program"} = {}
    BY DEF LoopDo, ForDo
  <2> QED
    BY <2>1, <2>2, <2>3, TaskKinds DEF Making
<1>2. Good(context)
  BY WorkIs
<1>3. /\ Scoped(Task) => context.scope_depth >= 1
      /\ w \in Seq(Tasks)
      /\ Holds(w, n, context.current, s, l, context.error)
  BY <1>1, TaskHolds
<1>4. /\ n \in Nat /\ context.scope_depth \in Nat /\ context.error = TRUE
  BY <1>2, GoodNumbers DEF Good
<1>5. s \in Nat /\ s <= context.scope_depth
  BY <1>3, <1>4
<1> HIDE DEF w, s, l
<1>6. Holds(w, n, context.current, context.scope_depth, context.loop_depth, TRUE)
  <2>1. Holds(w, n, context.current, s, l, TRUE)
    BY <1>3, <1>4, Zenon
  <2> HIDE DEF n
  <2> QED
    BY <1>4, <1>5, <2>1, HoldsInError
<1>7. Handed(w, Made(context.functions), n, context.current)
  BY <1>1, TaskHanded DEF w
<1>8. Kept(context, w) /\ <<>> \o w = w
  BY <1>3, <1>4, <1>6, <1>7, ConcatEmptySeq DEF Kept
<1> QED
  BY <1>2, <1>8, GoTo DEF w

-----------------------------------------------------------------------------
(***************************************************************************)
(* The tasks of loops, one by one.                                         *)
(***************************************************************************)
WhileBodies   == [do : {"while body"}, start : Nat, outer : Depths]
WhileEnds     == [do : {"end while"}, start : Nat, test : Nat, outer : Depths]
ForConditions == [do : {"for condition"}, outer : Depths]
ForTests      == [do : {"for test"}, start : Nat, outer : Depths]
ForIncrements == [do : {"for increment"}, start : Nat, tests : BOOLEAN, outer : Depths]
ForBodies     == [do : {"for body"}, start : Nat, tests : BOOLEAN, outer : Depths, increment : Nat]
ForEnds       == [do : {"end for"}, start : Nat, tests : BOOLEAN, outer : Depths, increment : Nat,
                  body : Nat]

LEMMA LoopTasksAre ==
  /\ LoopTasks = WhileBodies \cup WhileEnds
  /\ ForTasks = ForConditions \cup ForTests \cup ForIncrements \cup ForBodies \cup ForEnds
  BY Zenon DEF LoopTasks, ForTasks, WhileBodies, WhileEnds, ForConditions, ForTests,
               ForIncrements, ForBodies, ForEnds

LEMMA LoopFields ==
  ASSUME NEW x \in LoopTasks \cup ForTasks
  PROVE  /\ x.do = "while body" => x \in WhileBodies
         /\ x.do = "end while" => x \in WhileEnds
         /\ x.do = "for condition" => x \in ForConditions
         /\ x.do = "for test" => x \in ForTests
         /\ x.do = "for increment" => x \in ForIncrements
         /\ x.do = "for body" => x \in ForBodies
         /\ x.do = "end for" => x \in ForEnds
<1>1. x \in WhileBodies => x.do = "while body"
  BY DEF WhileBodies
<1>2. x \in WhileEnds => x.do = "end while"
  BY DEF WhileEnds
<1>3. x \in ForConditions => x.do = "for condition"
  BY DEF ForConditions
<1>4. x \in ForTests => x.do = "for test"
  BY DEF ForTests
<1>5. x \in ForIncrements => x.do = "for increment"
  BY DEF ForIncrements
<1>6. x \in ForBodies => x.do = "for body"
  BY DEF ForBodies
<1>7. x \in ForEnds => x.do = "end for"
  BY DEF ForEnds
<1> QED
  BY <1>1, <1>2, <1>3, <1>4, <1>5, <1>6, <1>7, LoopTasksAre

LEMMA DoingLoop ==
  ASSUME CInv, NEW what \in LoopDo \cup ForDo, Doing(what)
  PROVE  /\ what \in LoopDo => Task \in LoopTasks
         /\ what \in ForDo => Task \in ForTasks
         /\ Task.do = what /\ Task.outer \in Depths
         /\ Good(context) /\ Keeps(context, context)
<1>1. Task \in Tasks /\ Good(context)
  BY WorkIs
<1>2. Task.do = what
  BY DEF Doing, Task
<1> QED
  BY <1>1, <1>2, TaskKinds, LoopDoes, ForDoes, KeepsItself

LEMMA ALoopHolds ==
  ASSUME NEW y \in LoopTasks
  PROVE  y \in Tasks /\ y.do \notin {"program", "parameters"} /\ ~ Scoped(y) /\ Looping(y) /\ ~ Making(y)
<1>1. y \in Tasks /\ y.do \in LoopDo
  BY LoopDoes DEF Tasks
<1>2. LoopDo \cap (ForDo \cup {"end fn", "parameters", "program", "block"}) = {}
  BY DEF LoopDo, ForDo
<1> QED
  BY <1>1, <1>2, TaskKinds DEF Scoped, Looping, Making

LEMMA AForHolds ==
  ASSUME NEW y \in ForTasks
  PROVE  y \in Tasks /\ y.do \notin {"program", "parameters"} /\ Scoped(y) /\ Looping(y) /\ ~ Making(y)
<1>1. y \in Tasks /\ y.do \in ForDo
  BY ForDoes DEF Tasks
<1>2. ForDo \cap {"end fn", "parameters", "program", "block"} = {}
  BY DEF ForDo
<1> QED
  BY <1>1, <1>2, TaskKinds DEF Scoped, Looping, Making

LEMMA BlockHolds ==
  ASSUME NEW y \in Tasks, y.do = "block"
  PROVE  y.do \notin {"program", "parameters"} /\ Scoped(y) /\ ~ Looping(y) /\ ~ Making(y)
<1>1. "block" \notin LoopDo \cup ForDo
  BY DEF LoopDo, ForDo
<1> QED
  BY <1>1, TaskKinds DEF Scoped, Looping, Making

LEMMA AFunctionHolds ==
  ASSUME NEW y \in FunctionTasks
  PROVE  y \in Tasks /\ y.do # "program" /\ Scoped(y) /\ ~ Looping(y) /\ Making(y)
<1>1. y \in Tasks /\ y.do = "end fn" /\ "end fn" \notin LoopDo \cup ForDo
  BY FunctionDoes DEF Tasks, LoopDo, ForDo
<1> QED
  BY <1>1, TaskKinds DEF Scoped, Looping, Making

-----------------------------------------------------------------------------
(***************************************************************************)
(* The steps that do not leave the depths or the current function alone.   *)
(***************************************************************************)
LEMMA ProgramStep == ASSUME CInv, Program PROVE CInv'
<1>1. CASE Stop("done")
  BY <1>1 DEF Stop, CInv
<1>2. CASE Go(context, <<Do("declaration"), Task>>)
  <2>1. Do("declaration") \in PlainTasks
    BY PlainSimple DEF SimpleDo
  <2> QED
    BY <1>2, <2>1, AgainStep
<1> QED
  BY <1>1, <1>2 DEF Program

LEMMA BlockStep == ASSUME CInv, Block PROVE CInv'
<1> DEFINE d == ScopeBegin(context)
           c == Consume("{", d)
           y == Do("block")
<1>1. Task \in PlainTasks /\ Good(context)
  BY DoingPlain DEF Block, PlainDo
<1>2. /\ Good(d) /\ d.scope_depth = context.scope_depth + 1
      /\ d.loop_depth = context.loop_depth /\ d.current = context.current
      /\ d.functions = context.functions /\ d.error = context.error
  BY <1>1, ScopeBeginIs
<1>3. Keeps(d, c)
  BY <1>2, ConsumeKeeps
<1>4. y \in Tasks /\ y.do = "block"
  BY DEF Tasks, Do
<1>5. Scoped(y) /\ ~ Looping(y) /\ ~ Making(y) /\ y.do \notin {"program", "parameters"}
  BY <1>4, BlockHolds
<1>6. Go(c, <<>> \o <<y>>)
  <2>1. <<y>> \in Seq({y})
    OBVIOUS
  <2>2. <<>> \o <<y>> = <<y>>
    BY <2>1, ConcatEmptySeq
  <2> QED
    BY <2>2 DEF Block
<1> HIDE DEF c, d, y
<1>7. Len(context.functions) \in Nat
  BY <1>1, GoodNumbers
<1>8. /\ Good(c) /\ (context.error => c.error)
      /\ Len(c.functions) = Len(context.functions)
      /\ Made(c.functions) = Made(context.functions)
      /\ c.scope_depth = context.scope_depth + 1
      /\ c.loop_depth = context.loop_depth /\ c.current = context.current
  BY <1>2, <1>3, <1>7 DEF Keeps
<1> QED
  BY <1>1, <1>4, <1>5, <1>6, <1>8, BeginStep, FewAre

LEMMA InBlockStep == ASSUME CInv, InBlock PROVE CInv'
<1> DEFINE d == Consume("}", context)
           c == ScopeEnd(d)
<1>1. Task \in Tasks /\ Task.do = "block" /\ Good(context)
  BY WorkIs DEF InBlock, Doing, Task
<1>2. Scoped(Task) /\ ~ Looping(Task) /\ ~ Making(Task) /\ Task.do # "program"
  BY <1>1, BlockHolds
<1>3. context.scope_depth >= 1
  BY <1>2, TaskHolds
<1>4. CASE Go(context, <<Do("declaration"), Task>>)
  <2>1. Do("declaration") \in PlainTasks
    BY PlainSimple DEF SimpleDo
  <2> QED
    BY <1>4, <2>1, AgainStep
<1>5. CASE Go(c, <<>>)
  <2>1. Keeps(context, d) /\ Good(d)
    BY <1>1, ConsumeKeeps DEF Keeps
  <2> HIDE DEF d
  <2>2. d.scope_depth = context.scope_depth /\ context.scope_depth \in Nat
    BY <1>1, <2>1, GoodNumbers DEF Keeps
  <2>3. d.scope_depth > 0
    BY <1>3, <2>2
  <2>4. /\ Good(c) /\ c.scope_depth = d.scope_depth - 1
        /\ c.loop_depth = d.loop_depth /\ c.current = d.current
        /\ Len(c.functions) = Len(d.functions) /\ (d.error => c.error)
        /\ Made(c.functions) = Made(d.functions)
    BY <2>1, <2>3, ScopeEndIs
  <2>5. Len(context.functions) \in Nat
    BY <1>1, GoodNumbers
  <2> HIDE DEF c
  <2>6. /\ Len(c.functions) = Len(context.functions) /\ (context.error => c.error)
        /\ Made(c.functions) = Made(context.functions)
        /\ c.scope_depth = context.scope_depth - 1
        /\ c.loop_depth = context.loop_depth /\ c.current = context.current
    BY <2>1, <2>2, <2>4, <2>5 DEF Keeps
  <2> QED
    BY <1>2, <1>5, <2>4, <2>6, EndStep
<1> QED
  BY <1>4, <1>5 DEF InBlock

\* A new function takes nothing, names nothing and makes nothing.
LEMMA NewFunctionIs ==
  ASSUME NEW functions \in Seq(CompiledFunctions), Len(functions) >= 1
  PROVE  LET more == Append(functions, EmptyFunction)
         IN  /\ Made(more) = Made(functions)
             /\ MainTakesNone(functions) => MainTakesNone(more)
             /\ AllNamed(functions) => AllNamed(more)
<1> DEFINE more == Append(functions, EmptyFunction)
           n == Len(functions)
<1>1. /\ n \in Nat /\ DOMAIN functions = 1 .. n /\ DOMAIN more = 1 .. n + 1
      /\ more[n + 1] = EmptyFunction /\ \A i \in 1 .. n : more[i] = functions[i]
  BY AppendProperties
<1>2. 1 \in 1 .. n /\ \A i \in 1 .. n + 1 : i \in 1 .. n \/ i = n + 1
  BY <1>1
<1> HIDE DEF more, n
<1>3. MainTakesNone(functions) => MainTakesNone(more)
  BY <1>1, <1>2 DEF MainTakesNone
<1>4. NamesOnly(EmptyFunction)
  BY DEF NamesOnly, EmptyFunction
<1>5. AllNamed(functions) => AllNamed(more)
  BY <1>1, <1>2, <1>4 DEF AllNamed
<1>6. \A k, g : ~ Owns(EmptyFunction, k, g)
  BY DEF Owns, FunctionsIn, EmptyFunction
<1>7. ASSUME NEW q PROVE q \in Made(more) <=> q \in Made(functions)
  <2>1. \A i \in 1 .. n + 1 : \A k, g :
          Owns(more[i], k, g) <=> i \in 1 .. n /\ Owns(functions[i], k, g)
    BY <1>1, <1>2, <1>6
  <2>2. \A i \in 1 .. n : i \in 1 .. n + 1
    BY <1>1
  <2>3. q \in Made(more) <=> \E i \in 1 .. n + 1 : \E k, g :
          Owns(more[i], k, g) /\ q = [fn |-> g, in |-> i, at |-> k]
    BY <1>1, MadeIs
  <2>4. q \in Made(functions) <=> \E i \in 1 .. n : \E k, g :
          Owns(functions[i], k, g) /\ q = [fn |-> g, in |-> i, at |-> k]
    BY <1>1, MadeIs
  <2>5. ASSUME q \in Made(more) PROVE q \in Made(functions)
    BY <2>1, <2>3, <2>4, <2>5, Zenon
  <2>6. ASSUME q \in Made(functions) PROVE q \in Made(more)
    BY <2>1, <2>2, <2>3, <2>4, <2>6, Zenon
  <2> QED
    BY <2>5, <2>6
<1>8. Made(more) = Made(functions)
  BY <1>7
<1> QED
  BY <1>3, <1>5, <1>8 DEF more

LEMMA FunctionStep == ASSUME CInv, Function PROVE CInv'
<1> DEFINE c1 == Consume("fn", context)
           i == Identifier(TRUE, c1)
           fun == [i.to EXCEPT !.functions = Append(@, EmptyFunction),
                               !.current = Len(i.to.functions) + 1]
           d == ScopeBegin(fun)
           c == Consume("(", d)
           y == [do |-> "end fn", id |-> Id(i), prev |-> context.current]
           p == [do |-> "parameters", arity |-> 0]
<1>1. Task \in PlainTasks /\ Good(context)
  BY DoingPlain DEF Function, PlainDo
<1>2. Keeps(context, c1) /\ Good(c1)
  BY <1>1, ConsumeKeeps DEF Keeps
<1>3. Keeps(c1, i.to) /\ Id(i) \in Ids /\ Good(i.to)
  BY <1>2, IdentifierIs DEF Keeps
<1>4. Go(c, <<p, Do("{"), y>>)
  BY DEF Function
<1>5. y \in FunctionTasks /\ y.prev = context.current
  <2>1. context.current \in Nat
    BY <1>1, GoodNumbers
  <2> HIDE DEF i
  <2> QED
    BY <1>3, <2>1 DEF FunctionTasks
<1>6. p \in ParameterTasks /\ p \in Tasks /\ Do("{") \in PlainTasks /\ Do("{") \in Tasks
  <2>1. p \in ParameterTasks
    BY DEF ParameterTasks
  <2>2. Do("{") \in PlainTasks
    BY PlainSimple DEF SimpleDo
  <2> QED
    BY <2>1, <2>2 DEF Tasks
<1> HIDE DEF c1, i
<1>7. Keeps(context, i.to)
  BY <1>2, <1>3, KeepsOn
<1>8. /\ Good(fun) /\ Len(fun.functions) = Len(i.to.functions) + 1
      /\ fun.current = Len(fun.functions) /\ Made(fun.functions) = Made(i.to.functions)
      /\ fun.scope_depth = i.to.scope_depth /\ fun.loop_depth = i.to.loop_depth
      /\ fun.error = i.to.error
  <2>1. EmptyFunction \in CompiledFunctions
    <3>1. <<>> \in Seq(CodeByte) /\ <<>> \in Seq(ConstantValues) /\ <<>> \in Seq(AllTokens)
          /\ 0 \in CodeByte
      BY EmptySeq DEF CodeByte
    <3> QED
      BY <3>1, SliceCapacityAssumption DEF EmptyFunction, CompiledFunctions
  <2>2. i.to.functions \in Seq(CompiledFunctions)
    BY <1>3, GoodNumbers
  <2> DEFINE functions == Append(i.to.functions, EmptyFunction)
             n == Len(i.to.functions)
  <2>3. functions \in Seq(CompiledFunctions) /\ Len(functions) = n + 1 /\ n \in Nat
    BY <2>1, <2>2
  <2>4. fun = [i.to EXCEPT !.functions = functions, !.current = n + 1]
    OBVIOUS
  <2> HIDE DEF fun, functions, n
  <2>5. n + 1 \in Nat /\ n + 1 \in 1 .. n + 1
    BY <2>3
  <2>6. fun \in Contexts /\ fun.functions = functions /\ fun.current = n + 1
        /\ fun.scope_depth = i.to.scope_depth /\ fun.loop_depth = i.to.loop_depth
        /\ fun.error = i.to.error /\ fun.panic = i.to.panic
    BY <1>3, <2>3, <2>4, <2>5 DEF Good, Contexts
  <2>7. /\ MainTakesNone(functions) /\ (~ i.to.error => AllNamed(functions))
        /\ Made(functions) = Made(i.to.functions)
    BY <1>3, <2>2, NewFunctionIs DEF Good, functions
  <2> QED
    BY <1>3, <2>3, <2>5, <2>6, <2>7 DEF Good, n
<1> HIDE DEF fun
<1>9. /\ Good(d) /\ d.scope_depth = fun.scope_depth + 1 /\ d.current = fun.current
      /\ d.loop_depth = fun.loop_depth /\ d.functions = fun.functions /\ d.error = fun.error
  BY <1>8, ScopeBeginIs
<1>10. Keeps(d, c)
  BY <1>9, ConsumeKeeps
<1> HIDE DEF d, c, y, p
<1>11. Len(context.functions) \in Nat
  BY <1>1, GoodNumbers
<1>12. /\ Good(c) /\ Len(c.functions) = Len(context.functions) + 1 /\ (context.error => c.error)
       /\ Made(c.functions) = Made(context.functions) /\ c.current = Len(c.functions)
       /\ c.scope_depth = context.scope_depth + 1 /\ c.loop_depth = context.loop_depth
  BY <1>7, <1>8, <1>9, <1>10, <1>11 DEF Keeps
<1>13. y \in Tasks /\ y.do \notin {"program", "parameters"}
       /\ Scoped(y) /\ ~ Looping(y) /\ Making(y)
  BY <1>5, AFunctionHolds, FunctionDoes
<1> DEFINE w == Tail(work)
           b == Do("{")
<1>14. Kept(c, <<y>> \o w) /\ w \in Seq(Tasks)
  BY <1>1, <1>5, <1>12, <1>13, Begins
<1> HIDE DEF w, b
<1>15. Kept(c, <<b>> \o (<<y>> \o w))
  BY <1>6, <1>12, <1>14, PlainInFront DEF b
<1> DEFINE v == <<b>> \o (<<y>> \o w)
<1>16. /\ v \in Seq(Tasks) /\ v # <<>> /\ \E k \in DOMAIN v : Making(v[k])
       /\ <<p, b, y>> \o w = <<p>> \o v
  <2>1. /\ <<y>> \o w \in Seq(Tasks) /\ Len(<<y>> \o w) \in Nat \ {0} /\ (<<y>> \o w)[1] = y
    BY <1>13, <1>14, TaskInFront
  <2>2. v \in Seq(Tasks) /\ v # <<>> /\ 2 \in DOMAIN v /\ v[2] = y
    <3> DEFINE u == <<y>> \o w
    <3> HIDE DEF u
    <3>1. u \in Seq(Tasks) /\ Len(u) \in Nat \ {0} /\ u[1] = y /\ b \in Tasks
      BY <1>6, <2>1 DEF u, b
    <3>2. /\ <<b>> \o u \in Seq(Tasks) /\ <<b>> \o u # <<>>
          /\ 2 \in DOMAIN (<<b>> \o u) /\ (<<b>> \o u)[2] = y
      BY <3>1
    <3> QED
      BY <3>2 DEF u
  <2>3. <<p, b, y>> \o w = <<p>> \o v
    <3>1. p \in Tasks /\ b \in Tasks /\ y \in Tasks /\ w \in Seq(Tasks)
      BY <1>6, <1>13, <1>14 DEF b
    <3>2. OneByOne(p, b, y, w)
      BY <3>1, Triples
    <3> QED
      BY <3>2 DEF OneByOne
  <2> QED
    BY <1>13, <2>2, <2>3
<1> HIDE DEF v
<1>17. Kept(c, <<p>> \o v)
  BY <1>6, <1>12, <1>15, <1>16, ParametersInFront DEF v
<1>18. Go(c, <<p, b, y>>)
  BY <1>4 DEF b
<1> QED
  BY <1>12, <1>16, <1>17, <1>18, GoTo DEF w

LEMMA EndFunctionStep == ASSUME CInv, EndFunction PROVE CInv'
<1> DEFINE e == Emit(<<OP_NULL, OP_RETURN>>, context)
           to == context.scope_depth - 1
           back == [e EXCEPT !.current = Task.prev, !.scope_depth = to]
           fun == [type |-> "function", fn |-> context.current]
           d == EmitConstant(fun, back)
           c == Define(Task.id, d)
<1>1. Task \in Tasks /\ Task.do = "end fn" /\ Good(context)
  BY WorkIs DEF EndFunction, Doing, Task
<1>2. Task \in FunctionTasks
  BY <1>1, TaskKinds
<1>3. Task.id \in Ids /\ Task.do # "program" /\ Scoped(Task) /\ ~ Looping(Task) /\ Making(Task)
  BY <1>2, FunctionDoes, AFunctionHolds
<1>4. Task.prev \in 1 .. Len(context.functions) /\ context.scope_depth >= 1
  BY <1>3, TaskHolds
<1>5. /\ context.scope_depth \in Nat /\ Len(context.functions) \in Nat /\ context.current \in Nat
  BY <1>1, GoodNumbers
<1>6. Keeps(context, e) /\ Good(e)
  <2>1. OP_NULL \in CodeByte /\ OP_RETURN \in CodeByte
    BY Opcodes
  <2>2. <<OP_NULL, OP_RETURN>> \in Seq(CodeByte)
    BY <2>1, Bytes
  <2> QED
    BY <1>1, <2>2, EmitKeeps DEF Keeps
<1>7. Go(c, <<>>)
  <2>1. e.scope_depth = context.scope_depth
    BY <1>6 DEF Keeps
  <2>2. back = [e EXCEPT !.current = Task.prev, !.scope_depth = @ - 1]
    BY <2>1
  <2> HIDE DEF back
  <2> QED
    BY <2>2 DEF EndFunction
<1>8. to \in Nat
  BY <1>4, <1>5
<1> HIDE DEF e, to
<1>9. /\ Good(back) /\ back.scope_depth = to /\ back.current = Task.prev
      /\ back.loop_depth = context.loop_depth /\ Len(back.functions) = Len(context.functions)
      /\ (context.error => back.error) /\ Made(back.functions) = Made(context.functions)
  <2>1. Task.prev \in Nat /\ Task.prev \in 1 .. Len(e.functions)
    BY <1>4, <1>5, <1>6 DEF Keeps
  <2>2. /\ back \in Contexts /\ back.scope_depth = to /\ back.current = Task.prev
        /\ back.loop_depth = e.loop_depth /\ back.functions = e.functions
        /\ back.error = e.error /\ back.panic = e.panic
    BY <1>6, <1>8, <2>1 DEF Good, Contexts
  <2> HIDE DEF back
  <2> QED
    BY <1>6, <2>1, <2>2 DEF Keeps, Good
<1> HIDE DEF back
<1>10. GainsFunction(back, d, context.current)
  <2>1. Good(back) /\ context.current \in Nat
    BY <1>5, <1>9
  <2> QED
    BY <2>1, EmitFunctionIs
<1> HIDE DEF fun, d
<1>11. Keeps(d, c)
  BY <1>3, <1>10, DefineKeeps DEF GainsFunction
<1> HIDE DEF c
<1>12. /\ Good(c) /\ Len(c.functions) = Len(context.functions) /\ (context.error => c.error)
       /\ c.scope_depth = context.scope_depth - 1 /\ c.loop_depth = context.loop_depth
       /\ c.current = Task.prev
  BY <1>9, <1>10, <1>11 DEF Keeps, GainsFunction, to
<1>13. \E k : Made(c.functions) = Made(context.functions) \cup
                {[fn |-> context.current, in |-> Task.prev, at |-> k]}
  BY <1>9, <1>10, <1>11 DEF Keeps, GainsFunction
<1> QED
  BY <1>3, <1>7, <1>12, <1>13, EndStep

LEMMA WhileStep == ASSUME CInv, While PROVE CInv'
<1> DEFINE c1 == Consume("while", context)
           d == Consume("(", c1)
           c == EnterLoop(d)
           y == [do |-> "while body", start |-> Size(c), outer |-> context.loop_depth]
<1>1. Task \in PlainTasks /\ Good(context)
  BY DoingPlain DEF While, PlainDo
<1>2. Keeps(context, c1) /\ Good(c1)
  BY <1>1, ConsumeKeeps DEF Keeps
<1>3. Keeps(context, d) /\ Good(d)
  BY <1>2, ConsumeKeeps, KeepsOn DEF Keeps
<1>4. Go(c, <<Expression, y>>)
  BY DEF While
<1> HIDE DEF c1, d
<1>5. /\ Good(c) /\ c.scope_depth = d.scope_depth /\ c.current = d.current
      /\ c.functions = d.functions /\ c.error = d.error
  <2>1. d.scope_depth \in Depths
    BY <1>3, GoodNumbers DEF Depths
  <2> QED
    BY <1>3, <2>1, LoopDepthIs DEF EnterLoop
<1> HIDE DEF c
<1>6. y \in LoopTasks /\ y.outer = context.loop_depth
  <2>1. Size(c) \in Nat /\ context.loop_depth \in Depths
    BY <1>1, <1>5, CurrentIs, GoodNumbers
  <2>2. y \in WhileBodies
    BY <2>1 DEF WhileBodies
  <2> QED
    BY <2>2, LoopTasksAre
<1> HIDE DEF y
<1>7. y \in Tasks /\ y.do \notin {"program", "parameters"} /\ ~ Scoped(y) /\ Looping(y) /\ ~ Making(y)
  BY <1>6, ALoopHolds
<1>8. context.scope_depth \in Nat /\ Len(context.functions) \in Nat
  BY <1>1, GoodNumbers
<1>9. /\ Len(c.functions) = Len(context.functions) /\ (context.error => c.error)
      /\ Made(c.functions) = Made(context.functions)
      /\ c.scope_depth = context.scope_depth + (IF Scoped(y) THEN 1 ELSE 0)
      /\ c.current = context.current
  BY <1>3, <1>5, <1>7, <1>8 DEF Keeps
<1> DEFINE front == <<Expression>>
<1>10. Go(c, front \o <<y>>) /\ FewPlain(front)
  BY <1>4, PairIs, PlainSimple, FewAre
<1> HIDE DEF front
<1> QED
  BY <1>1, <1>5, <1>6, <1>7, <1>9, <1>10, BeginStep

LEMMA WhileBodyStep == ASSUME CInv, WhileBody PROVE CInv'
<1> DEFINE c == Consume(")", context)
           d == EmitJump(OP_JUMP_IF_FALSE, c)
           y == [do |-> "end while", start |-> Task.start, test |-> Size(c), outer |-> Task.outer]
<1>1. Task \in LoopTasks /\ Task.do = "while body" /\ Good(context) /\ Task.outer \in Depths
  BY DoingLoop DEF WhileBody, LoopDo
<1>2. Task.start \in Nat
  <2>1. Task \in LoopTasks \cup ForTasks /\ Task.do = "while body"
    BY <1>1
  <2>2. Task \in WhileBodies
    BY <2>1, LoopFields
  <2> QED
    BY <2>2 DEF WhileBodies
<1>3. Keeps(context, c) /\ Good(c)
  BY <1>1, ConsumeKeeps DEF Keeps
<1>4. Keeps(context, d)
  BY <1>3, Opcodes, EmitJumpKeeps, KeepsOn
<1>5. Go(d, <<Do("statement"), y>>)
  BY DEF WhileBody
<1> HIDE DEF c, d
<1>6. y \in LoopTasks /\ y.outer = Task.outer
  <2>1. Size(c) \in Nat
    BY <1>3, CurrentIs
  <2>2. y \in WhileEnds
    BY <1>1, <1>2, <2>1 DEF WhileEnds
  <2> QED
    BY <2>2, LoopTasksAre
<1> DEFINE front == <<Do("statement")>>
<1>7. Go(d, front \o <<y>>) /\ FewPlain(front)
  <2>1. Do("statement") \in PlainTasks
    BY PlainSimple DEF SimpleDo
  <2> QED
    BY <1>5, <2>1, PairIs, FewAre
<1> HIDE DEF front, y
<1> QED
  BY <1>1, <1>4, <1>6, <1>7, LoopStep

LEMMA EndWhileStep == ASSUME CInv, EndWhile PROVE CInv'
<1> DEFINE back == EmitJump(OP_JUMP_BACK, context)
           end  == Size(back)
           over == UpdateJump(Task.test, end - (Task.test + 3), back)
           loop == UpdateJump(Size(context), end - Task.start, over)
           d    == [loop EXCEPT !.loop_depth = Task.outer]
           c    == ResolveLoopJumps(Task.start, end, d)
<1>1. Task \in LoopTasks /\ Task.do = "end while" /\ Good(context) /\ Task.outer \in Depths
  BY DoingLoop DEF EndWhile, LoopDo
<1>2. Task.start \in Nat /\ Task.test \in Nat
  <2>1. Task \in LoopTasks \cup ForTasks /\ Task.do = "end while"
    BY <1>1
  <2>2. Task \in WhileEnds
    BY <2>1, LoopFields
  <2> QED
    BY <2>2 DEF WhileEnds
<1>3. CASE context.panic
  <2>1. Go(context, <<>>)
    BY <1>3 DEF EndWhile, Return
  <2> QED
    BY <1>1, <1>3, <2>1, PanicStep
<1>4. CASE ~ context.panic
  <2>1. Go(c, <<>>)
    BY <1>4 DEF EndWhile
  <2>2. Keeps(context, back) /\ Good(back)
    BY <1>1, Opcodes, EmitJumpKeeps DEF Keeps
  <2> HIDE DEF back
  <2>3. end \in Nat /\ Size(context) \in Nat
    BY <1>1, <2>2, CurrentIs
  <2> HIDE DEF end
  <2>4. /\ Task.test \in Int /\ end - (Task.test + 3) \in Int /\ Size(context) \in Int
        /\ end - Task.start \in Int /\ Task.start \in Int /\ end \in Int
    BY <1>2, <2>3
  <2>5. Keeps(context, over) /\ Good(over)
    <3>1. Keeps(back, over)
      BY <2>2, <2>4, UpdateJumpKeeps
    <3> HIDE DEF over
    <3> QED
      BY <2>2, <3>1, KeepsOn DEF Keeps
  <2> HIDE DEF over
  <2>6. Keeps(context, loop) /\ Good(loop)
    <3>1. Keeps(over, loop)
      BY <2>4, <2>5, UpdateJumpKeeps
    <3> HIDE DEF loop
    <3> QED
      BY <2>5, <3>1, KeepsOn DEF Keeps
  <2> HIDE DEF loop
  <2>7. /\ Good(d) /\ d.loop_depth = Task.outer /\ d.scope_depth = loop.scope_depth
        /\ d.current = loop.current /\ d.functions = loop.functions /\ d.error = loop.error
    BY <1>1, <2>6, LoopDepthIs
  <2> HIDE DEF d
  <2>8. Keeps(d, c)
    BY <2>4, <2>7, ResolveKeeps
  <2> HIDE DEF c
  <2>9. Task.do # "program" /\ ~ Scoped(Task) /\ Looping(Task) /\ ~ Making(Task)
    BY <1>1, ALoopHolds
  <2>10. Len(context.functions) \in Nat
    BY <1>1, GoodNumbers
  <2>11. /\ Good(c) /\ (context.error => c.error)
         /\ Len(c.functions) = Len(context.functions)
         /\ Made(c.functions) = Made(context.functions)
         /\ c.scope_depth = context.scope_depth /\ c.loop_depth = Task.outer
         /\ c.current = context.current
    BY <2>6, <2>7, <2>8, <2>10 DEF Keeps
  <2> QED
    BY <2>1, <2>9, <2>11, EndStep
<1> QED
  BY <1>3, <1>4

LEMMA ForStep == ASSUME CInv, For PROVE CInv'
<1> DEFINE c1 == Consume("for", context)
           c2 == Consume("(", c1)
           e  == EnterLoop(c2)
           c  == ScopeBegin(e)
           y  == [do |-> "for condition", outer |-> context.loop_depth]
<1>1. Task \in PlainTasks /\ Good(context)
  BY DoingPlain DEF For, PlainDo
<1>2. Keeps(context, c1) /\ Good(c1)
  BY <1>1, ConsumeKeeps DEF Keeps
<1>3. Keeps(context, c2) /\ Good(c2)
  BY <1>2, ConsumeKeeps, KeepsOn DEF Keeps
<1>4. \/ Go(Consume(";", c), <<y>>)
      \/ Go(c, <<Do("var"), y>>)
      \/ Go(c, <<Do("expression statement"), y>>)
  BY DEF For
<1> HIDE DEF c1, c2
<1>5. /\ Good(e) /\ e.scope_depth = c2.scope_depth /\ e.current = c2.current
      /\ e.functions = c2.functions /\ e.error = c2.error
  <2>1. c2.scope_depth \in Depths
    BY <1>3, GoodNumbers DEF Depths
  <2> QED
    BY <1>3, <2>1, LoopDepthIs DEF EnterLoop
<1> HIDE DEF e
<1>6. /\ Good(c) /\ c.scope_depth = e.scope_depth + 1 /\ c.current = e.current
      /\ c.functions = e.functions /\ c.error = e.error
  BY <1>5, ScopeBeginIs
<1> HIDE DEF c
<1>7. y \in ForTasks /\ y.outer = context.loop_depth
  <2>1. context.loop_depth \in Depths
    BY <1>1, GoodNumbers
  <2>2. y \in ForConditions
    BY <2>1 DEF ForConditions
  <2> QED
    BY <2>2, LoopTasksAre
<1> HIDE DEF y
<1>8. y \in Tasks /\ y.do \notin {"program", "parameters"} /\ Scoped(y) /\ Looping(y) /\ ~ Making(y)
  BY <1>7, AForHolds
<1>9. context.scope_depth \in Nat /\ Len(context.functions) \in Nat
  BY <1>1, GoodNumbers
<1>10. /\ Len(c.functions) = Len(context.functions) /\ (context.error => c.error)
       /\ Made(c.functions) = Made(context.functions)
       /\ c.scope_depth = context.scope_depth + 1 /\ c.current = context.current
  BY <1>3, <1>5, <1>6, <1>9 DEF Keeps
<1>11. ASSUME NEW d, Keeps(c, d), NEW front, FewPlain(front), Go(d, front \o <<y>>)
       PROVE  CInv'
  <2>1. /\ Good(d) /\ (context.error => d.error)
        /\ Len(d.functions) = Len(context.functions)
        /\ Made(d.functions) = Made(context.functions)
        /\ d.scope_depth = context.scope_depth + (IF Scoped(y) THEN 1 ELSE 0)
        /\ d.current = context.current
    BY <1>8, <1>10, <1>11 DEF Keeps
  <2> QED
    BY <1>1, <1>7, <1>8, <1>11, <2>1, BeginStep
<1>12. Keeps(c, c) /\ Keeps(c, Consume(";", c))
  BY <1>6, KeepsItself, ConsumeKeeps
<1>13. CASE Go(Consume(";", c), <<y>>)
  <2>1. <<y>> \in Seq({y})
    OBVIOUS
  <2>2. <<>> \o <<y>> = <<y>>
    BY <2>1, ConcatEmptySeq
  <2>3. Go(Consume(";", c), <<>> \o <<y>>)
    BY <1>13, <2>2
  <2> QED
    BY <1>11, <1>12, <2>3, FewAre
<1>14. ASSUME NEW x \in PlainTasks, Go(c, <<x, y>>)
       PROVE  CInv'
  <2> DEFINE front == <<x>>
  <2>1. Go(c, front \o <<y>>) /\ FewPlain(front)
    BY <1>14, PairIs, FewAre
  <2> HIDE DEF front
  <2> QED
    BY <1>11, <1>12, <2>1
<1>15. Do("var") \in PlainTasks /\ Do("expression statement") \in PlainTasks
  BY PlainSimple DEF SimpleDo
<1> QED
  BY <1>4, <1>13, <1>14, <1>15

\* A for goes on, with or without something in front of its next task.
LEMMA ForGoes ==
  ASSUME CInv, Task \in ForTasks, NEW y \in ForTasks, y.outer = Task.outer,
         NEW c, Keeps(context, c),
         \/ Go(c, <<y>>)
         \/ \E x \in PlainTasks : Go(c, <<x, y>>)
  PROVE  CInv'
<1>1. CASE Go(c, <<y>>)
  <2>1. <<y>> \in Seq({y})
    OBVIOUS
  <2>2. <<>> \o <<y>> = <<y>>
    BY <2>1, ConcatEmptySeq
  <2>3. Go(c, <<>> \o <<y>>)
    BY <1>1, <2>2
  <2> QED
    BY <2>3, FewAre, LoopStep
<1>2. ASSUME NEW x \in PlainTasks, Go(c, <<x, y>>)
      PROVE  CInv'
  <2> DEFINE front == <<x>>
  <2>1. Go(c, front \o <<y>>) /\ FewPlain(front)
    BY <1>2, PairIs, FewAre
  <2> HIDE DEF front
  <2> QED
    BY <2>1, LoopStep
<1> QED
  BY <1>1, <1>2

LEMMA ForConditionStep == ASSUME CInv, ForCondition PROVE CInv'
<1> DEFINE start == Size(context)
           y == [do |-> "for increment", start |-> start, tests |-> FALSE, outer |-> Task.outer]
           z == [do |-> "for test", start |-> start, outer |-> Task.outer]
<1>1. Task \in ForTasks /\ Good(context) /\ Task.outer \in Depths /\ Keeps(context, context)
  BY DoingLoop DEF ForCondition, ForDo
<1>2. Keeps(context, Consume(";", context)) /\ start \in Nat
  BY <1>1, ConsumeKeeps, CurrentIs
<1>3. Go(Consume(";", context), <<y>>) \/ Go(context, <<Expression, z>>)
  BY DEF ForCondition
<1> HIDE DEF start
<1>4. y \in ForTasks /\ z \in ForTasks
  <2>1. y \in ForIncrements /\ z \in ForTests
    BY <1>1, <1>2 DEF ForIncrements, ForTests
  <2> QED
    BY <2>1, LoopTasksAre
<1>5. y.outer = Task.outer /\ z.outer = Task.outer
  OBVIOUS
<1> HIDE DEF y, z
<1> QED
  BY <1>1, <1>2, <1>3, <1>4, <1>5, ForGoes, PlainSimple

LEMMA ForTestStep == ASSUME CInv, ForTest PROVE CInv'
<1> DEFINE c == Consume(";", context)
           d == EmitJump(OP_JUMP_IF_FALSE, c)
           e == EmitJump(OP_JUMP, d)
           y == [do |-> "for increment", start |-> Task.start, tests |-> TRUE,
                 outer |-> Task.outer]
<1>1. Task \in ForTasks /\ Task.do = "for test" /\ Good(context) /\ Task.outer \in Depths
  BY DoingLoop DEF ForTest, ForDo
<1>2. Task.start \in Nat
  <2>1. Task \in LoopTasks \cup ForTasks /\ Task.do = "for test"
    BY <1>1
  <2>2. Task \in ForTests
    BY <2>1, LoopFields
  <2> QED
    BY <2>2 DEF ForTests
<1>3. Keeps(context, c) /\ Good(c)
  BY <1>1, ConsumeKeeps DEF Keeps
<1>4. Go(e, <<y>>)
  BY DEF ForTest
<1> HIDE DEF c
<1>5. Keeps(context, d) /\ Good(d)
  BY <1>3, Opcodes, EmitJumpKeeps, KeepsOn DEF Keeps
<1> HIDE DEF d
<1>6. Keeps(context, e)
  BY <1>5, Opcodes, EmitJumpKeeps, KeepsOn
<1>7. y \in ForTasks /\ y.outer = Task.outer
  <2>1. y \in ForIncrements
    BY <1>1, <1>2 DEF ForIncrements
  <2> QED
    BY <2>1, LoopTasksAre
<1> HIDE DEF e, y
<1> QED
  BY <1>1, <1>4, <1>6, <1>7, ForGoes

LEMMA ForIncrementStep == ASSUME CInv, ForIncrement PROVE CInv'
<1> DEFINE y == [do |-> "for body", start |-> Task.start, tests |-> Task.tests,
                 outer |-> Task.outer, increment |-> Size(context)]
<1>1. /\ Task \in ForTasks /\ Task.do = "for increment" /\ Good(context)
      /\ Task.outer \in Depths /\ Keeps(context, context)
  BY DoingLoop DEF ForIncrement, ForDo
<1>2. Task.start \in Nat /\ Task.tests \in BOOLEAN
  <2>1. Task \in LoopTasks \cup ForTasks /\ Task.do = "for increment"
    BY <1>1
  <2>2. Task \in ForIncrements
    BY <2>1, LoopFields
  <2> QED
    BY <2>2 DEF ForIncrements
<1>3. Size(context) \in Nat
  BY <1>1, CurrentIs
<1>4. Go(context, <<y>>) \/ Go(context, <<Expression, y>>)
  BY DEF ForIncrement
<1>5. y \in ForTasks /\ y.outer = Task.outer
  <2>1. y \in ForBodies
    BY <1>1, <1>2, <1>3 DEF ForBodies
  <2> QED
    BY <2>1, LoopTasksAre
<1> HIDE DEF y
<1> QED
  BY <1>1, <1>4, <1>5, ForGoes, PlainSimple

LEMMA ForBodyStep == ASSUME CInv, ForBody PROVE CInv'
<1> DEFINE back == EmitJump(OP_JUMP_BACK, context)
           b == IF Task.tests THEN back ELSE context
           c == Consume(")", b)
           y == [do |-> "end for", start |-> Task.start, tests |-> Task.tests,
                 outer |-> Task.outer, increment |-> Task.increment, body |-> Size(c)]
<1>1. /\ Task \in ForTasks /\ Task.do = "for body" /\ Good(context)
      /\ Task.outer \in Depths /\ Keeps(context, context)
  BY DoingLoop DEF ForBody, ForDo
<1>2. Task.start \in Nat /\ Task.tests \in BOOLEAN /\ Task.increment \in Nat
  <2>1. Task \in LoopTasks \cup ForTasks /\ Task.do = "for body"
    BY <1>1
  <2>2. Task \in ForBodies
    BY <2>1, LoopFields
  <2> QED
    BY <2>2 DEF ForBodies
<1>3. Go(c, <<Do("statement"), y>>)
  BY DEF ForBody
<1>4. Keeps(context, back)
  BY <1>1, Opcodes, EmitJumpKeeps
<1> HIDE DEF back
<1>5. Keeps(context, b) /\ Good(b)
  BY <1>1, <1>4 DEF Keeps
<1> HIDE DEF b
<1>6. Keeps(context, c) /\ Good(c)
  BY <1>5, ConsumeKeeps, KeepsOn DEF Keeps
<1> HIDE DEF c
<1>7. y \in ForTasks /\ y.outer = Task.outer
  <2>1. Size(c) \in Nat
    BY <1>6, CurrentIs
  <2>2. y \in ForEnds
    BY <1>1, <1>2, <2>1 DEF ForEnds
  <2> QED
    BY <2>2, LoopTasksAre
<1> HIDE DEF y
<1>8. Do("statement") \in PlainTasks
  BY PlainSimple DEF SimpleDo
<1> QED
  BY <1>1, <1>3, <1>6, <1>7, <1>8, ForGoes

LEMMA EndForStep == ASSUME CInv, EndFor PROVE CInv'
<1> DEFINE back  == EmitJump(OP_JUMP_BACK, context)
           end   == Size(back)
           inc   == Task.increment
           one   == UpdateJump(inc - 6, end - (inc - 3), back)
           two   == UpdateJump(inc - 3, Task.body - inc, one)
           three == UpdateJump(Task.body - 3, Task.body - Task.start, two)
           tests == IF Task.tests THEN three ELSE back
           all   == UpdateJump(Size(context), end - inc, tests)
           loop  == ScopeEnd(all)
           d     == [loop EXCEPT !.loop_depth = Task.outer]
           c     == ResolveLoopJumps(inc, end, d)
<1>1. Task \in ForTasks /\ Task.do = "end for" /\ Good(context) /\ Task.outer \in Depths
  BY DoingLoop DEF EndFor, ForDo
<1>2. Task.start \in Nat /\ Task.increment \in Nat /\ Task.body \in Nat
  <2>1. Task \in LoopTasks \cup ForTasks /\ Task.do = "end for"
    BY <1>1
  <2>2. Task \in ForEnds
    BY <2>1, LoopFields
  <2> QED
    BY <2>2 DEF ForEnds
<1>3. Task.do # "program" /\ Scoped(Task) /\ Looping(Task) /\ ~ Making(Task)
  BY <1>1, AForHolds
<1>4. CASE context.panic
  <2>1. Go(context, <<>>)
    BY <1>4 DEF EndFor, Return
  <2> QED
    BY <1>1, <1>4, <2>1, PanicStep
<1>5. CASE ~ context.panic
  <2>1. Go(c, <<>>)
    BY <1>5 DEF EndFor
  <2>2. Keeps(context, back) /\ Good(back)
    BY <1>1, Opcodes, EmitJumpKeeps DEF Keeps
  <2> HIDE DEF back
  <2>3. end \in Nat /\ Size(context) \in Nat
    BY <1>1, <2>2, CurrentIs
  <2> HIDE DEF end
  <2>4. /\ inc - 6 \in Int /\ end - (inc - 3) \in Int /\ inc - 3 \in Int /\ inc \in Int
        /\ Task.body - inc \in Int /\ Task.body - 3 \in Int /\ Task.body - Task.start \in Int
        /\ end - inc \in Int /\ Size(context) \in Int /\ end \in Int
    BY <1>2, <2>3
  <2> HIDE DEF inc
  <2>5. Keeps(context, one) /\ Good(one)
    <3>1. Keeps(back, one)
      BY <2>2, <2>4, UpdateJumpKeeps
    <3> HIDE DEF one
    <3> QED
      BY <2>2, <3>1, KeepsOn DEF Keeps
  <2> HIDE DEF one
  <2>6. Keeps(context, two) /\ Good(two)
    <3>1. Keeps(one, two)
      BY <2>5, <2>4, UpdateJumpKeeps
    <3> HIDE DEF two
    <3> QED
      BY <2>5, <3>1, KeepsOn DEF Keeps
  <2> HIDE DEF two
  <2>7. Keeps(context, three)
    BY <2>4, <2>6, UpdateJumpKeeps, KeepsOn
  <2> HIDE DEF three
  <2>8. Keeps(context, tests) /\ Good(tests)
    BY <2>2, <2>7 DEF Keeps
  <2> HIDE DEF tests
  <2>9. Keeps(context, all) /\ Good(all)
    <3>1. Keeps(tests, all)
      BY <2>8, <2>4, UpdateJumpKeeps
    <3> HIDE DEF all
    <3> QED
      BY <2>8, <3>1, KeepsOn DEF Keeps
  <2> HIDE DEF all
  <2>10. context.scope_depth \in Nat /\ context.scope_depth >= 1 /\ Len(context.functions) \in Nat
    BY <1>1, <1>3, TaskHolds, GoodNumbers
  <2>11. all.scope_depth > 0
    BY <2>9, <2>10 DEF Keeps
  <2>12. /\ Good(loop) /\ loop.scope_depth = all.scope_depth - 1 /\ loop.current = all.current
         /\ Len(loop.functions) = Len(all.functions) /\ (all.error => loop.error)
         /\ Made(loop.functions) = Made(all.functions)
    BY <2>9, <2>11, ScopeEndIs
  <2> HIDE DEF loop
  <2>13. /\ Good(d) /\ d.loop_depth = Task.outer /\ d.scope_depth = loop.scope_depth
         /\ d.current = loop.current /\ d.functions = loop.functions /\ d.error = loop.error
    BY <1>1, <2>12, LoopDepthIs
  <2> HIDE DEF d
  <2>14. Keeps(d, c)
    BY <2>4, <2>13, ResolveKeeps
  <2> HIDE DEF c
  <2>15. /\ Good(c) /\ (context.error => c.error)
         /\ Len(c.functions) = Len(context.functions)
         /\ Made(c.functions) = Made(context.functions)
         /\ c.scope_depth = context.scope_depth - 1 /\ c.loop_depth = Task.outer
         /\ c.current = context.current
    BY <2>9, <2>10, <2>12, <2>13, <2>14 DEF Keeps
  <2> QED
    BY <1>3, <2>1, <2>15, EndStep
<1> QED
  BY <1>4, <1>5

-----------------------------------------------------------------------------
(***************************************************************************)
(* The invariant holds.                                                    *)
(***************************************************************************)
LEMMA ProgramHoldsNothing ==
  ASSUME NEW x \in Tasks, x.do = "program"
  PROVE  ~ Scoped(x) /\ ~ Looping(x) /\ ~ Making(x)
<1>1. "program" \notin LoopDo \cup ForDo
  BY DEF LoopDo, ForDo
<1> QED
  BY <1>1, TaskKinds DEF Scoped, Looping, Making

\* Only the program is left: all is as it was at first, or an error was found.
LEMMA ProgramAlone ==
  ASSUME NEW w \in Seq(Tasks), Len(w) = 1, w[1].do = "program"
  PROVE  /\ Scopes(w) = 0
         /\ \A i \in DOMAIN w : ~ Looping(w[i]) /\ ~ Making(w[i])
<1>1. DOMAIN w = {1} /\ w[1] \in Tasks
  <2>1. DOMAIN w = 1 .. 1
    OBVIOUS
  <2>2. 1 .. 1 = {1} /\ 1 \in 1 .. Len(w)
    OBVIOUS
  <2>3. w[1] \in Tasks
    BY <2>2, ElementOfSeq
  <2>4. DOMAIN w = {1}
    BY <2>1, <2>2
  <2> QED
    BY <2>3, <2>4
<1>2. ~ Scoped(w[1]) /\ ~ Looping(w[1]) /\ ~ Making(w[1])
  BY <1>1, ProgramHoldsNothing
<1>3. {i \in DOMAIN w : Scoped(w[i])} = {}
  BY <1>1, <1>2
<1>4. Scopes(w) = 0
  BY <1>3, FS_EmptySet DEF Scopes
<1> QED
  BY <1>1, <1>2, <1>4

LEMMA CInvInit == ASSUME Init PROVE CInv
<1> DEFINE c == [input |-> text, token |-> "none", functions |-> <<EmptyFunction>>, current |-> 1,
                 locals |-> <<>>, scope_depth |-> 0, loop_depth |-> -1,
                 break_jumps |-> <<>>, continue_jumps |-> <<>>, panic |-> FALSE, error |-> FALSE]
<1>1. text \in Texts /\ context = Advance(c) /\ work = <<[do |-> "program"]>> /\ status = "ok"
  BY DEF Init
<1>2. Good(c) /\ Len(c.functions) = 1
  <2>1. text \in Seq(AllTokens) /\ "none" \in AllTokens
    BY <1>1, SomeTokens
  <2>2. EmptyFunction \in CompiledFunctions
    <3>1. <<>> \in Seq(CodeByte) /\ <<>> \in Seq(ConstantValues) /\ <<>> \in Seq(AllTokens)
          /\ 0 \in CodeByte
      BY EmptySeq DEF CodeByte
    <3> QED
      BY <3>1, SliceCapacityAssumption DEF EmptyFunction, CompiledFunctions
  <2>3. <<EmptyFunction>> \in Seq(CompiledFunctions) /\ Len(<<EmptyFunction>>) = 1
    BY <2>2
  <2>4. <<>> \in Seq(CompilerLocals) /\ <<>> \in Seq(PendingJump)
    BY EmptySeq
  <2>5. 0 \in Nat /\ -1 \in Depths /\ 1 \in Nat /\ 1 \in 1 .. 1
    BY DEF Depths
  <2> DEFINE functions == <<EmptyFunction>>
  <2> HIDE DEF functions
  <2>6. functions \in Seq(CompiledFunctions) /\ Len(functions) = 1
    BY <2>3 DEF functions
  <2>7. c.functions = functions /\ c.current = 1 /\ c.panic = FALSE
    BY DEF functions
  <2>8. c \in Contexts
    BY <2>1, <2>4, <2>5, <2>6 DEF functions, Contexts
  <2>9. MainTakesNone(functions) /\ AllNamed(functions)
    <3>1. \A i \in DOMAIN functions : i = 1
      BY <2>6
    <3>2. functions[1] = EmptyFunction
      BY DEF functions
    <3>3. EmptyFunction.arity = 0 /\ NamesOnly(EmptyFunction)
      BY DEF EmptyFunction, NamesOnly
    <3> QED
      BY <3>1, <3>2, <3>3 DEF MainTakesNone, AllNamed
  <2> HIDE DEF c
  <2> QED
    BY <2>5, <2>6, <2>7, <2>8, <2>9 DEF Good
<1>3. Made(c.functions) = {}
  <2> DEFINE functions == <<EmptyFunction>>
  <2>1. DOMAIN functions = {1} /\ functions[1] = EmptyFunction
    OBVIOUS
  <2>2. \A k, g : ~ Owns(EmptyFunction, k, g)
    BY DEF Owns, FunctionsIn, EmptyFunction
  <2> HIDE DEF functions
  <2>3. \A q : q \notin Made(functions)
    BY <2>1, <2>2, MadeIs
  <2> QED
    BY <2>3 DEF functions
<1>4. Keeps(c, context)
  BY <1>1, <1>2, AdvanceKeeps
<1>5. c.current = 1 /\ c.scope_depth = 0 /\ c.loop_depth = -1
  OBVIOUS
<1> HIDE DEF c
<1>6. /\ Good(context) /\ Len(context.functions) = 1 /\ context.current = 1
      /\ context.scope_depth = 0 /\ context.loop_depth = -1
      /\ Made(context.functions) = {}
  BY <1>2, <1>4, <1>5, <1>3 DEF Keeps
<1>7. work \in Seq(Tasks) /\ Len(work) = 1 /\ work[1].do = "program" /\ work # <<>>
  <2> DEFINE x == [do |-> "program"]
  <2>1. x \in Tasks /\ x.do = "program"
    BY DEF Tasks
  <2> HIDE DEF x
  <2>2. <<x>> \in Seq(Tasks) /\ Len(<<x>>) = 1 /\ <<x>>[1] = x
    BY <2>1
  <2>3. work = <<x>>
    BY <1>1 DEF x
  <2>4. work # <<>>
    BY <2>3
  <2> QED
    BY <2>1, <2>2, <2>3, <2>4
<1>8. /\ Scopes(work) = 0
      /\ \A i \in DOMAIN work : ~ Looping(work[i]) /\ ~ Making(work[i])
  BY <1>7, ProgramAlone
<1>9. \A i \in DOMAIN work : work[i].do = "program" <=> i = Len(work)
  <2>1. DOMAIN work = {1}
    BY <1>7
  <2> QED
    BY <1>7, <2>1
<1>10. BackInMain(work, 1) /\ OutOfLoops(work, -1)
  BY <1>8 DEF BackInMain, OutOfLoops
<1>11. Holds(work, 1, 1, 0, -1, context.error)
  BY <1>7, <1>8, <1>9, <1>10 DEF Holds
<1>12. Handed(work, {}, 1, 1)
  <2>1. Nested(work, 1) /\ Open(work, 1) = {1}
    BY <1>8 DEF Nested, Open
  <2>2. OfFunctions(work)
    <3>1. \A i \in DOMAIN work : i = 1
      BY <1>7
    <3> QED
      BY <1>7, <3>1 DEF OfFunctions
  <2>3. OneEach({}, {1}, 1)
    BY DEF OneEach
  <2> QED
    BY <2>1, <2>2, <2>3 DEF Handed
<1> QED
  BY <1>1, <1>6, <1>11, <1>12 DEF CInv, Kept

LEMMA CInvStep == ASSUME CInv, Step PROVE CInv'
<1>1. CASE \/ Program \/ Declaration \/ Synchronize \/ VarDeclaration \/ EndVarDeclaration
           \/ Function \/ Parameters \/ EndFunction
  BY <1>1, ProgramStep, DeclarationStep, SynchronizeStep, VarDeclarationStep,
     EndVarDeclarationStep, FunctionStep, ParametersStep, EndFunctionStep
<1>2. CASE \/ Statement \/ ConsumeLast \/ ExpressionStatement \/ ReturnStatement \/ EndReturn
           \/ Block \/ InBlock \/ If \/ Then \/ Else \/ EndIf
  BY <1>2, StatementStep, ConsumeLastStep, ExpressionStatementStep, ReturnStatementStep,
     EndReturnStep, BlockStep, InBlockStep, IfStep, ThenStep, ElseStep, EndIfStep
<1>3. CASE \/ While \/ WhileBody \/ EndWhile
           \/ For \/ ForCondition \/ ForTest \/ ForIncrement \/ ForBody \/ EndFor
           \/ Break \/ Continue
  BY <1>3, WhileStep, WhileBodyStep, EndWhileStep, ForStep, ForConditionStep, ForTestStep,
     ForIncrementStep, ForBodyStep, EndForStep, BreakStep, ContinueStep
<1>4. CASE \/ Literal \/ Grouping \/ Name \/ Assign \/ Prefix \/ EndlessPrefix \/ Unary
           \/ Operator \/ Operators \/ Binary \/ Arguments \/ Argument
  BY <1>4, LiteralStep, GroupingStep, NameStep, AssignStep, PrefixStep, EndlessPrefixStep,
     UnaryStep, OperatorStep, OperatorsStep, BinaryStep, ArgumentsStep, ArgumentStep
<1> QED
  BY <1>1, <1>2, <1>3, <1>4 DEF Step

\* A step is one of a compiler that goes on.
LEMMA StepGoesOn == ASSUME Step PROVE status = "ok"
<1>1. CASE \/ Program \/ Declaration \/ Synchronize \/ VarDeclaration \/ EndVarDeclaration
           \/ Function \/ Parameters \/ EndFunction
  BY <1>1 DEF Program, Declaration, Synchronize, VarDeclaration, EndVarDeclaration, Function,
     Parameters, EndFunction, Doing
<1>2. CASE \/ Statement \/ ConsumeLast \/ ExpressionStatement \/ ReturnStatement \/ EndReturn
           \/ Block \/ InBlock \/ If \/ Then \/ Else \/ EndIf
  BY <1>2 DEF Statement, ConsumeLast, ExpressionStatement, ReturnStatement, EndReturn, Block,
     InBlock, If, Then, Else, EndIf, Doing
<1>3. CASE \/ While \/ WhileBody \/ EndWhile
           \/ For \/ ForCondition \/ ForTest \/ ForIncrement \/ ForBody \/ EndFor
           \/ Break \/ Continue
  BY <1>3 DEF While, WhileBody, EndWhile, For, ForCondition, ForTest, ForIncrement, ForBody,
     EndFor, Break, Continue, Doing
<1>4. CASE \/ Literal \/ Grouping \/ Name \/ Assign \/ Prefix \/ EndlessPrefix \/ Unary
           \/ Operator \/ Operators \/ Binary \/ Arguments \/ Argument
  BY <1>4 DEF Literal, Grouping, Name, Assign, Prefix, EndlessPrefix, Unary, Operator,
     Operators, Binary, Arguments, Argument, Doing
<1> QED
  BY <1>1, <1>2, <1>3, <1>4 DEF Step

LEMMA CInvUnchanged == ASSUME CInv, UNCHANGED vars PROVE CInv'
  BY DEF CInv, vars

\* What the tasks of work hold of the context, for all texts at every step.
THEOREM WorkHoldsContext == Spec => []CInv
<1>1. Init => CInv
  BY CInvInit
<1>2. CInv /\ [Next]_vars => CInv'
  BY CInvStep, CInvUnchanged DEF Next, Stopped
<1> QED
  BY <1>1, <1>2, PTL DEF Spec

LEMMA CInvTyped == ASSUME CInv PROVE TypeOK
<1>1. status \in {"ok", "done", "overflow", "wild", "exit"} /\ context \in Contexts
      /\ context.current \in 1 .. Len(context.functions)
  BY DEF CInv, Good
<1>2. context.functions \in Seq(CompiledFunctions)
  BY <1>1 DEF Contexts
<1>3. context.current \in DOMAIN context.functions
  BY <1>1, <1>2
<1>4. ASSUME NEW i \in DOMAIN context.functions
      PROVE  /\ context.functions[i].arity \in CodeByte
             /\ \A j \in DOMAIN context.functions[i].code :
                  context.functions[i].code[j] \in CodeByte
  <2>1. context.functions[i] \in CompiledFunctions
    BY <1>2
  <2>2. /\ context.functions[i].arity \in CodeByte
        /\ context.functions[i].code \in Seq(CodeByte)
    BY <2>1 DEF CompiledFunctions
  <2> QED
    BY <2>2
<1>5. /\ context.scope_depth \in Nat /\ context.loop_depth \in Nat \cup {-1}
      /\ context.locals \in Seq(CompilerLocals)
      /\ context.break_jumps \in Seq(PendingJump) /\ context.continue_jumps \in Seq(PendingJump)
  BY <1>1 DEF Contexts, Depths
<1>6. \A j \in DOMAIN context.locals : context.locals[j].depth \in Nat
  <2>1. \A local \in CompilerLocals : local.depth \in Nat
    BY DEF CompilerLocals
  <2>2. \A j \in DOMAIN context.locals : context.locals[j] \in CompilerLocals
    BY <1>5
  <2> QED
    BY <2>1, <2>2
<1>7. /\ \A j \in DOMAIN context.break_jumps : context.break_jumps[j] \in PendingJump
      /\ \A j \in DOMAIN context.continue_jumps : context.continue_jumps[j] \in PendingJump
  BY <1>5
<1>8. work # <<>> /\ Last(work).do = "program"
  <2>1. /\ work \in Seq(Tasks) /\ work # <<>>
        /\ \A i \in DOMAIN work : work[i].do = "program" <=> i = Len(work)
    BY DEF CInv, Kept, Holds
  <2>2. Len(work) \in DOMAIN work
    BY <2>1
  <2> QED
    BY <2>1, <2>2 DEF Last
<1> QED
  BY <1>1, <1>3, <1>4, <1>5, <1>6, <1>7, <1>8 DEF TypeOK

LEMMA CInvBack == ASSUME CInv PROVE BackAtTop
<1> SUFFICES ASSUME Head(work).do = "program", ~ context.error
             PROVE  context.current = 1 /\ context.scope_depth = 0 /\ context.loop_depth = -1
  BY DEF BackAtTop
<1>1. /\ work \in Seq(Tasks) /\ work # <<>>
      /\ \A i \in DOMAIN work : work[i].do = "program" <=> i = Len(work)
      /\ BackInMain(work, context.current)
      /\ Scopes(work) = context.scope_depth /\ OutOfLoops(work, context.loop_depth)
  BY DEF CInv, Kept, Holds
<1>2. 1 \in DOMAIN work /\ work[1].do = "program"
  BY <1>1
<1>3. Len(work) = 1
  BY <1>1, <1>2
<1>4. /\ Scopes(work) = 0
      /\ \A i \in DOMAIN work : ~ Looping(work[i]) /\ ~ Making(work[i])
  BY <1>1, <1>2, <1>3, ProgramAlone
<1> QED
  BY <1>1, <1>4 DEF BackInMain, OutOfLoops

LEMMA CInvHanded == ASSUME CInv PROVE HandedOver
<1> SUFFICES ASSUME Head(work).do = "program"
             PROVE  /\ \A i \in 2 .. Len(context.functions) :
                         \E p \in Made(context.functions) :
                           /\ p.fn = i /\ p.in < i
                           /\ \A q \in Made(context.functions) : q.fn = i => q = p
                    /\ \A p \in Made(context.functions) : p.fn \in 2 .. Len(context.functions)
                    /\ context.functions[1].arity = 0
                    /\ ~ context.error => \A i \in DOMAIN context.functions :
                                            NamesOnly(context.functions[i])
  BY DEF HandedOver
<1> DEFINE made == Made(context.functions)
           n == Len(context.functions)
<1>1. /\ work \in Seq(Tasks) /\ work # <<>>
      /\ \A i \in DOMAIN work : work[i].do = "program" <=> i = Len(work)
      /\ BackInMain(work, context.current) /\ Good(context)
      /\ OneEach(made, Open(work, context.current), n)
  BY DEF CInv, Kept, Holds, Handed
<1>2. 1 \in DOMAIN work /\ work[1].do = "program"
  BY <1>1
<1>3. Len(work) = 1
  BY <1>1, <1>2
<1>4. \A i \in DOMAIN work : ~ Making(work[i])
  BY <1>1, <1>2, <1>3, ProgramAlone
<1>5. Open(work, context.current) = {1}
  BY <1>1, <1>4 DEF BackInMain, Open
<1>6. context.functions[1].arity = 0
      /\ (~ context.error => \A i \in DOMAIN context.functions : NamesOnly(context.functions[i]))
  BY <1>1 DEF Good, MainTakesNone, AllNamed
<1> HIDE DEF made, n
<1>7. /\ \A p \in made : p.fn \in 2 .. n /\ p.in \in 1 .. p.fn - 1
      /\ \A g \in 2 .. n : g \in {1} <=> \A p \in made : p.fn # g
      /\ \A p, q \in made : p.fn = q.fn => p = q
  BY <1>1, <1>5 DEF OneEach
<1>8. ASSUME NEW i \in 2 .. n
      PROVE  \E p \in made : p.fn = i /\ p.in < i /\ \A q \in made : q.fn = i => q = p
  <2>1. i # 1
    OBVIOUS
  <2>2. PICK p \in made : p.fn = i
    BY <1>7, <2>1
  <2>3. p.in < i
    BY <1>7, <2>2
  <2> QED
    BY <1>7, <2>2, <2>3
<1> QED
  BY <1>6, <1>7, <1>8 DEF made, n

\* scope_depth never wraps below 0, the loop depth is a depth or -1, the current
\* function exists, and all that is emitted are bytes: in any text, errors or not.
THEOREM CompilerTyped == Spec => []TypeOK
<1>1. CInv => TypeOK
  BY CInvTyped
<1> QED
  BY <1>1, WorkHoldsContext, PTL

\* Between two declarations of the top level of any text without an error, however
\* functions, blocks and loops were nested before, the compiler is back in main, in
\* no scope and in no loop.
THEOREM BackAtTheTop == Spec => []BackAtTop
<1>1. CInv => BackAtTop
  BY CInvBack
<1> QED
  BY <1>1, WorkHoldsContext, PTL

\* Between two declarations of the top level of any text, and at its end, errors or
\* not, the functions are a tree with main, which takes no parameters, as its root:
\* each of the others is a constant in one place, in a function begun before it.
\* Without an error all that they name are identifiers.
THEOREM FunctionsHandedOver == Spec => []HandedOver
<1>1. CInv => HandedOver
  BY CInvHanded
<1> QED
  BY <1>1, WorkHoldsContext, PTL

=============================================================================
