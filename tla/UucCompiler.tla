---------------------------- MODULE UucCompiler -----------------------------
(***************************************************************************)
(* The one-pass compiler: compile_code on a sequence of tokens.  A token   *)
(* is its type, or, an identifier or integer, its text; behind the last    *)
(* one the lexer answers "eof" forever.  Functions call each other in the  *)
(* code, so work is what the calls on C's stack have left to do, the       *)
(* innermost first: a step does what a function does up to its next call   *)
(* of a compile_* function, and puts that call and its own rest in its     *)
(* place.  Helpers that call none are operators from one CompilerContext   *)
(* to the next.                                                            *)
(* status is "ok", "done" (compile_code returned), "overflow" (the calls   *)
(* do not fit C's stack), "wild" (an array was overrun: one of context, or *)
(* the codes of a function) or "exit".                                     *)
(***************************************************************************)
EXTENDS Integers, Sequences, SequencesExt, UucOpcodes

CONSTANTS Texts,        \* sequences of tokens
          Names,        \* the tokens that are identifiers
          Integers,     \* the tokens that are integers
          MaxEntries,   \* 225: the size of locals, break_jumps and continue_jumps
          SliceCapacity \* 8: what uuc_create_function has room for (larger in a run)

ASSUME TextsAssumption == \A t \in Texts : t \in Seq(Range(t))
ASSUME SliceCapacityAssumption == SliceCapacity \in Nat \ {0}

VARIABLES text, context, work, status

vars == <<text, context, work, status>>

TypeOf(token) ==
  IF token \in Names THEN "identifier" ELSE IF token \in Integers THEN "integer" ELSE token
Is(type, c)   == TypeOf(c.token) = type

-----------------------------------------------------------------------------
(***************************************************************************)
(* The helpers.                                                            *)
(***************************************************************************)
\* code is as long as its slice's size says; capacity and allocated are those of
\* UucSlice, and overrun tells that a byte was written behind what is allocated.
EmptyFunction ==
  [arity |-> 0, code |-> <<>>, constants |-> <<>>, names |-> <<>>,
   capacity |-> SliceCapacity, allocated |-> SliceCapacity, overrun |-> FALSE]

Advance(c) ==
  IF c.input = <<>> THEN [c EXCEPT !.token = "eof"]
  ELSE [c EXCEPT !.token = Head(c.input), !.input = Tail(c.input)]

\* error, a count in the code, is only compared with 0.
Panic(c) == [c EXCEPT !.panic = TRUE, !.error = TRUE]

Consume(type, c) == IF Is(type, c) THEN Advance(c) ELSE Panic(c)

Current(c) == c.functions[c.current]
Size(c)    == Len(Current(c).code)

\* bytes are written behind the code of fun, with room for as many as allocated.
Extended(bytes, capacity, allocated, fun) ==
  [fun EXCEPT !.code = @ \o bytes,
              !.capacity = capacity,
              !.allocated = allocated,
              !.overrun = @ \/ Len(fun.code) + Len(bytes) > allocated]

\* slice_push_code grows codes for a byte at capacity, which stays as it was.
Grown(bytes, fun) ==
  IF fun.capacity \in Len(fun.code) .. Len(fun.code) + Len(bytes) - 1
    THEN 2 * fun.capacity ELSE fun.allocated

\* compiler_emit_opcode, once for each byte
Emit(bytes, c) ==
  [c EXCEPT !.functions[c.current] = Extended(bytes, @.capacity, Grown(bytes, @), @)]

\* slice_push_constant makes room for three bytes.
WithConstant(value, bytes, fun) ==
  LET more == [fun EXCEPT !.constants = Append(@, value)]
  IN  IF Len(fun.code) + 3 >= fun.capacity
        THEN Extended(bytes, 2 * fun.capacity, 2 * fun.capacity, more)
        ELSE Extended(bytes, fun.capacity, fun.allocated, more)

\* Go sees to the exit when index does not fit into two bytes.
EmitConstant(value, c) ==
  LET index == Len(Current(c).constants)
      bytes == IF index <= 255 THEN <<OP_CONSTANT, index>>
               ELSE IF index <= 65535 THEN <<OP_CONSTANT_16, index \div 256, index % 256>>
               ELSE <<>>
  IN  [c EXCEPT !.functions[c.current] = WithConstant(value, bytes, @)]

\* The jump is at Size(c), and its length, 0 so far, is counted from Size(c) + 3.
EmitJump(op, c) == Emit(<<op, 0, 0>>, c)

HighByte(length) == (length % 65536) \div 256
LowByte(length)  == length % 256

\* The jump at index, which may be of another function's code, is given its length in
\* fun's codes: behind what is written there, it is overwritten when code gets there;
\* behind what is allocated, it is memory of something else.
Reaches(index, fun) == index + 3 > fun.allocated

Updated(index, length, fun) ==
  [fun EXCEPT !.code = [@ EXCEPT ![index + 2] = HighByte(length),
                                 ![index + 3] = LowByte(length)],
              !.overrun = @ \/ Reaches(index, fun)]

UpdateJump(index, length, c) ==
  [c EXCEPT !.functions[c.current] = Updated(index, length, @)]

ScopeBegin(c) == [c EXCEPT !.scope_depth = @ + 1]

\* Mutant of Remaining: what is as deep as to is gone as well.
RemainingBelow(entries, to) ==
  LET stops == {i \in DOMAIN entries : entries[i].depth < to}
  IN  IF stops = {} THEN 0 ELSE CHOOSE i \in stops : \A j \in stops : j <= i

\* How many entries remain once those at the end that are deeper than to are gone.
Remaining(entries, to) ==
  LET stops == {i \in DOMAIN entries : entries[i].depth <= to}
  IN  IF stops = {} THEN 0 ELSE CHOOSE i \in stops : \A j \in stops : j <= i

PopScopes(to, c) ==
  Emit([i \in 1 .. Len(c.locals) - Remaining(c.locals, to) |-> OP_POP], c)

\* Mutant of ScopeEnd: local_size keeps its value.
ScopeEndKeeping(c) == [PopScopes(c.scope_depth - 1, c) EXCEPT !.scope_depth = @ - 1]

ScopeEnd(c) ==
  LET to == c.scope_depth - 1
  IN  [PopScopes(to, c) EXCEPT !.scope_depth = to,
                               !.locals = SubSeq(@, 1, Remaining(@, to))]

\* The locals, from 1, of a name.
Locals(name, c) == {i \in DOMAIN c.locals : c.locals[i].name = name}

(***************************************************************************)
(* compile_identifier: to is the context it leaves, scope and index are    *)
(* what it returns.  A token that is no identifier is named all the same.  *)
(***************************************************************************)
Identifier(declaration, c) ==
  LET d     == Consume("identifier", c)
      known == Locals(c.token, c)
  IN  IF c.scope_depth > 0 /\ declaration
        THEN [to |-> [d EXCEPT !.locals = Append(@, [name |-> c.token, depth |-> c.scope_depth])],
              scope |-> "local", index |-> Len(c.locals)]
      ELSE IF c.scope_depth > 0 /\ known # {}
        THEN [to |-> d, scope |-> "local",
              index |-> (CHOOSE i \in known : \A j \in known : j <= i) - 1]
      ELSE [to |-> [d EXCEPT !.functions[d.current].names = Append(@, c.token)],
            scope |-> "global", index |-> Len(Current(c).names)]

Id(i)    == [scope |-> i.scope, index |-> i.index % 256]
GetOf(id) == <<IF id.scope = "global" THEN OP_GET_GLOBAL ELSE OP_GET_LOCAL, id.index>>
SetOf(id) == <<IF id.scope = "global" THEN OP_SET_GLOBAL ELSE OP_SET_LOCAL, id.index>>

-----------------------------------------------------------------------------
Init ==
  /\ text \in Texts
  /\ context = Advance([input |-> text, token |-> "none",
                        functions |-> <<EmptyFunction>>, current |-> 1,
                        locals |-> <<>>, scope_depth |-> 0, loop_depth |-> -1,
                        break_jumps |-> <<>>, continue_jumps |-> <<>>,
                        panic |-> FALSE, error |-> FALSE])
  /\ work = <<[do |-> "program"]>>
  /\ status = "ok"

Doing(what) == status = "ok" /\ Head(work).do = what
Task == Head(work)
Do(what) == [do |-> what]

\* One of the arrays of a context, or the codes of a function, had no room for the
\* last element.
Overrun(c) == \/ Len(c.locals) > MaxEntries
              \/ Len(c.break_jumps) > MaxEntries
              \/ Len(c.continue_jumps) > MaxEntries
              \/ \E i \in DOMAIN c.functions : c.functions[i].overrun

\* Go on in context c: with the tasks, then with the rest of work.
Go(c, tasks) ==
  /\ context' = c
  /\ work' = tasks \o Tail(work)
  /\ status' = IF Overrun(context') THEN "wild"
               ELSE IF Len(Current(context').constants) > 65536 THEN "exit"
               ELSE "ok"
  /\ UNCHANGED text

Return == Go(context, <<>>)

Stop(how) == status' = how /\ UNCHANGED <<text, context, work>>

-----------------------------------------------------------------------------
(***************************************************************************)
(* Declarations.                                                           *)
(***************************************************************************)
Program ==
  /\ Doing("program")
  /\ IF context.token \in {"eof", "error"} THEN Stop("done")
     ELSE Go(context, <<Do("declaration"), Task>>)

\* A class is not compiled, nor is its token consumed.
Declaration ==
  /\ Doing("declaration")
  /\ Go(context,
        (IF Is("class", context) THEN <<>>
         ELSE IF context.token \in {"var", "fn"} THEN <<Do(context.token)>>
         ELSE <<Do("statement")>>) \o <<Do("synchronize")>>)

SyncTokens == {"while", "for", "if", "break", "continue", "var"}

\* Skip to the end of the statement, or to what starts one.
Synchronized(c) ==
  LET rest  == <<c.token>> \o c.input
      stops == {i \in DOMAIN rest : rest[i] \in SyncTokens \cup {";", "eof"}}
      stop  == CHOOSE i \in stops : \A j \in stops : i <= j
      calm  == [c EXCEPT !.panic = FALSE]
  IN  IF stops = {} THEN [calm EXCEPT !.token = "eof", !.input = <<>>]
      ELSE LET there == [calm EXCEPT !.token = rest[stop],
                                     !.input = SubSeq(rest, stop + 1, Len(rest))]
           IN  IF rest[stop] = ";" THEN Advance(there) ELSE there

Synchronize ==
  /\ Doing("synchronize")
  /\ IF context.panic THEN Go(Synchronized(context), <<>>) ELSE Return

Expression == [do |-> "precedence", can_assign |-> TRUE, min |-> 1]

VarDeclaration ==
  /\ Doing("var")
  /\ LET i   == Identifier(TRUE, Consume("var", context))
         end == [do |-> "end var", id |-> Id(i)]
     IN  IF Is("=", i.to) THEN Go(Consume("=", i.to), <<Expression, end>>)
         ELSE Go(EmitConstant([type |-> "null"], i.to), <<end>>)

Define(id, c) == IF id.scope = "local" THEN c ELSE Emit(<<OP_DEFINE_GLOBAL, id.index>>, c)

EndVarDeclaration ==
  /\ Doing("end var")
  /\ Go(Define(Task.id, Consume(";", context)), <<>>)

Function ==
  /\ Doing("fn")
  /\ LET i   == Identifier(TRUE, Consume("fn", context))
         fun == [i.to EXCEPT !.functions = Append(@, EmptyFunction),
                             !.current = Len(i.to.functions) + 1]
     IN  Go(Consume("(", ScopeBegin(fun)),
            <<[do |-> "parameters", arity |-> 0], Do("{"),
              [do |-> "end fn", id |-> Id(i), prev |-> context.current]>>)

EndParameters(arity, c) ==
  Go([Consume(")", c) EXCEPT !.functions[c.current].arity = arity % 256], <<>>)

Parameters ==
  /\ Doing("parameters")
  /\ LET named == Identifier(TRUE, context).to
         arity == Task.arity + 1
     IN  IF Is(")", context) THEN EndParameters(Task.arity, context)
         ELSE IF Is(",", named) THEN Go(Consume(",", named), <<[Task EXCEPT !.arity = arity]>>)
         ELSE EndParameters(arity, named)

\* Mutant of EndFunction: scope_depth keeps its value.
EndFunctionInScope ==
  /\ Doing("end fn")
  /\ LET back == [Emit(<<OP_NULL, OP_RETURN>>, context) EXCEPT !.current = Task.prev]
     IN  Go(Define(Task.id, EmitConstant([type |-> "function", fn |-> context.current], back)),
            <<>>)

\* Mutant of EndFunction: the function made is the one gone back to.
EndFunctionOuter ==
  /\ Doing("end fn")
  /\ LET back == [Emit(<<OP_NULL, OP_RETURN>>, context) EXCEPT
                    !.current = Task.prev, !.scope_depth = @ - 1]
         fun  == [type |-> "function", fn |-> back.current]
     IN  Go(Define(Task.id, EmitConstant(fun, back)), <<>>)

\* Mutant of EndFunction: the scope of the parameters is ended twice.
EndFunctionTwice ==
  /\ Doing("end fn")
  /\ LET back == [ScopeEnd(Emit(<<OP_NULL, OP_RETURN>>, context)) EXCEPT
                    !.current = Task.prev, !.scope_depth = @ - 1]
         fun  == [type |-> "function", fn |-> context.current]
     IN  Go(Define(Task.id, EmitConstant(fun, back)), <<>>)

\* The parameters stay in locals.
EndFunction ==
  /\ Doing("end fn")
  /\ LET back == [Emit(<<OP_NULL, OP_RETURN>>, context) EXCEPT
                    !.current = Task.prev, !.scope_depth = @ - 1]
         fun  == [type |-> "function", fn |-> context.current]
     IN  Go(Define(Task.id, EmitConstant(fun, back)), <<>>)

-----------------------------------------------------------------------------
(***************************************************************************)
(* Statements.                                                             *)
(***************************************************************************)
Statement ==
  /\ Doing("statement")
  /\ IF context.token \in {"if", "while", "for", "{", "break", "continue", "return"}
       THEN Go(context, <<Do(context.token)>>)
       ELSE Go(context, <<Do("expression statement")>>)

Consuming(type) == [do |-> "consume", type |-> type]

\* What a function does last, when that is to consume a token.
ConsumeLast == Doing("consume") /\ Go(Consume(Task.type, context), <<>>)

ExpressionStatement ==
  /\ Doing("expression statement")
  /\ Go(context, <<Expression, Consuming(";")>>)

ReturnStatement ==
  /\ Doing("return")
  /\ Go(Consume("return", context), <<Expression, Do("end return")>>)

EndReturn ==
  /\ Doing("end return")
  /\ Go(Emit(<<OP_RETURN>>, Consume(";", context)), <<>>)

Block ==
  /\ Doing("{")
  /\ Go(Consume("{", ScopeBegin(context)), <<Do("block")>>)

InBlock ==
  /\ Doing("block")
  /\ IF context.token \notin {"}", "eof"} THEN Go(context, <<Do("declaration"), Task>>)
     ELSE Go(ScopeEnd(Consume("}", context)), <<>>)

If ==
  /\ Doing("if")
  /\ Go(Consume("(", Consume("if", context)), <<Expression, Do("then")>>)

Then ==
  /\ Doing("then")
  /\ LET c == Consume(")", context)
     IN  Go(EmitJump(OP_JUMP_IF_FALSE, c), <<Do("statement"), [do |-> "else", jump |-> Size(c)]>>)

Else ==
  /\ Doing("else")
  /\ IF context.panic THEN Return
     ELSE IF Is("else", context)
       THEN LET c == EmitJump(OP_JUMP, Consume("else", context))
            IN  Go(UpdateJump(Task.jump, Size(c) - (Task.jump + 3), c),
                   <<Do("statement"), [do |-> "end if", jump |-> Size(context)]>>)
       ELSE Go(UpdateJump(Task.jump, Size(context) - (Task.jump + 3), context), <<>>)

EndIf ==
  /\ Doing("end if")
  /\ IF context.panic THEN Return
     ELSE Go(UpdateJump(Task.jump, Size(context) - (Task.jump + 3), context), <<>>)

-----------------------------------------------------------------------------
(***************************************************************************)
(* Loops.  start and the like are places in the code.                      *)
(***************************************************************************)
\* A function's code after all updates, the last one first: of two that write the
\* same byte, as those of different functions may, the first has it.
Patched(fun, updates) ==
  LET Byte(k) ==
        LET writers == {j \in DOMAIN updates : updates[j].index + 2 \in {k - 1, k}}
            update  == updates[CHOOSE j \in writers : \A i \in writers : j <= i]
        IN  IF writers = {} THEN fun.code[k]
            ELSE IF update.index + 2 = k THEN HighByte(update.length) ELSE LowByte(update.length)
  IN  [fun EXCEPT !.code = [k \in DOMAIN @ |-> Byte(k)],
                  !.overrun = @ \/ \E j \in DOMAIN updates : Reaches(updates[j].index, fun)]

\* Mutant of ResolveLoopJumps: the breaks' lengths are counted from where the jumps start.
ResolveFromIndex(start, end, c) ==
  LET continues == Remaining(c.continue_jumps, c.scope_depth)
      breaks    == Remaining(c.break_jumps, c.scope_depth)
      Again(jump) == [index |-> jump.index, length |-> jump.pos - start]
      Out(jump)   == [index |-> jump.index, length |-> end - jump.index]
      updates == [j \in 1 .. Len(c.break_jumps) - breaks |-> Out(c.break_jumps[breaks + j])] \o
                 [j \in 1 .. Len(c.continue_jumps) - continues |->
                    Again(c.continue_jumps[continues + j])]
  IN  [c EXCEPT !.functions[c.current] = Patched(@, updates),
                !.continue_jumps = SubSeq(@, 1, continues),
                !.break_jumps = SubSeq(@, 1, breaks)]

\* Mutant of ResolveLoopJumps: break_size keeps its value.
ResolveKeeping(start, end, c) ==
  LET continues == Remaining(c.continue_jumps, c.scope_depth)
      breaks    == Remaining(c.break_jumps, c.scope_depth)
      Again(jump) == [index |-> jump.index, length |-> jump.pos - start]
      Out(jump)   == [index |-> jump.index, length |-> end - jump.pos]
      updates == [j \in 1 .. Len(c.break_jumps) - breaks |-> Out(c.break_jumps[breaks + j])] \o
                 [j \in 1 .. Len(c.continue_jumps) - continues |->
                    Again(c.continue_jumps[continues + j])]
  IN  [c EXCEPT !.functions[c.current] = Patched(@, updates),
                !.continue_jumps = SubSeq(@, 1, continues)]

\* Every pending jump from a deeper scope is taken for one of the loop's: first the
\* continues, from the last one down, then the breaks.
ResolveLoopJumps(start, end, c) ==
  LET continues == Remaining(c.continue_jumps, c.scope_depth)
      breaks    == Remaining(c.break_jumps, c.scope_depth)
      Again(jump) == [index |-> jump.index, length |-> jump.pos - start]
      Out(jump)   == [index |-> jump.index, length |-> end - jump.pos]
      updates == [j \in 1 .. Len(c.break_jumps) - breaks |-> Out(c.break_jumps[breaks + j])] \o
                 [j \in 1 .. Len(c.continue_jumps) - continues |->
                    Again(c.continue_jumps[continues + j])]
  IN  [c EXCEPT !.functions[c.current] = Patched(@, updates),
                !.continue_jumps = SubSeq(@, 1, continues),
                !.break_jumps = SubSeq(@, 1, breaks)]

EnterLoop(c) == [c EXCEPT !.loop_depth = c.scope_depth]

While ==
  /\ Doing("while")
  /\ LET c == EnterLoop(Consume("(", Consume("while", context)))
     IN  Go(c, <<Expression, [do |-> "while body", start |-> Size(c),
                              outer |-> context.loop_depth]>>)

WhileBody ==
  /\ Doing("while body")
  /\ LET c == Consume(")", context)
     IN  Go(EmitJump(OP_JUMP_IF_FALSE, c),
            <<Do("statement"), [do |-> "end while", start |-> Task.start,
                                test |-> Size(c), outer |-> Task.outer]>>)

EndWhile ==
  /\ Doing("end while")
  /\ IF context.panic THEN Return
     ELSE LET back == EmitJump(OP_JUMP_BACK, context)
              end  == Size(back)
              over == UpdateJump(Task.test, end - (Task.test + 3), back)
              loop == UpdateJump(Size(context), end - Task.start, over)
          IN  \E c \in {[loop EXCEPT !.loop_depth = Task.outer]} :
               Go(ResolveLoopJumps(Task.start, end, c), <<>>)

For ==
  /\ Doing("for")
  /\ LET c    == ScopeBegin(EnterLoop(Consume("(", Consume("for", context))))
         rest == [do |-> "for condition", outer |-> context.loop_depth]
     IN  IF Is(";", c) THEN Go(Consume(";", c), <<rest>>)
         ELSE IF Is("var", c) THEN Go(c, <<Do("var"), rest>>)
         ELSE Go(c, <<Do("expression statement"), rest>>)

ForCondition ==
  /\ Doing("for condition")
  /\ LET start == Size(context)
     IN  IF Is(";", context)
           THEN Go(Consume(";", context),
                   <<[do |-> "for increment", start |-> start, tests |-> FALSE,
                      outer |-> Task.outer]>>)
           ELSE Go(context, <<Expression, [do |-> "for test", start |-> start,
                                           outer |-> Task.outer]>>)

ForTest ==
  /\ Doing("for test")
  /\ Go(EmitJump(OP_JUMP, EmitJump(OP_JUMP_IF_FALSE, Consume(";", context))),
        <<[do |-> "for increment", start |-> Task.start, tests |-> TRUE,
           outer |-> Task.outer]>>)

ForIncrement ==
  /\ Doing("for increment")
  /\ LET rest == [do |-> "for body", start |-> Task.start, tests |-> Task.tests,
                  outer |-> Task.outer, increment |-> Size(context)]
     IN  IF Is(")", context) THEN Go(context, <<rest>>) ELSE Go(context, <<Expression, rest>>)

ForBody ==
  /\ Doing("for body")
  /\ LET c == Consume(")", IF Task.tests THEN EmitJump(OP_JUMP_BACK, context) ELSE context)
     IN  Go(c, <<Do("statement"),
                 [do |-> "end for", start |-> Task.start, tests |-> Task.tests,
                  outer |-> Task.outer, increment |-> Task.increment, body |-> Size(c)]>>)

\* Mutant of EndFor: continue leads to the test, past the increment.
EndForToTest ==
  /\ Doing("end for")
  /\ IF context.panic THEN Return
     ELSE LET back  == EmitJump(OP_JUMP_BACK, context)
              end   == Size(back)
              inc   == Task.increment
              tests == IF Task.tests
                         THEN UpdateJump(Task.body - 3, Task.body - Task.start,
                                UpdateJump(inc - 3, Task.body - inc,
                                  UpdateJump(inc - 6, end - (inc - 3), back)))
                         ELSE back
              loop  == ScopeEnd(UpdateJump(Size(context), end - inc, tests))
          IN  \E c \in {[loop EXCEPT !.loop_depth = Task.outer]} :
               Go(ResolveLoopJumps(Task.start, end, c), <<>>)

\* The two jumps of the test are right before the increment, its jump back right after.
EndFor ==
  /\ Doing("end for")
  /\ IF context.panic THEN Return
     ELSE LET back  == EmitJump(OP_JUMP_BACK, context)
              end   == Size(back)
              inc   == Task.increment
              tests == IF Task.tests
                         THEN UpdateJump(Task.body - 3, Task.body - Task.start,
                                UpdateJump(inc - 3, Task.body - inc,
                                  UpdateJump(inc - 6, end - (inc - 3), back)))
                         ELSE back
              loop  == ScopeEnd(UpdateJump(Size(context), end - inc, tests))
          IN  \E c \in {[loop EXCEPT !.loop_depth = Task.outer]} :
               Go(ResolveLoopJumps(inc, end, c), <<>>)

\* Mutant of LeaveLoop: outside a loop, break and continue are not consumed.
LeaveLoopUnread(op, jumps) ==
  LET c     == Consume(Task.do, context)
      there == PopScopes(c.loop_depth, Consume(";", c))
      jump  == [index |-> Size(there), pos |-> Size(there) + 3, depth |-> c.scope_depth]
  IN  IF c.loop_depth < 0 THEN Go(Panic(context), <<>>)
      ELSE Go([EmitJump(op, there) EXCEPT ![jumps] = Append(@, jump)], <<>>)

\* compile_break and compile_continue, which keep their jumps in different arrays.
LeaveLoop(op, jumps) ==
  LET c     == Consume(Task.do, context)
      there == PopScopes(c.loop_depth, Consume(";", c))
      jump  == [index |-> Size(there), pos |-> Size(there) + 3, depth |-> c.scope_depth]
  IN  IF c.loop_depth < 0 THEN Go(Panic(c), <<>>)
      ELSE Go([EmitJump(op, there) EXCEPT ![jumps] = Append(@, jump)], <<>>)

Break    == Doing("break") /\ LeaveLoop(OP_JUMP, "break_jumps")
Continue == Doing("continue") /\ LeaveLoop(OP_JUMP_BACK, "continue_jumps")

-----------------------------------------------------------------------------
(***************************************************************************)
(* Expressions: compile_precedence, first by the token it finds.           *)
(***************************************************************************)
Precedence(type) ==
  CASE type \in {"=", "integer", "double"} -> 2
    [] type \in {"==", "!="}               -> 3
    [] type \in {"<", "<=", ">", ">="}     -> 4
    [] type \in {"+", "-"}                 -> 5
    [] type \in {"*", "/"}                 -> 6
    [] type = "!"                          -> 8
    [] OTHER                               -> 0

Operand(min, can_assign) == [do |-> "precedence", can_assign |-> can_assign, min |-> min]
Infix(can_assign) == [do |-> "infix", can_assign |-> can_assign, min |-> Task.min]

Constants == {"integer", "double", "string"}

Literal ==
  /\ Doing("precedence")
  /\ LET t == TypeOf(context.token)
         c == IF t \in Constants THEN EmitConstant([type |-> t, token |-> context.token], context)
              ELSE Emit(<<CASE t = "true" -> OP_TRUE [] t = "false" -> OP_FALSE
                            [] t = "null" -> OP_NULL>>, context)
     IN  /\ t \in Constants \cup {"true", "false", "null"}
         /\ Go(Advance(c), <<Infix(FALSE)>>)

Grouping ==
  /\ Doing("precedence")
  /\ Is("(", context)
  /\ Go(Consume("(", context), <<Expression, Consuming(")"), Infix(Task.can_assign)>>)

Name ==
  /\ Doing("precedence")
  /\ Is("identifier", context)
  /\ LET i == Identifier(FALSE, context)
     IN  IF Is("(", i.to)
           THEN Go(Consume("(", i.to), <<[do |-> "arguments", id |-> Id(i), args |-> 0],
                                         Infix(Task.can_assign)>>)
         ELSE IF Is("=", i.to) /\ Task.can_assign
           THEN Go(Consume("=", i.to), <<Operand(1, FALSE), [do |-> "assign", id |-> Id(i)]>>)
         ELSE Go(Emit(GetOf(Id(i)), i.to), <<Infix(Task.can_assign)>>)

Assign == Doing("assign") /\ Go(Emit(SetOf(Task.id), context), <<>>)

\* Any other token is taken for an operator.
Prefix ==
  /\ Doing("precedence")
  /\ TypeOf(context.token) \notin Constants \cup
                                   {"true", "false", "null", "(", "identifier", "eof"}
  /\ Go(Advance(context), <<Operand(Precedence(context.token) + 6, FALSE),
                            [do |-> "unary", op |-> context.token], Infix(Task.can_assign)>>)

\* At the end of the text compile_unary and compile_precedence call each other forever.
EndlessPrefix ==
  /\ Doing("precedence")
  /\ Is("eof", context)
  /\ Stop("overflow")

UnaryCode(op) == CASE op = "-" -> <<OP_NEGATE>> [] op = "!" -> <<OP_NOT>> [] OTHER -> <<>>

Unary == Doing("unary") /\ Go(Emit(UnaryCode(Task.op), context), <<>>)

Operator ==
  /\ Doing("infix")
  /\ IF Is("=", context) /\ ~ Task.can_assign THEN Go(Panic(context), <<>>)
     ELSE Go(context, <<[Task EXCEPT !.do = "operators", !.can_assign = @ /\ Is("=", context)]>>)

\* Mutant of Operators: an operator as strong as the one before it goes first.
OperatorsRight ==
  /\ Doing("operators")
  /\ LET strength == Precedence(TypeOf(context.token))
     IN  IF strength >= Task.min
           THEN Go(Advance(context), <<Operand(strength, Task.can_assign),
                                       [do |-> "binary", op |-> context.token], Task>>)
           ELSE Return

Operators ==
  /\ Doing("operators")
  /\ LET strength == Precedence(TypeOf(context.token))
     IN  IF strength > Task.min
           THEN Go(Advance(context), <<Operand(strength, Task.can_assign),
                                       [do |-> "binary", op |-> context.token], Task>>)
           ELSE Return

BinaryCode(op) ==
  CASE op = "+"  -> <<OP_ADD>> [] op = "-"  -> <<OP_SUBSTRACT>>
    [] op = "*"  -> <<OP_MULTIPLY>> [] op = "/" -> <<OP_DIVIDE>>
    [] op = "==" -> <<OP_EQ>> [] op = "!=" -> <<OP_NE>>
    [] op = ">"  -> <<OP_GT>> [] op = ">=" -> <<OP_GTE>>
    [] op = "<"  -> <<OP_LT>> [] op = "<=" -> <<OP_LTE>>
    [] op = "="  -> <<OP_SET_GLOBAL>>
    [] OTHER     -> <<>>

Binary == Doing("binary") /\ Go(Emit(BinaryCode(Task.op), context), <<>>)

\* A call of a call's result calls the same function again.
EndCall(args) ==
  LET c == Emit(GetOf(Task.id) \o <<OP_CALL, args % 256>>, Consume(")", context))
  IN  IF Is("(", c) THEN Go(Consume("(", c), <<[do |-> "arguments", id |-> Task.id, args |-> 0]>>)
      ELSE Go(c, <<>>)

Arguments ==
  /\ Doing("arguments")
  /\ IF Is(")", context) THEN EndCall(Task.args)
     ELSE Go(context, <<Expression, [Task EXCEPT !.do = "argument", !.args = @ + 1]>>)

Argument ==
  /\ Doing("argument")
  /\ IF Is(",", context) THEN Go(Consume(",", context), <<[Task EXCEPT !.do = "arguments"]>>)
     ELSE EndCall(Task.args)

-----------------------------------------------------------------------------
Step ==
  \/ Program \/ Declaration \/ Synchronize \/ VarDeclaration \/ EndVarDeclaration
  \/ Function \/ Parameters \/ EndFunction
  \/ Statement \/ ConsumeLast \/ ExpressionStatement \/ ReturnStatement \/ EndReturn
  \/ Block \/ InBlock \/ If \/ Then \/ Else \/ EndIf
  \/ While \/ WhileBody \/ EndWhile
  \/ For \/ ForCondition \/ ForTest \/ ForIncrement \/ ForBody \/ EndFor
  \/ Break \/ Continue
  \/ Literal \/ Grouping \/ Name \/ Assign \/ Prefix \/ EndlessPrefix \/ Unary
  \/ Operator \/ Operators \/ Binary \/ Arguments \/ Argument

Stopped == status # "ok" /\ UNCHANGED vars

Next == Step \/ Stopped

Spec == Init /\ [][Next]_vars /\ WF_vars(Step)
=============================================================================
