# A verification project for uuc

uuc is a small scripting language in C: a lexer, a one-pass compiler that emits
bytecode, and a stack machine that runs it. This directory holds TLA+ models of
these parts, TLC configurations that check them on small instances, and theorems
about them that TLAPS proves for every value of the constants. Paths below are
relative to the repository root.

## 1. The system

| Component | Source | State | Operations |
|---|---|---|---|
| Lexer | `src/lexer/uuc_lexer.c` | text, `cursor`, `line`, `in_comment` | `next_token` |
| Compiler | `src/compiler/uuc_compiler.c` | current and previous token, panic and error flags, locals, scope and loop depth, pending breaks and continues, the function being compiled | `compile_code`: statements, declarations, expressions by precedence |
| Bytecode slice | `src/vm/uuc_bytecode.c` | `codes`, `size`, `capacity`, constants, names | `slice_init`, `slice_push_code`, `slice_push_constant`, `slice_register_name` |
| Value list, value stack | `src/collection/` | `head`, `size`, `capacity` | push, pop, peek, get, set |
| Global table | `src/collection/uuc_val_table.c` | nodes (an entry or a bucket each), `size`, `capacity` | `uuc_val_table_get`, `_put`, `_remove`, rehash |
| Virtual machine | `src/vm/uuc_vm.c` | call frames, value stack, global table | `uuc_vm_init`, `vm_tick`, `uuc_vm_run` |
| Values, strings, functions | `src/vm/uuc_string.c`, `uuc_function.c`, `uuc_type.c` | immutable once made | constructors, hash of a string |
| s-notation | `src/util/uuc_s_notation.c` | a stack of texts, while it runs | `slice_s_notation` |
| Logging, dumps | `src/include/uuc_log.h` | none | print |

**How they interact.** Everything is a call in one thread. The compiler pulls
one token at a time from the lexer and pushes bytes, constants and names into
the slice of the function it compiles; a function is a value in the constants of
the function around it. `uuc_vm_run` puts main's slice in a first call frame and
calls `vm_tick` until it reports something other than `UUC_OK`. A tick reads one
instruction of the top frame and works on the value stack, on the table of
globals, or on the frames. Only the tests put the three together
(`run_vm_test_case` in `src/test/test_vm.c`), and look at code through
`slice_s_notation`; `main.c` prints a greeting.

**What is hard here.** There are no threads, no messages and nothing is
persisted, so nothing races and nothing restarts. What is hard is agreement
between parts that do not check each other:

* The operand stack has no types and no frames of its own. A local variable is
  `stack_offset + index`, and both numbers are right only if every instruction
  before left exactly the slots the compiler thought it would.
* State fetched before a change and used after it: `vm_tick` fetches the frame,
  runs an instruction that may push or pop frames, then advances and tests the
  old one. The table frees nodes it still shares memory with.
* Several growing arrays with an unchecked capacity each: call frames (225),
  the stack (doubling in `uint32_t`), the code (which grows without updating its
  capacity), the table (load looked at before the put).
* Boundaries: 1- and 2-byte indexes, 16-bit jumps, unsigned offsets that wrap,
  index checks that accept `size`.
* A compiler that makes one pass, with no tree: jumps are patched long after
  they are emitted, from arrays that say how deep a jump was but not which loop
  it belongs to; locals are counted in one place and popped in another.
* A lexer that tries keywords, then gives up in the middle of a word.
* Progress: loops by back jumps, a lexer or compiler step that consumes nothing.

`PROJECT.json` lists these hazards at their lines, with the properties that
would catch each one going wrong, or why none does.

**What makes each part correct.** *Lexer*: tokens are the longest lexemes in
order, and nothing else is skipped than blanks and comments. *Slice*: where bytes do
and do not go where memory was allocated. *Stack*: a sequence with random access, through
every reallocation. *Table*: a finite map, through every collision, grow and
shrink. *Machine*: each activation of a function has slots of its own, callers
resume where they left off, globals change only by instructions that name them,
and a program ends exactly when main does. *Compiler*: the code has one stack
height at each instruction, its locals are the slots it takes them for, breaks
leave their own loop, expressions are those of the grammar, and compiling ends.
*All together*: a program does what its text says.

## 2. The modules

    UucLexer --- MCUucLexer
         \--- UucLexerProofs
    UucOpcodes --- UucCompiler ---- UucCompiled --- MCUucCompiler
    UucOpcodes --- UucHeights ------/  /  \----- (UucStackMap, below)
    UucOpcodes --- UucSNotation ------/  \--- UucCompilerProofs

    UucLiterals --- UucMeaning -----\
          \-------- UucProgram --- UucMeant --- MCUucProgram
                      |     \--- UucProgramProofs
       UucCompilerProofs, UucVMProofs   (as INSTANCEs)

    UucOpcodes  UucValueOps  UucStack  UucValTable
         \          |           |         |     \
          +---------+--- UucVM -+---------+      UucTable --- MCUucTable
                          |   \   \                |  \
          UucVMClaims ----+    \   UucVMProofs     |   UucTableProofs
          UucActivations -- UucStackMap            UucMap
                               |
                          UucStackMapProofs
    UucStack --- UucSlots -- UucValues --- MCUucValues
                                 \--- UucArrayProofs
                      UucSlice ------/

| Module | What it is |
|---|---|
| `UucOpcodes` | The instruction numbers and their groups. |
| `UucValueOps` | `Value`, and what each operator makes of values; 32-bit integers that wrap. |
| `UucStack` | The value stack as its callers see it: `mem`, what was ever written, and `size`. |
| `UucValTable` | The table as a value, and get, put, remove and rehash as operators. |
| `UucVM` | The machine: `prog`, `stack`, `frames`, `globals`, `status`; one action per group of instructions. |
| `UucVMClaims` | Two things the repository says of the machine that it does not do. |
| `UucHeights` | What a stack map of a function is, and how to infer one from code. |
| `UucCompiler` | `compile_code`, token by token. |
| `UucCompiled` | What the compiler promises of its code and of itself. |
| `UucSNotation` | `slice_s_notation`, from a function's code to words. |
| `UucMeaning` | *Reference*: programs as trees, the text of a tree, and what it means by going through the tree. No stack, slots or jumps. |
| `UucLiterals` | The integers of a text. |
| `UucProgram` | A program from its text to its end, whatever the text: compiler and machine composed, with what is loaded in between. |
| `UucMeant` | Programs of trees: `UucProgram` against `UucMeaning`. |
| `UucActivations` | *Abstract*: activations with slots of their own, calls that hand arguments over, returns that leave one result. |
| `UucStackMap` | The machine together with a stack map of each function, and the refinement of `UucActivations`. |
| `UucTable` | The table and its users: any calls, or only those of users that know their keys. |
| `UucMap` | *Abstract*: the finite map `uuc_val_table.h` promises. |
| `UucValues` | The stack in memory: a block of `capacity` slots, moved when it grows. |
| `UucSlots` | *Abstract*: `UucStack` as a machine, without memory. |
| `UucSlice` | Emitting code: `slice_size`, `slice_capacity`, and how much is really allocated. |
| `UucLexer` | `next_token` on a text. |
| `UucLemmas` | Typing and preservation lemmas about values, stack and table. |
| `Uuc*Proofs` | Theorems and proofs about the module in their name; `UucStackMapProofs` has those of the refinement of `UucActivations` too, `UucCompilerProofs` those about `UucCompiled`, `UucArrayProofs` those about the arrays that grow, `UucValues` and `UucSlice`. |
| `MC*` | Values of constants for TLC. `MCUucPrograms` is the corpus of programs. |

### How state and actions correspond to the code

**Machine.** A step of `UucVM` is one `vm_tick`: instruction, advance of
the frame and end test together. The frame's `ip` and `ii` move together
and are one number. `frames` is `call_frames[0 .. frames_size - 1]`. What
stops the machine is `status`: `UUC_OK_END`, `UUC_RUNTIME_ERROR`, `exit(1)`
of an index check, or `wild`, where the machine accessed memory outside its
arrays (frame 226, frame -1, the byte behind the code, the slot behind a full
stack) or went where a pointer nobody wrote led it; C says nothing of what
follows, and neither does the model. The `stack` keeps what lies above
`size`, because a wrong offset can read it.

`stack_get` admits `index = size`, a slot that may never have been written:
`{ var x = x; x(); }` reads one, and calls it. What is in it is `Anything`, a
value that stands for all bits there may be: a value of any type, of none, or a
pointer to no object. It can be moved to other slots, to globals and into calls.
Each use of it (an operator, a test, a call) has every outcome the code has for
some bits: an error, any result, or `wild`. Where the stack is full there is no
such slot, and reading it is `wild`; `StackCapacity` says when that is.

**Values.** Integers wrap modulo `WordMod` (2^32). Integer arithmetic
goes through `double` in the code, exact up to `ExactBound` (2^53); beyond it
the result is any integer. Doubles and strings carry no payload: an
operator on them yields any value of the type it may yield. Functions
are named by where they were compiled.

**Programs** are constants: the bytes of each function, its arity, constants
and names. The corpus (`MCUucPrograms`) holds 46 programs, each the output of
the real compiler for the source in the comment above it, taken from the tests
and chosen to use each statement. They are in two groups. `WellStacked`
programs have a stack map. `IllStacked` ones do not, although the compiler
accepts them without an error.

**Compiler.** The functions of `uuc_compiler.c` call each other, so `work` is
C's call stack: each entry is what one call has left to do. A step runs one
function up to its next call of a `compile_*` function and puts that call, and
its own rest, on top. Helpers that call none are operators from one
`CompilerContext` to the next, with the fields of the struct. A token is its
type, or what an identifier or integer is spelled like, which names and
constants keep. `status` is
"wild" where one of the 225-element arrays is overrun or a byte is written behind
what is allocated for a function's codes, "exit" where
`slice_push_constant` exits, and "overflow" where `compile_unary` and
`compile_precedence` would call each other forever. The model was also run
against the program on some ten thousand random texts, valid and broken, whose
code, constants, names and result were the same byte for byte.

A function has, besides its code, the `capacity` of its slice, how many bytes of
codes are `allocated`, and whether they were `overrun`. `slice_push_code` grows
codes and leaves `capacity` as it was (`Grown`), so a long run without a constant
overruns codes; `EmitConstant` makes room as `slice_push_constant` does. A jump may
also be patched in the code of another function than it was emitted in: behind that
function's code but in its allocation the bytes are overwritten when code gets there,
further behind codes are overrun.

A loop's end writes the lengths of its breaks and continues into the code one
after the other, the last one first; `Patched` says what all of them make of it: of
two that write the same byte, the first has it.

**s-notation.** A text is the sequence of its words: what `sprintf` puts into a
buffer is the words it is given. The stack of texts keeps what is above its
size, as the memory does, because a null constant leaves its entry unwritten.

**A program.** `UucProgram` has the variables of compiler and machine, and its
steps are theirs, with `Load` in between: `uuc_vm_init` with the main of a text
that was accepted. A function constant, a pointer in the code, is the label of
one of the functions compiled; an integer constant is the number its token
denotes. `run` is "idle" until the machine is loaded. The machine is an instance
whose programs are all those that are `Linkable`: any bytes for code, so that
the compiler has no say in what the machine is ready for. How many functions a
text may have is the number of `Labels`, a constant. The instances are of the
modules with the proofs, because a theorem is about the definitions of its own
instance and of no other.

**Table.** A node is a function from its keys to their values, so that one
entry and a bucket of several are told apart by their number, as `bucket_size`
does in the code. `Hash` is a constant function: the theorems hold for every
hash. A node with a single entry answers for every key of its index, as the code
does. When a bucket shrinks to one entry, the node is overwritten with that
entry while it still names the bucket, and `free` gets the entry's bytes: it
either does nothing (the pointer is null) or is undefined. `FreeOverwritten` is
the second case, after which `status` is `wild`.

**Stack in memory.** `UucValues` has the block; `Realloc` keeps what both
blocks have room for; the doubled capacity is modulo 2^32. A slot never
written holds `Anything`.

**Slice.** Only sizes matter. `allocated` is what `codes` was last
reallocated to, which the code keeps nowhere. `since`, a history variable,
counts the bytes since the last constant. Any bytes and constants may follow one
another, whatever the compiler would emit.

**Lexer.** A character is a string of length one. The loops are given by where
they stop. Two details of the code matter to who uses it and are kept: the
token at the end of an empty text points one character before the text, and a
comment yields a `//` token of its own that the compiler does not skip.

## 3. The runs

Deadlock is checked in all of them: stopping is the explicit stutter `Stopped`.

| Run | States | Question |
|---|---|---|
| `vm_any` | 1173 | All 46 programs, the ill-stacked ones too: types, return addresses, globals. |
| `vm_stackmap` | 652 | Programs with a stack map: heights, how runs end, the refinement of `UucActivations`, termination. |
| `table_any` | 4994 | Any calls on a table: counts, places, load, the rehash against the loop the code runs, and the calls for stored keys against `UucMap`. |
| `values_stack` | 960 | Any calls on a stack in memory: the refinement of `UucSlots` while accesses are in bounds. |
| `slice_any` | 2937 | Emitting any code: when it is written past codes. |
| `lexer` | 33166 | All short texts over two alphabets. |
| `compiler` | 305261 | Short texts, expressions, broken texts, functions in functions, texts that overrun arrays, and 1289 sources of nested statements. |
| `program` | 103320 | 323 programs compiled, loaded and run: what is handed over, and what they do against what their trees mean. |
| `vm_end`, `vm_wide_constant`, `table_absent`, `compiler_assign` | | Expected violations, section 5. |

**Properties.**

* `Discipline`: every frame's window on the stack starts where its caller's
  stops and is as high as the map says. This is what makes a local variable's
  slot the one the compiler meant.
* `Outcome`: no index check exits, nothing runs wild but a call with no frame
  left, the end is reported when main is done and not before.
* `PrivateSlots`: the machine implements `UucActivations`.
* `Termination`: every program of the corpus with a stack map stops.
* `ReturnAddresses`: a frame below the top stands right after the operand of
  the `OP_CALL` that suspended it. Holds for ill-stacked programs too.
* `GlobalsIsolated`: a step changes the binding of no global but the one its
  instruction names, through every rehash.
* `Counted`, `LoadBounded`, `RehashIsRepeatedPut`: `size` is the number of
  entries and each is where its hash leads; the load exceeds 0.7 by at most one
  entry; rehashing by repeated puts, each of which may grow the table in
  turn, is the same as moving everything at once.
* `KnownCallsMap`: whatever calls came before, a put, and a get or remove of a
  key that is stored, answers and changes the contents as `UucMap` does. (A get
  or remove of a key that is not stored does not; see section 5.)
* `KeepsSlots`: the refinement of `UucSlots`. `WildWhenFull`: the index checks that
  accept `size` matter only when the stack is full.
* `OverrunByLongRun`: as `capacity` is stale, codes is overrun, but by nothing
  else than a run of bytes without a constant that is, less two, half as long as
  what is allocated. With 8 bytes at first that is no rare code: the body of
  `fn f(a, b, c) { return a + b + c + a + b + c; }` is overrun.
* `MaximalMunch`, `NothingLost`, `Lines`, `Ends`: each token is the longest
  lexeme at its place, given by a definition of lexemes that does not follow
  the code; between two tokens there are only blanks and comments; `line` is
  right; the text is used up unless it has a character no token begins with.
* `Fits`: every function of a compiled source has a stack map, inferred from its
  code, that satisfies what `StackMapAssumption` asks of the machine's programs,
  but for one thing: it is about `Closed(fun)`, the code with one more byte behind
  it. The last byte of a compiled function is a return, and a map allows none
  there, because the machine takes it for the end of main (the finding `vm_end`). So
  what holds here is the assumption of `StackDiscipline` for code the compiler
  would emit with one more byte, and not for the code it emits.
* `LocalsAreSlots`: at every statement that control can get to, the height of the
  code so far is the number of locals in scope.
* `LoopsKeepTheirJumps`: a loop that ends resolves the breaks and continues
  compiled since it began, to its own end and start, and no others.
* `NonePending`: while no loop of a source is being compiled, none of its breaks
  and continues is left to resolve, so a later loop finds none but its own.
* `BackAtTop`: between top-level declarations of a text without an error the
  compiler is in main, in no scope and no loop.
* `HandedOver`: between top-level declarations of any text, errors or not, the
  functions are a tree with main as its root. Each of the others is a constant in
  exactly one place, in a function begun before it: none is lost, has two owners
  or reaches itself. Main has no parameters, and unless there was an error all
  names are identifiers. The current function is a variable that is set and set
  back, and an error may be found anywhere in between.
* `FollowsGrammar`: an expression's code is the one read off its derivation by
  the rules of `EBNF.ebnf`, which the module defines without precedence numbers.
* `NotationShows`: `slice_s_notation` shows an expression, an assignment or a
  variable's first value as prefix words in the order of the derivation: it
  undoes what the compiler did, and each operand lands on its own side.
* `AsMeant`: a program that ends or fails does so exactly when its tree does,
  leaves the globals the tree leaves, and at its end an empty stack. The trees
  trace what is done in a global, so the order of everything is compared.
* `Finishes`: every program of the run is accepted, loaded, and ends or fails.
* `Ends` (of `UucCompiled`): every text without a class is compiled, or the model
  stops because an array is overrun or C's stack is; the compiler does not go
  around in circles.
* `TypeOK` in each module (`SliceTypeOK` of the slice). That of `UucProgram` says
  what passes between the two halves of the system: what runs is what was
  compiled of the text, it is a program the machine is ready for (its
  function constants are functions of the program other than main, main has no
  parameters, names are keys), and the machine is in its types to the end.

**The sources** of `Fits`, `LocalsAreSlots`, `LoopsKeepTheirJumps` and
`NonePending` keep to rules the language does not state and the compiler does not
check. Each rule is there because a text that breaks it makes one of the first
three fail, or is not followed to its end:

| Rule | Where the code goes wrong otherwise |
|---|---|
| A value is assigned or returned, not left. | `uuc_compiler.c:441`: nothing pops it. |
| A variable's first value is not its own. | `200`: the local is in scope before it has a slot. |
| The body of a loop is a block. | `364`: the depth of a break in it is not above the loop's. |
| No break or continue for a loop with a variable of its own. | `350`: the variable is popped twice. |
| No loop after a break or continue of a deeper scope. | `357`: it takes the jump for its own. |
| Only functions return. | `uuc_vm.c:227`: no frame is left. |
| The codes of a function fit what is allocated. | `uuc_bytecode.c:35`: capacity is stale. |
| Functions are declared at the top. | `206`: the locals around count as the function's. |
| No scope after a function with parameters. | `146`: the parameters stay among the locals. |

The programs of `AsMeant` and `Finishes` keep to them as well, and to one more,
the finding `vm_end`: what main calls returns in a return statement, because
falling off a function's end, called from main, ends the program.

**Bounds, and why they are enough.**

* `MaxCallFrames` is 5 instead of 225, so that recursion of the corpus
  overruns it; deeper calls repeat the same steps.
* `WordMod` is 65536 in the machine's runs: well above all heights, so that an
  offset that wraps is told from one that does not. It is 8 in `values_stack`,
  where the capacity doubles 1, 2, 4, 0 and the wrap is in reach.
* Tables start at 1 or 24 nodes, with `MinCapacity` 2 and `ShrinkFloor` 1
  instead of 16 and 32, so that four keys grow and shrink them. The keys'
  hashes collide at some capacities and not at others. Two values
  tell a lost update from a kept one.
* `ByteMax` 2 and `ShortMax` 5 (255 and 65535) bring all three sizes of a
  constant instruction within 40 bytes of code, in which `codes` is
  reallocated several times.
* Sources nest statements three deep, with two locals and one of a loop; every
  statement occurs in every other, before and after others. `Short` has all
  texts of up to three of 22 tokens, `Broken` drops or replaces each token of
  longer ones. `MaxEntries` is 4 instead of 225, so that texts overrun each
  array, and no source does. `SliceCapacity` is 32 in `compiler`, where all
  of `Crowded`'s texts overrun an array or codes and no source does. With the real 8,
  823 of the 1289 sources overrun codes, which would leave little to say of them. It
  is 8 in `program`, where an integer between statements makes room in time, and in
  `slice_any`.
* `StackCapacity` is 2 instead of 32 in `vm_any`, so that the slot behind the
  top is a slot nobody wrote to in some programs and behind a full stack in others.
* The programs of `program` nest each branch and each inner loop in each outer
  loop, with and without a local around it, in main and in a function that is
  called twice, once below a local and an operand that wait on the stack. Loops
  make three rounds, with the interesting one second. Recursion is four deep,
  direct and mutual, with 8 frames; seven more statements fail, at the top, in a
  loop and in a function. No program comes near a bound of the table or of a word.
* Four characters hold any two-character token between two others, keywords of
  two and three letters that are prefixes of identifiers (`fn`, `for`, with
  the letters f, n, o, r), an escaped and an unescaped quote, a comment with
  its newline. Longer keywords take the same path through `lex_something`.
  `Letters` is the whole lower case alphabet, because the theorems need the letters
  of all keywords; the texts use four of them.

**Fairness.** Weak fairness of `Tick`, `MatchedTick`, the compiler's `Step`, the
lexer's `Next`, and in `UucProgram` of `Compile \/ Load \/ Run`: `uuc_vm_run`,
`compile_code`, `scan` and `run_vm_test_case` go on to the next step in the only
thread there is. The table, stack and slice are called by others and have no fairness.

## 4. The proofs

TLAPS proves these for all constants that satisfy the named assumptions; the
run in which TLC checks the same formula is in the last column.

| Theorem | States | Run |
|---|---|---|
| `TypeInvariant` | `Spec => []TypeOK` of the machine | `vm_any` |
| `CallersResume` | `Spec => []ReturnAddresses` | `vm_any` |
| `GlobalsIsolation` | `Spec => GlobalsIsolated` | `vm_any` |
| `StackDiscipline`, `RunsEndWell` | `MatchedSpec => []Discipline`, `[]Outcome` | `vm_stackmap` |
| `TableTyped`, `EntriesCounted` | `Spec => []TypeOK`, `[]Counted` of the table | `table_any` |
| `LoadStaysBounded` | `Spec => []LoadBounded` | `table_any` |
| `RehashPutsAgain` | `Spec => []RehashIsRepeatedPut` | `table_any` |
| `KnownCallsAreMapSteps` | `Spec => KnownCallsMap` | `table_any` |
| `TableIsMap` | `KnownSpec => IsMap`: users that know their keys have a map | |
| `ValuesTyped`, `OnlyWildWhenFull` | `Spec => []TypeOK`, `[]WildWhenFull` of the stack in memory | `values_stack` |
| `StackKeepsSlots` | `Spec => KeepsSlots` | `values_stack` |
| `SlotsArePrivate` | `MatchedSpec => PrivateSlots` | `vm_stackmap` |
| `SliceTyped`, `ShortRunsFit` | `SliceSpec => []SliceTypeOK`, `[]OverrunByLongRun` | `slice_any` |
| `LexerTyped` | `Spec => []TypeOK` of the lexer | `lexer` |
| `LongestTokens`, `LinesCounted` | `Spec => []MaximalMunch`, `[]Lines` | `lexer` |
| `TextCovered` | `Spec => NothingLost` | `lexer` |
| `CompilerTyped` | `Spec => []TypeOK` of the compiler | `compiler` |
| `BackAtTheTop` | `Spec => []BackAtTop` | `compiler` |
| `FunctionsHandedOver` | `Spec => []HandedOver` | `compiler` |
| `WorkHoldsContext` | `Spec => []CInv`: what C's stack holds of the context | |
| `CompiledProgramsRun` | `Spec => []TypeOK` of `UucProgram` | `program` |

**Arguments.**

* *Machine.* `TypeOK` is inductive by itself for programs that satisfy
  `ProgramsAssumption` (bytes, arities and constants of their types; nothing
  about what the code does). Stack and table hold values the program made or
  `Anything`; a call of the first finds one of the program's functions, and a call
  of the second no frame the model would follow. One lemma for each group of instructions, on top
  of lemmas in `UucLemmas` about the value operators, stack and table.
  `ReturnAddresses` follows since only `OP_CALL` suspends a frame, and the code
  advances the caller's after the callee's is pushed. `GlobalsIsolated` rests on
  `ChangeCapacityKeeps`: a rehash changes no lookup, whatever the hash.
* *Stack map.* `Discipline` and `Outcome` are not inductive: the offset of a
  frame is computed modulo `WordMod`, and a frame that is returned to must have
  an instruction left. The invariant of `UucStackMapProofs` adds both, and that a
  program with a map reads no slot it did not write, so that there is no `Anything`
  (`Made`): offsets
  are at most `MaxHeight` per frame below, and since `MaxHeight *
  MaxCallFrames < WordMod` nothing wraps; every frame below the top has not
  reached its end. `StackMapAssumption` says what a map is, instruction by
  instruction. It is local to a function: it does not mention frames. That the
  local facts add up to the global one, through any nesting of calls, is the
  theorem. `CallsMatch` restricts runs to calls with as many arguments as
  parameters, which the code does not check.
* *Activations.* On top of that invariant the offsets do not go back from one
  frame to the next (`Nested`), so each window is a part of the stack by itself.
  An instruction that neither calls nor returns writes no slot below the
  executing frame's offset, because the map counts what it takes
  (`WritesAbove`), and every activation but the last is what it was. A call cuts
  the last window in two where the callee's parameters begin, and a return puts
  one value behind the window of the caller: `Discipline` after the step says
  where each of them starts and stops.
* *Table.* `Counted` needs the types and, as `Placed`, that an entry is where
  its key hashes to; `LoadBounded` needs `Counted` and
  `(7 * (MinCapacity - 1)) % 10 >= 3`, which holds of 16: a capacity just below
  `MinCapacity` grows to it, and must not be too loaded for that. `TableIsMap` shows
  that the table's contents change by each call as the map does; for stored
  keys a node with one entry has the right one. `KnownCallsAreMapSteps` is that
  fact of each call on its own, whatever calls came before.
* *Rehash.* `RepeatedPut` is a recursion over the puts. After n of them the new
  table has the first n entries of the order and no others (`Moved`): by
  `LoadBounded` the next capacity is large enough that no put finds it over its
  load, and no key comes twice. So these tables solve the equations of the
  recursion, and they are the only solution: two would differ for the first time
  after some put.
* *Lexer.* The loops of `next_token` are given by where they stop, the least
  place where their condition fails. That there is one is `LeastNumber`, which
  stands in for induction: strict inclusion is well-founded on finite sets, the
  intervals from 0 here. The token the code makes is then compared with the lexemes
  of the specification, kind by kind: words, numbers, strings, comments and
  singles. `LexerInv` adds to the types where a comment's rest
  is, and what `line` counts. `Lines` is about texts without a quote, as the code
  does not count the newlines in a string.
* *Compiler.* Depths and current function are variables that are set and set
  back; what says that they come back is C's stack, `work`. `CInv` relates the
  two: as many tasks of `work` have a scope of their own as `scope_depth` says, the
  outermost loop keeps -1 to go back to, the outermost function keeps main, and
  each task has what it carries. The equality is for texts without an error so far:
  after one, loops return without closing their scope, and `scope_depth`
  only is no less. That is enough for it not to go below zero, unsigned as
  it is, however a text is broken. The rest is that
  each helper keeps a context of its types (`Good`), and a case for each function
  of the compiler. It holds for every set of texts over any tokens.
  For `HandedOver` the invariant follows the functions through `work` as well
  (`Handed`): those that are no constant yet are the current one and those it leads
  back to, each begun before the one it waits for, and a "parameters" task has the
  end of its function behind it, so that main is never the one whose parameters are
  counted. TLC checked `CInv` on all states of `compiler` before it was proved.
* *Program.* What was proved of the two halves is put together. `CInv` of the
  compiler's instance gives, for a text without an error, functions whose
  constants, names and arities are those the machine's `ProgramsAssumption` asks
  for (`LinkedIsLinkable`; that every function constant is one of the functions
  compiled, and not main, is `HandedOver`'s part of it). That assumption is proved
  of all `Linkable` programs (`ProgramsFit`), and not assumed; so the machine's
  `TypeNext` holds of its instance. What is added is that the machine is untouched
  until it is loaded, and the compiler afterwards.
  `TokensAssumption` says that no token is spelled like the type of another,
  `LabelsAssumption` that labels differ.
* *Stack in memory.* `TypeOK`, with `WildWhenFull` and a natural `size`, is
  inductive: the slots written are a prefix of the block that holds everything
  below `size`, so a push writes a slot of the prefix or the next one. A
  reallocation keeps the prefix because the block grows, unless the doubled
  capacity wrapped, and then the write that follows is wild. The refinement
  compares that prefix, step by step, with what `UucStack` says was written.
* *Slice.* `codes` is as large as `capacity` or twice that, and `size` less
  the bytes since the last constant is at most `capacity`, because a constant
  doubles it in time; past `capacity`, `codes` has been doubled once. Together
  these are inductive, for any order of bytes and constants.

**Checked by TLC only.** Liveness (`Termination`, `Finishes`, `Ends`), which is
out of TLAPS's reach here. `AsMeant` and `FollowsGrammar`, `NotationShows`: a tree
or a derivation is evaluated by recursion, and that the code agrees is an induction
over it. `Fits`, `LocalsAreSlots`, `LoopsKeepTheirJumps` and `NonePending` are
about sources that keep to the rules of section 3: which texts those are would
have to be said as a grammar, and proved along its derivations, which is induction
over data again.

## 5. What the repository says and the code does not do

Each of these is a run that TLC must find violated.

| Run | Claim | What happens |
|---|---|---|
| `vm_end` | `uuc_vm.c:241`: the program ends in main's last instruction | The test looks at the frame that `OP_RETURN` has popped. A callee that returns in its last instruction ends the program; one that returns earlier, called in main's last instruction, makes the machine read behind main's code. |
| `vm_wide_constant` | `uuc_vm.c:89-90`: the index is in the next two bytes | It is 0, and the bytes are run as instructions. |
| `table_absent` | `uuc_val_table.h:40`, `:44`: 1 if the value was found, or removed | A node with one entry answers, and is emptied, for any key of its index. |
| `compiler_assign` | `uuc_compiler.c:504`, `test_compiler.c:67`: cannot assign to an expression | `(g) = 1;` is compiled, to an `OP_SET_GLOBAL` without its index. |

Met on the way, without a run of their own: the values of expression statements
stay on the stack (`test_vm.c:213` expects it to be empty); `slice_push_code` grows
`codes` but not `capacity`, so that ordinary code overruns `codes` (`OverrunByLongRun`
says when); `{ var x = x; }` reads memory nobody wrote to; `EBNF.ebnf` allows
`a = b = c`, which the compiler rejects; unsupported operators are reported
(`uuc_compiler.c:543`, `:564`) and not counted as errors.

## 6. Not modelled, and the plan

**Done**, in this order: the machine on its own; the table; the stack map and
the refinement; stack in memory; slice; lexer; the compiler and its sources;
s-notation; programs from their text to their end; the proofs of section 4, those
of the lexer, the compiler and the rehash, and what joins compiler and machine, last.

**Open.** The compiler composed with the lexer: the compiler's tokens are lexemes
by now, but the comment tokens the lexer does not skip are not among its inputs.
Some hazards have no property, for one of two reasons that their notes give.
Where the code does go wrong, the model has what it does (often `wild`), and that it
does not would be false: sources and programs are chosen without such texts. The
others are out of the runs' reach: names from the 257th on, code longer than 65535
bytes. That constants and names exist where code names them, which `Fits` says of the sources,
is not true of every text (a jump may be written into another function's code),
and is not proved of a larger set of texts than TLC runs.

**Left out for good**: printing (dumps, `opcode_name`, `token_name`,
logging), which changes no state; payloads of strings and doubles, which no
property here is about; `uuc_val_table_free` and `collection_copy`, which the
program never calls; the tests themselves, whose expectations were used to
check the models.
