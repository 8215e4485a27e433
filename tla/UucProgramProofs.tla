-------------------------- MODULE UucProgramProofs ---------------------------
(***************************************************************************)
(* For all texts and all sizes of the tables: what is run is what was      *)
(* compiled, and the compiler hands over what the machine takes for        *)
(* granted.  What is proved of the two apart is put together here; neither *)
(* knows of the other.                                                     *)
(***************************************************************************)
EXTENDS UucProgram, SequenceTheorems, TLAPS

-----------------------------------------------------------------------------
(***************************************************************************)
(* What the machine and the compiler assume of their constants.            *)
(***************************************************************************)
LEMMA LabelledAt ==
  ASSUME NEW n \in DOMAIN Labels
  PROVE  /\ \A i \in 1 .. n : At(Labels[i]) = i
         /\ "main" \in LabelsOf(n) /\ At("main") = 1
         /\ \A label \in LabelsOf(n) : At(label) \in 1 .. n
<1>1. DOMAIN Labels = 1 .. Len(Labels) /\ Len(Labels) \in Nat
  BY LabelsAssumption
<1>2. \A i \in 1 .. n : i \in DOMAIN Labels
  BY <1>1
<1>3. ASSUME NEW i \in DOMAIN Labels
      PROVE  At(Labels[i]) = i
  BY LabelsAssumption DEF At, IsInjective
<1>4. 1 \in 1 .. n
  BY <1>1
<1>5. "main" \in LabelsOf(n)
  BY <1>4, LabelsAssumption DEF LabelsOf
<1>6. At("main") = 1
  BY <1>2, <1>3, <1>4, LabelsAssumption
<1> QED
  BY <1>2, <1>3, <1>5, <1>6 DEF LabelsOf

LEMMA SequencesOfMore ==
  ASSUME NEW S, NEW T, S \subseteq T
  PROVE  Seq(S) \subseteq Seq(T)
<1> SUFFICES ASSUME NEW s \in Seq(S)
             PROVE  s \in Seq(T)
  OBVIOUS
<1>1. s \in [1 .. Len(s) -> T]
  OBVIOUS
<1> QED
  BY <1>1

LEMMA MadeSequence ==
  ASSUME NEW S, NEW n \in Nat, NEW f, f = [i \in 1 .. n |-> f[i]], \A i \in 1 .. n : f[i] \in S
  PROVE  f \in Seq(S) /\ Len(f) = n
<1>1. f \in [1 .. n -> S]
  OBVIOUS
<1> QED
  BY <1>1

LEMMA MoreLabels ==
  ASSUME NEW n \in DOMAIN Labels
  PROVE  FunctionOf(n) \subseteq FunctionOf(Len(Labels))
<1>1. LabelsOf(n) \subseteq LabelsOf(Len(Labels))
  BY LabelsAssumption DEF LabelsOf
<1>2. ValuesOver(LabelsOf(n) \ {"main"}) \subseteq ValuesOver(LabelsOf(Len(Labels)) \ {"main"})
  BY <1>1 DEF ValuesOver
<1>3. Seq(ValuesOver(LabelsOf(n) \ {"main"}))
        \subseteq Seq(ValuesOver(LabelsOf(Len(Labels)) \ {"main"}))
  BY <1>2, SequencesOfMore
<1> QED
  BY <1>3 DEF FunctionOf

LEMMA ProgramsFit == Machine!ProgramsAssumption
<1> DEFINE programs == [p \in Linkable |-> Labelled(p)]
<1>1. ASSUME NEW p \in Linkable
      PROVE  /\ "main" \in DOMAIN Labelled(p)
             /\ Labelled(p)["main"].arity = 0
             /\ \A f \in DOMAIN Labelled(p) :
                  /\ Labelled(p)[f] \in Machine!Functions
                  /\ \A i \in DOMAIN Labelled(p)[f].constants :
                       LET c == Labelled(p)[f].constants[i]
                       IN  c.type = "function" => c.fn \in DOMAIN Labelled(p) \ {"main"}
  <2>1. /\ Len(p) \in DOMAIN Labels /\ p[1].arity = 0 /\ DOMAIN p = 1 .. Len(p)
        /\ \A i \in DOMAIN p : p[i] \in FunctionOf(Len(p))
    BY DEF Linkable
  <2>2. DOMAIN Labelled(p) = LabelsOf(Len(p))
    BY DEF Labelled
  <2>3. "main" \in LabelsOf(Len(p)) /\ Labelled(p)["main"].arity = 0
    BY <2>1, LabelledAt DEF Labelled
  <2>4. ASSUME NEW f \in LabelsOf(Len(p))
        PROVE  Labelled(p)[f] \in FunctionOf(Len(p))
    BY <2>1, LabelledAt DEF Labelled
  <2>5. LabelsOf(Len(p)) \subseteq UNION {DOMAIN programs[q] : q \in DOMAIN programs}
    BY <2>2
  <2>6. ValuesOver(LabelsOf(Len(p)) \ {"main"}) \subseteq Machine!Values
    BY <2>5 DEF ValuesOver, Machine!Values, Machine!ValuesOver
  <2>7. FunctionOf(Len(p)) \subseteq Machine!Functions
    <3>1. Seq(ValuesOver(LabelsOf(Len(p)) \ {"main"})) \subseteq Seq(Machine!Values)
      BY <2>6, SequencesOfMore
    <3> QED
      BY <3>1 DEF FunctionOf, Machine!Functions, Byte, Machine!Byte
  <2>8. ASSUME NEW f \in LabelsOf(Len(p)), NEW i \in DOMAIN Labelled(p)[f].constants,
               Labelled(p)[f].constants[i].type = "function"
        PROVE  Labelled(p)[f].constants[i].fn \in LabelsOf(Len(p)) \ {"main"}
    <3>1. Labelled(p)[f].constants \in Seq(ValuesOver(LabelsOf(Len(p)) \ {"main"}))
      BY <2>4 DEF FunctionOf
    <3>2. Labelled(p)[f].constants[i] \in ValuesOver(LabelsOf(Len(p)) \ {"main"})
      BY <3>1
    <3> QED
      BY <2>8, <3>2 DEF ValuesOver
  <2> QED
    BY <2>2, <2>3, <2>4, <2>7, <2>8
<1>2. DOMAIN programs = Linkable /\ \A p \in Linkable : programs[p] = Labelled(p)
  OBVIOUS
<1> QED
  BY <1>1, <1>2, MachineAssumption DEF Machine!ProgramsAssumption

LEMMA TableFits == Machine!TableAssumption
  BY MachineAssumption DEF Machine!TableAssumption, IsFiniteSet, Machine!IsFiniteSet

LEMMA TextsFit ==
  Compiler!TextsAssumption /\ Compiler!SliceCapacityAssumption /\ Compiler!SourcesAssumption
  BY TokensAssumption
     DEF Compiler!TextsAssumption, Compiler!SliceCapacityAssumption, Compiler!SourcesAssumption,
         Range, Compiler!Range

-----------------------------------------------------------------------------
(***************************************************************************)
(* The constants and names of an accepted text are those of the machine.   *)
(***************************************************************************)
LEMMA ConstantLinked ==
  ASSUME Compiler!CInv, NEW c \in Compiler!ConstantValues, NEW n \in DOMAIN Labels,
         c.type = "function" => c.fn \in 2 .. n
  PROVE  Constant(c) \in ValuesOver(LabelsOf(n) \ {"main"})
<1>1. CASE c.type = "function"
  <2>1. c.fn \in 2 .. n /\ c.fn \in 1 .. n /\ At(Labels[c.fn]) # 1
    BY <1>1, LabelledAt
  <2>2. Labels[c.fn] \in LabelsOf(n) \ {"main"}
    BY <2>1, LabelledAt DEF LabelsOf
  <2> QED
    BY <1>1, <2>2 DEF Constant, ValuesOver, FunVal
<1>2. CASE c.type = "null"
  BY <1>2 DEF Constant, ValuesOver
<1>3. CASE c \in Compiler!LiteralValues
  <2>1. /\ c.type \in {"integer", "double", "string"} /\ c.token \in Compiler!AllTokens
        /\ Compiler!TypeOf(c.token) = c.type
    BY <1>3 DEF Compiler!LiteralValues, Compiler!Constants
  <2>2. CASE c.type = "integer"
    <3>1. c.token # "integer"
      <4>1. "integer" \notin Compiler!Written
        BY TokensAssumption DEF Compiler!Written, Range, Compiler!Range
      <4> QED
        BY <2>1, <4>1 DEF Compiler!AllTokens
    <3>2. c.token \in Integers
      BY <2>1, <2>2, <3>1 DEF Compiler!TypeOf
    <3>3. IntegerValue[c.token] \in Int
      BY <3>2, IntegersAssumption
    <3> QED
      BY <2>2, <3>3 DEF Constant, ValuesOver, IntVal
  <2> QED
    BY <2>1, <2>2 DEF Constant, ValuesOver
<1> QED
  BY <1>1, <1>2, <1>3 DEF Compiler!ConstantValues

LEMMA NamesLinked ==
  ASSUME NEW fun, fun.names \in Seq(Compiler!AllTokens), Compiler!NamesOnly(fun)
  PROVE  fun.names \in Seq(Keys)
<1>1. ASSUME NEW k \in DOMAIN fun.names
      PROVE  fun.names[k] \in Keys
  <2>1. Compiler!TypeOf(fun.names[k]) = "identifier" /\ fun.names[k] \in Compiler!AllTokens
    BY DEF Compiler!NamesOnly
  <2>2. "identifier" \notin Compiler!AllTokens
    BY TokensAssumption DEF Compiler!AllTokens, Compiler!Written, Range, Compiler!Range
  <2>3. fun.names[k] \in Identifiers
    BY <2>1, <2>2 DEF Compiler!TypeOf
  <2> QED
    BY <2>3, TokensAssumption
<1> QED
  BY <1>1

LEMMA FunctionLinked ==
  ASSUME Compiler!CInv, Accepted, NEW i \in DOMAIN context.functions
  PROVE  Linked(context.functions)[i] \in FunctionOf(Len(context.functions))
<1> DEFINE functions == context.functions
           fun == functions[i]
           n == Len(functions)
<1>1. /\ functions \in Seq(Compiler!CompiledFunctions)
      /\ context.current \in 1 .. n
      /\ Compiler!AllNamed(functions)
      /\ \A p \in Compiler!Made(functions) : p.fn \in 2 .. n
  BY DEF Compiler!CInv, Compiler!Good, Compiler!Contexts, Compiler!Kept, Compiler!Handed,
         Compiler!OneEach, Accepted
<1>2. /\ fun \in Compiler!CompiledFunctions /\ Compiler!NamesOnly(fun)
      /\ n \in DOMAIN Labels
  BY <1>1, LabelsAssumption DEF Compiler!AllNamed, Accepted
<1>3. /\ fun.arity \in Byte /\ fun.code \in Seq(Byte) /\ fun.names \in Seq(Keys)
      /\ fun.constants \in Seq(Compiler!ConstantValues)
  BY <1>2, NamesLinked DEF Compiler!CompiledFunctions, Compiler!CodeByte, Byte
<1>4. ASSUME NEW k \in DOMAIN fun.constants
      PROVE  Constant(fun.constants[k]) \in ValuesOver(LabelsOf(n) \ {"main"})
  <2>1. ASSUME fun.constants[k].type = "function"
        PROVE  fun.constants[k].fn \in 2 .. n
    <3>1. [fn |-> fun.constants[k].fn, in |-> i, at |-> k] \in Compiler!Made(functions)
      BY <2>1 DEF Compiler!Made, Compiler!FunctionsIn
    <3> QED
      BY <1>1, <3>1
  <2>2. fun.constants[k] \in Compiler!ConstantValues
    BY <1>3
  <2>3. n \in DOMAIN Labels
    BY <1>2
  <2> HIDE DEF fun, n
  <2> QED
    BY <2>1, <2>2, <2>3, ConstantLinked
<1>5. [k \in DOMAIN fun.constants |-> Constant(fun.constants[k])]
        \in Seq(ValuesOver(LabelsOf(n) \ {"main"}))
  <2> DEFINE values == ValuesOver(LabelsOf(n) \ {"main"})
             linked == [k \in DOMAIN fun.constants |-> Constant(fun.constants[k])]
             m == Len(fun.constants)
  <2>1. m \in Nat /\ linked = [k \in 1 .. m |-> linked[k]]
    BY <1>3
  <2>2. ASSUME NEW k \in 1 .. m
        PROVE  linked[k] \in values
    <3>1. k \in DOMAIN fun.constants /\ linked[k] = Constant(fun.constants[k])
      BY <1>3
    <3> QED
      BY <1>4, <3>1
  <2> HIDE DEF values, linked, m
  <2>3. linked \in Seq(values)
    BY <2>1, <2>2, MadeSequence
  <2> QED
    BY <2>3 DEF values, linked
<1>6. Linked(functions)[i] =
        [arity |-> fun.arity, code |-> fun.code, names |-> fun.names,
         constants |-> [k \in DOMAIN fun.constants |-> Constant(fun.constants[k])]]
  BY DEF Linked, Link
<1> QED
  BY <1>3, <1>5, <1>6 DEF FunctionOf

LEMMA LinkedIsLinkable ==
  ASSUME Compiler!CInv, Accepted
  PROVE  Linked(context.functions) \in Linkable
<1> DEFINE functions == context.functions
           linked == Linked(functions)
<1>1. /\ functions \in Seq(Compiler!CompiledFunctions) /\ context.current \in 1 .. Len(functions)
      /\ functions[1].arity = 0
  BY DEF Compiler!CInv, Compiler!Good, Compiler!Contexts, Compiler!MainTakesNone
<1>2. Len(functions) \in DOMAIN Labels
  BY <1>1, LabelsAssumption DEF Accepted
<1>3. DOMAIN linked = 1 .. Len(functions)
  BY <1>1 DEF Linked
<1>4. \A i \in DOMAIN linked : linked[i] \in FunctionOf(Len(functions))
  BY <1>3, <1>1, FunctionLinked
<1>5. linked \in Seq(FunctionOf(Len(Labels))) /\ Len(linked) = Len(functions)
  <2>1. Len(functions) \in Nat /\ linked = [i \in 1 .. Len(functions) |-> linked[i]]
    BY <1>1, <1>3 DEF Linked
  <2>2. \A i \in 1 .. Len(functions) : linked[i] \in FunctionOf(Len(Labels))
    BY <1>2, <1>3, <1>4, MoreLabels
  <2> HIDE DEF linked
  <2> QED
    BY <2>1, <2>2, MadeSequence
<1>6. linked[1].arity = 0
  BY <1>1 DEF Linked, Link
<1> QED
  BY <1>2, <1>3, <1>4, <1>5, <1>6 DEF Linkable

-----------------------------------------------------------------------------
(***************************************************************************)
(* The inductive invariant: that of the compiler, and, until a program is  *)
(* loaded, a machine in which nothing has run.                             *)
(***************************************************************************)
Fresh ==
  /\ stack = Machine!EmptyStack
  /\ frames = <<[fn |-> "main", ii |-> 0, offset |-> 0]>>
  /\ globals = Machine!EmptyTable(InitCapacity)

IInv ==
  /\ Compiler!CInv
  /\ run = "idle" => Fresh
  /\ TypeOK

LEMMA IInvInit == Init => IInv
<1> SUFFICES ASSUME Init
             PROVE  IInv
  OBVIOUS
<1>1. Compiler!CInv
  BY Compiler!CInvInit, TextsFit DEF Init
<1> QED
  BY <1>1 DEF Init, IInv, Fresh, TypeOK

\* The machine is not loaded before the compiler is done.
LEMMA CompileKeeps ==
  ASSUME IInv, Compile
  PROVE  IInv'
<1>1. Compiler!CInv'
  BY Compiler!CInvStep, TextsFit DEF IInv, Compile
<1>2. run = "idle" /\ run' = run
  BY Compiler!StepGoesOn, TextsFit DEF IInv, TypeOK, Accepted, Compile, machine
<1>3. Fresh'
  BY <1>2 DEF IInv, Fresh, Compile, machine
<1> QED
  BY <1>1, <1>2, <1>3 DEF IInv, TypeOK

LEMMA MachineBegins == Machine!Init => Machine!TypeOK
  BY Machine!TypeInit, ProgramsFit, TableFits, WordModAssumption, ExactAssumption

LEMMA MachineBeginsNext == (Machine!Init => Machine!TypeOK)'
  BY MachineBegins, PTL

LEMMA LoadKeeps ==
  ASSUME IInv, Load
  PROVE  IInv'
<1>1. Compiler!CInv'
  BY Compiler!CInvUnchanged, TextsFit DEF IInv, Load, compiler, Compiler!vars
<1>2. prog' \in Linkable /\ Accepted' /\ prog' = Linked(context'.functions)
  BY LinkedIsLinkable DEF IInv, Load, Accepted, compiler
<1>3. (Machine!Init)'
  BY <1>2 DEF IInv, Fresh, Load, Machine!Init
<1>4. Machine!TypeOK'
  BY <1>3, MachineBeginsNext
<1> QED
  BY <1>1, <1>2, <1>4 DEF IInv, TypeOK, Load

LEMMA RunKeeps ==
  ASSUME IInv, Run
  PROVE  IInv'
<1>1. Compiler!CInv'
  BY Compiler!CInvUnchanged, TextsFit DEF IInv, Run, compiler, Compiler!vars
<1>2. run = "ok" /\ prog' = prog
  BY Machine!TickRuns, ProgramsFit, TableFits, WordModAssumption, ExactAssumption DEF Run
<1>3. Machine!TypeOK'
  BY <1>2, Machine!TypeNext, ProgramsFit, TableFits, WordModAssumption, ExactAssumption
     DEF IInv, TypeOK, Run, Machine!Next
<1>4. run' # "idle"
  BY <1>3 DEF Machine!TypeOK
<1>5. Accepted' /\ prog' = Linked(context'.functions)
  BY <1>2 DEF IInv, TypeOK, Run, Accepted, compiler
<1> QED
  BY <1>1, <1>3, <1>4, <1>5 DEF IInv, TypeOK

LEMMA UnchangedKeeps ==
  ASSUME IInv, UNCHANGED vars
  PROVE  IInv'
<1>1. Compiler!CInv'
  BY Compiler!CInvUnchanged, TextsFit DEF IInv, vars, compiler, Compiler!vars
<1>2. run # "idle" => Machine!TypeOK'
  BY Machine!TypeNext, ProgramsFit, TableFits, WordModAssumption, ExactAssumption
     DEF IInv, TypeOK, vars, machine, Machine!vars
<1> QED
  BY <1>1, <1>2 DEF IInv, TypeOK, Fresh, Accepted, vars, compiler, machine

LEMMA IInvNext == IInv /\ [Next]_vars => IInv'
  BY CompileKeeps, LoadKeeps, RunKeeps, UnchangedKeeps DEF Next, Stopped

(***************************************************************************)
(* Whatever text is compiled: what runs is what was compiled of a text the *)
(* compiler accepted without writing outside its arrays, and it is a       *)
(* program as the machine takes it for granted: bytes whose constants are  *)
(* values and whose functions are its own.  From its first instruction to  *)
(* its last the state is typed: the frames have room, and what is on the   *)
(* stack or in the table is a value the program made or comes from a slot  *)
(* read before it was stored in, as in { var x = x; x(); }, of which       *)
(* nothing is known: that call is an error or goes wild.                   *)
(***************************************************************************)
THEOREM CompiledProgramsRun == Spec => []TypeOK
<1>1. IInv => TypeOK
  BY DEF IInv
<1> QED
  BY <1>1, IInvInit, IInvNext, PTL DEF Spec

=============================================================================
